------------------------ MODULE RhinoGatewayProofs ------------------------
(***************************************************************************)
(* Theorems about RhinoGateway for every set of calls, keys, payloads and  *)
(* objects and every combination of faults, checked by TLAPS.              *)
(***************************************************************************)
EXTENDS RhinoGateway, TLAPS

----------------------------------------------------------------------------
(* The inductive invariant of the key bookkeeping *)

Busy == {"locking"} \cup Locked

Shapes ==
    /\ pc \in [Tasks -> {"idle"} \cup Waiting \cup Locked \cup Ended]
    /\ DOMAIN req = Calls
    /\ \A c \in Calls : req[c].key = KeyOf[c]
    /\ applied \in [Calls -> Nat]
    /\ DOMAIN result \subseteq Calls
    /\ \A c \in Calls : req[c].payload \in Payloads
    /\ None \notin DOMAIN receipts

\* An in-flight future belongs to a running call of that key, and the key has
\* no receipt yet; conversely a running call with a key owns its future.
Owners ==
    /\ \A k \in DOMAIN inflight :
          /\ k # None /\ k \notin DOMAIN receipts
          /\ inflight[k] \in Calls /\ KeyOf[inflight[k]] = k
          /\ pc[inflight[k]] \in Busy
    /\ \A c \in Calls :
          pc[c] \in Busy /\ KeyOf[c] # None
          => KeyOf[c] \in DOMAIN inflight /\ inflight[KeyOf[c]] = c

\* A waiter awaits a call of its own key that runs or has ended by itself.
Waiters ==
    \A c \in Calls :
        pc[c] = "waiting" =>
            /\ c \in DOMAIN future /\ future[c] \in Calls
            /\ KeyOf[c] # None /\ KeyOf[future[c]] = KeyOf[c]
            /\ pc[future[c]] \in Busy \cup {"returned", "raised", "cancelled"}

\* Who has an answer, and which.
Answers ==
    \A c \in Calls :
        /\ pc[c] \in {"returned", "replayed", "conflict"} <=> c \in DOMAIN result
        /\ c \in DOMAIN result =>
              /\ KeyOf[c] # None =>
                    KeyOf[c] \in DOMAIN receipts /\ result[c] = receipts[KeyOf[c]]
              /\ pc[c] = "returned" => result[c].by = c
              /\ pc[c] = "replayed" => result[c].payload = req[c].payload
              /\ pc[c] = "conflict" => result[c].payload # req[c].payload

\* Who may have changed the document, and whose writes may still be in flight.
Doers ==
    /\ \A c \in Calls :
          applied[c] > 0 => pc[c] \in {"sent", "after", "returned", "raised", "cancelled"}
    /\ \A o \in orphans :
          o.by \in Calls => pc[o.by] \in {"after", "returned", "raised", "cancelled"}

KeyInv == Shapes /\ Owners /\ Waiters /\ Answers /\ Doers

THEOREM KeyInvInit == Init => KeyInv
  BY GatewayAssumption
     DEF Init, KeyInv, Shapes, Owners, Waiters, Answers, Doers, Empty, Busy, Waiting, Locked,
         Ended, Tasks

\* A call that ends with a receipt of its own, running or straight from its
\* invocation, leaves the bookkeeping sound.
LEMMA ReturnKeepsKeyInv ==
  ASSUME KeyInv, NEW c \in Calls, NEW r, r.by = c,
         pc[c] \in Busy \/ (pc[c] = "idle" /\ NewKey(KeyOf[c])),
         pc' = [pc EXCEPT ![c] = "returned"],
         Return(c, KeyOf[c], r),
         DOMAIN req' = Calls, \A d \in Calls : req'[d].key = KeyOf[d],
         \A d \in Calls : req'[d].payload \in Payloads,
         \A d \in Calls : d # c => req'[d] = req[d],
         UNCHANGED <<future, applied, orphans>>
  PROVE  KeyInv'
<1> USE DEF KeyInv, Return, Put, Drop, NewKey, Busy, Locked, Waiting, Ended
<1>1. Shapes'
  BY DEF Shapes, Tasks
<1>2. Owners'
  BY GatewayAssumption DEF Shapes, Owners, Tasks
<1>3. Waiters'
  BY DEF Shapes, Waiters, Tasks
<1>4. Answers'
  BY GatewayAssumption DEF Shapes, Owners, Answers, Tasks
<1>5. Doers'
  BY DEF Shapes, Doers, Tasks
<1> QED BY <1>1, <1>2, <1>3, <1>4, <1>5

\* A running call that stays a running call.
LEMMA MoveKeepsKeyInv ==
  ASSUME KeyInv, NEW c \in Calls, NEW p, pc[c] \in Busy \ {"after"}, p \in Busy,
         pc' = [pc EXCEPT ![c] = p],
         applied[c] > 0 => p \in {"sent", "after"},
         UNCHANGED <<receipts, inflight, result, req, future, applied>>,
         \A o \in orphans' : o \in orphans \/ (o.by = c /\ p = "after")
  PROVE  KeyInv'
<1> USE DEF KeyInv, Busy, Locked, Waiting, Ended
<1>1. Shapes' /\ Waiters'
  BY DEF Shapes, Waiters, Tasks
<1>2. Owners'
  BY DEF Shapes, Owners, Tasks
<1>3. Answers'
  BY DEF Shapes, Answers, Tasks
<1>4. Doers'
  BY DEF Shapes, Doers, Tasks
<1> QED BY <1>1, <1>2, <1>3, <1>4

\* A running or waiting call that ends with an exception.
LEMMA AbandonKeepsKeyInv ==
  ASSUME KeyInv, NEW c \in Calls, NEW p, pc[c] \in Busy \cup {"waiting"},
         p \in {"raised", "cancelled"},
         pc' = [pc EXCEPT ![c] = p],
         Abandon(c),
         UNCHANGED <<req, future, applied>>,
         \A o \in orphans' : o \in orphans \/ o.by = c
  PROVE  KeyInv'
<1> USE DEF KeyInv, Abandon, Drop, Busy, Locked, Waiting, Ended
<1>1. Shapes'
  BY DEF Shapes, Tasks
<1>2. Owners'
  BY DEF Shapes, Owners, Tasks
<1>3. Waiters'
  BY DEF Shapes, Owners, Waiters, Tasks
<1>4. Answers'
  BY DEF Shapes, Answers, Tasks
<1>5. Doers'
  BY DEF Shapes, Doers, Tasks
<1> QED BY <1>1, <1>2, <1>3, <1>4, <1>5

\* The position Proceed takes a call to.
LEMMA ProceedMoves ==
  ASSUME KeyInv, NEW c \in Calls, NEW locals, pc[c] \in {"before", "sent"},
         Proceed(c, locals),
         UNCHANGED <<orphans, receipts, inflight, result, req, future, applied>>
  PROVE  KeyInv'
<1>1. \E p \in {"sent", "after"} : pc' = [pc EXCEPT ![c] = p]
  BY DEF Proceed
<1>2. PICK p \in {"sent", "after"} : pc' = [pc EXCEPT ![c] = p]
  BY <1>1
<1>3. p \in Busy /\ pc[c] \in Busy \ {"after"}
  BY DEF Busy, Locked
<1> QED BY <1>2, <1>3, MoveKeepsKeyInv

LEMMA InvokeKeepsKeyInv ==
  ASSUME KeyInv, NEW c \in Calls, NEW a \in Arguments(c), Invoke(c, a)
  PROVE  KeyInv'
<1> USE DEF KeyInv, Busy, Locked, Waiting, Ended
<1>1. a.key = KeyOf[c] /\ a.payload \in Payloads /\ a.dry_run \in BOOLEAN
  BY DEF Arguments
<1>2. CASE ReplayReceipt(c, a)
  <2> USE <1>1, <1>2 DEF ReplayReceipt, Put, gateway, host, history
  <2>1. Shapes' /\ Owners'
    BY DEF Shapes, Owners, Tasks
  <2>2. Waiters'
    BY DEF Shapes, Waiters, Tasks
  <2>3. Answers'
    BY DEF Shapes, Answers, Tasks
  <2>4. Doers'
    BY DEF Shapes, Doers, Tasks
  <2> QED BY <2>1, <2>2, <2>3, <2>4
<1>3. CASE JoinInflight(c, a)
  <2> USE <1>1, <1>3 DEF JoinInflight, Put, gateway, host, history
  <2>1. Shapes' /\ Owners'
    BY DEF Shapes, Owners, Tasks
  <2>2. Waiters'
    BY DEF Shapes, Waiters, Owners, Tasks
  <2>3. Answers'
    BY DEF Shapes, Answers, Tasks
  <2>4. Doers'
    BY DEF Shapes, Doers, Tasks
  <2> QED BY <2>1, <2>2, <2>3, <2>4
<1>4. CASE AnswerWithoutHost(c, a)
  <2> DEFINE r == NewReceipt(c, a.payload, IF a.payload \in Unmapped THEN "blocked" ELSE "validated",
                             {}, {}, {})
  <2>1. r.by = c
    BY DEF NewReceipt
  <2>2. Return(c, KeyOf[c], r) /\ NewKey(KeyOf[c])
    BY <1>1, <1>4 DEF AnswerWithoutHost
  <2> HIDE DEF r
  <2>3. pc[c] = "idle" /\ pc' = [pc EXCEPT ![c] = "returned"] /\ UNCHANGED <<future, applied, orphans>>
    BY <1>4 DEF AnswerWithoutHost, host, history
  <2>4. /\ DOMAIN req' = Calls /\ \A d \in Calls : req'[d].key = KeyOf[d]
        /\ \A d \in Calls : req'[d].payload \in Payloads
        /\ \A d \in Calls : d # c => req'[d] = req[d]
    BY <1>1, <1>4 DEF AnswerWithoutHost, Shapes
  <2> QED BY <2>1, <2>2, <2>3, <2>4, ReturnKeepsKeyInv
<1>5. CASE BeginExecution(c, a)
  <2> USE <1>1, <1>5 DEF BeginExecution, Put, NewKey, host, history
  <2>1. Shapes'
    BY DEF Shapes, Tasks
  <2>2. Owners'
    BY DEF Shapes, Owners, Tasks
  <2>3. Waiters'
    BY DEF Shapes, Waiters, Tasks
  <2>4. Answers'
    BY DEF Shapes, Answers, Tasks
  <2>5. Doers'
    BY DEF Shapes, Doers, Tasks
  <2> QED BY <2>1, <2>2, <2>3, <2>4, <2>5
<1> QED BY <1>2, <1>3, <1>4, <1>5 DEF Invoke

LEMMA CallStepKeepsKeyInv ==
  ASSUME KeyInv, NEW c \in Calls, CallStep(c)
  PROVE  KeyInv'
<1>0. /\ req[c].key = KeyOf[c]
      /\ DOMAIN req = Calls /\ \A d \in Calls : req[d].key = KeyOf[d]
      /\ \A d \in Calls : req[d].payload \in Payloads
      /\ applied[c] > 0 => pc[c] \in {"sent", "after", "returned", "raised", "cancelled"}
  BY DEF KeyInv, Shapes, Doers
<1>1. CASE ResumeWaiter(c)
  <2> USE <1>1 DEF ResumeWaiter, Put, gateway, host, history, KeyInv, Busy, Locked, Waiting, Ended
  <2>1. Shapes' /\ Owners'
    BY DEF Shapes, Owners, Tasks
  <2>2. Waiters'
    BY DEF Shapes, Waiters, Tasks
  <2>3. Answers'
    BY DEF Shapes, Waiters, Answers, Tasks
  <2>4. Doers'
    BY DEF Shapes, Doers, Tasks
  <2> QED BY <2>1, <2>2, <2>3, <2>4
<1>2. CASE AcquireLock(c)
  <2>1. /\ pc[c] \in Busy \ {"after"} /\ "capabilities" \in Busy /\ ~(applied[c] > 0)
        /\ pc' = [pc EXCEPT ![c] = "capabilities"]
        /\ UNCHANGED <<receipts, inflight, result, req, future, applied, orphans>>
    BY <1>0, <1>2 DEF AcquireLock, host, history, Busy, Locked
  <2> QED BY <2>1, MoveKeepsKeyInv
<1>3. CASE ReadCapabilities(c)
  <2>1. /\ pc[c] \in Busy \ {"after"} /\ "before" \in Busy /\ ~(applied[c] > 0)
        /\ pc' = [pc EXCEPT ![c] = "before"]
        /\ UNCHANGED <<receipts, inflight, result, req, future, applied, orphans>>
    BY <1>0, <1>3 DEF ReadCapabilities, gateway, host, history, Busy, Locked
  <2> QED BY <2>1, MoveKeepsKeyInv
<1>4. CASE RefuseIncompatiblePlugin(c) \/ RefuseStaleRevision(c)
  <2>1. /\ pc[c] \in Busy /\ pc' = [pc EXCEPT ![c] = "returned"]
        /\ Return(c, KeyOf[c], BlockedReceipt(c)) /\ BlockedReceipt(c).by = c
        /\ UNCHANGED <<req, future, applied, orphans>>
    BY <1>0, <1>4 DEF RefuseIncompatiblePlugin, RefuseStaleRevision, BlockedReceipt, NewReceipt,
                      host, history, Busy, Locked
  <2> QED BY <1>0, <2>1, ReturnKeepsKeyInv
<1>5. CASE ReadBefore(c)
  <2>1. pc[c] = "before" /\ UNCHANGED <<orphans, receipts, inflight, result, req, future, applied>>
    BY <1>5 DEF ReadBefore, gateway, host, history
  <2> QED BY <1>5, <2>1, ProceedMoves DEF ReadBefore
<1>6. CASE RunSentCommand(c)
  <2> USE <1>6 DEF RunSentCommand, Credit, gateway, host
  <2>1. Shapes'
    BY DEF KeyInv, Shapes
  <2>2. Owners' /\ Waiters'
    BY DEF KeyInv, Owners, Waiters
  <2>3. Answers'
    BY DEF KeyInv, Answers
  <2>4. Doers'
    BY DEF KeyInv, Shapes, Doers
  <2> QED BY <2>1, <2>2, <2>3, <2>4 DEF KeyInv
<1>7. CASE ReceiveResult(c)
  <2>1. pc[c] = "sent" /\ UNCHANGED <<orphans, receipts, inflight, result, req, future, applied>>
    BY <1>7 DEF ReceiveResult, gateway, host, history
  <2>2. \E locals : Proceed(c, locals)
    BY <1>7 DEF ReceiveResult
  <2> QED BY <2>1, <2>2, ProceedMoves
<1>8. CASE CommandFails(c) \/ AnswerIsMalformed(c) \/ LoseResponse(c)
  <2>1. /\ pc[c] \in Busy \ {"after"} /\ "after" \in Busy
        /\ pc' = [pc EXCEPT ![c] = "after"]
        /\ UNCHANGED <<receipts, inflight, result, req, future, applied>>
        /\ \A o \in orphans' : o \in orphans \/ o.by = c
    BY <1>8 DEF CommandFails, AnswerIsMalformed, LoseResponse, Interrupt, StopWaiting, gateway,
                host, history, Busy, Locked
  <2> QED BY <2>1, MoveKeepsKeyInv
<1>9. CASE ReadAfter(c)
  <2>1. PICK r : r.by = c /\ Return(c, KeyOf[c], r)
    BY <1>0, <1>9 DEF ReadAfter, NewReceipt
  <2>2. /\ pc[c] \in Busy /\ pc' = [pc EXCEPT ![c] = "returned"]
        /\ UNCHANGED <<req, future, applied, orphans>>
    BY <1>9 DEF ReadAfter, host, history, Busy, Locked
  <2> QED BY <1>0, <2>1, <2>2, ReturnKeepsKeyInv
<1>10. CASE ReadFails(c)
  <2>1. /\ pc[c] \in Busy \cup {"waiting"} /\ pc' = [pc EXCEPT ![c] = "raised"]
        /\ Abandon(c) /\ UNCHANGED <<req, future, applied, orphans>>
    BY <1>10 DEF ReadFails, host, history, Busy, Locked
  <2> QED BY <2>1, AbandonKeepsKeyInv
<1> QED BY <1>1, <1>2, <1>3, <1>4, <1>5, <1>6, <1>7, <1>8, <1>9, <1>10 DEF CallStep

\* A step of a query or a visit: its own position moves and no receipt is
\* touched.
LEMMA VisitStepFrame ==
  ASSUME KeyInv, NEW v \in Visits, StartVisit(v) \/ VisitStep(v) \/ CancelVisit(v)
  PROVE  /\ \E p \in {"locking"} \cup Locked \cup Ended : pc' = [pc EXCEPT ![v] = p]
         /\ UNCHANGED <<receipts, inflight, result, req, future, applied>>
         /\ \A o \in orphans' : o \in orphans \/ o.by = v
<1> USE DEF gateway, host, history, Locked, Ended
<1>1. CASE StartVisit(v) \/ LockForVisit(v) \/ AskRhino(v)
  BY <1>1 DEF StartVisit, LockForVisit, AskRhino
<1>2. CASE RunVisit(v)
  <2>1. pc' = [pc EXCEPT ![v] = "sent"]
    BY <1>2 DEF RunVisit, KeyInv, Shapes
  <2> QED BY <1>2, <2>1 DEF RunVisit
<1>3. CASE ReceiveVisit(v) \/ CheckOpened(v) \/ VisitFails(v)
  BY <1>3 DEF ReceiveVisit, CheckOpened, VisitFails, LeaveVisit
<1>4. CASE LoseVisit(v) \/ CancelVisit(v)
  BY <1>4 DEF LoseVisit, CancelVisit, LeaveVisit, StopWaiting
<1> QED BY <1>1, <1>2, <1>3, <1>4 DEF VisitStep

\* Cancellation, scene queries, visits, writes nobody waits for and other
\* people's edits.
LEMMA OtherStepKeepsKeyInv ==
  ASSUME KeyInv,
         \/ \E c \in Calls : CancelCall(c)
         \/ \E q \in Queries : StartQuery(q) \/ QueryStep(q)
         \/ \E v \in Visits : StartVisit(v) \/ VisitStep(v) \/ CancelVisit(v)
         \/ \E o \in orphans : RunOrphan(o) \/ RunOrphanVisit(o)
         \/ \E op \in {"create", "update", "delete"}, i \in Ids : EditDocument(op, i)
         \/ AllEnded
  PROVE  KeyInv'
<1>1. ASSUME NEW c \in Calls, CancelCall(c)
      PROVE  KeyInv'
  <2>1. /\ pc[c] \in Busy \cup {"waiting"} /\ pc' = [pc EXCEPT ![c] = "cancelled"]
        /\ Abandon(c) /\ UNCHANGED <<req, future, applied>>
        /\ \A o \in orphans' : o \in orphans \/ o.by = c
    BY <1>1 DEF CancelCall, StopWaiting, history, Busy, Waiting, Locked
  <2> QED BY <2>1, AbandonKeepsKeyInv
<1>2. ASSUME NEW q \in Queries, StartQuery(q) \/ QueryStep(q)
      PROVE  KeyInv'
  <2>1. /\ \E p \in {"locking", "indexing"} \cup Ended : pc' = [pc EXCEPT ![q] = p]
        /\ UNCHANGED <<orphans, receipts, inflight, result, req, future, applied>>
    BY <1>2 DEF StartQuery, QueryStep, AnswerFromCache, LockForIndex, IndexScene, IndexFails,
                gateway, host, history, Ended
  <2>2. Shapes' /\ \A c \in Calls : pc'[c] = pc[c]
    BY <2>1, GatewayAssumption DEF KeyInv, Shapes, Tasks, Locked, Waiting
  <2>3. Owners' /\ Waiters' /\ Answers' /\ Doers'
    BY <2>1, <2>2 DEF KeyInv, Owners, Waiters, Answers, Doers
  <2> QED BY <2>2, <2>3 DEF KeyInv
<1>6. ASSUME NEW v \in Visits, StartVisit(v) \/ VisitStep(v) \/ CancelVisit(v)
      PROVE  KeyInv'
  <2>1. PICK p \in {"locking"} \cup Locked \cup Ended : pc' = [pc EXCEPT ![v] = p]
    BY <1>6, VisitStepFrame
  <2>2. /\ UNCHANGED <<receipts, inflight, result, req, future, applied>>
        /\ \A o \in orphans' : o \in orphans \/ o.by = v
    BY <1>6, VisitStepFrame
  <2>3. Shapes' /\ v \notin Calls /\ \A c \in Calls : pc'[c] = pc[c]
    BY <2>1, <2>2, GatewayAssumption DEF KeyInv, Shapes, Tasks, Waiting
  <2>4. Owners' /\ Waiters' /\ Answers'
    BY <2>2, <2>3 DEF KeyInv, Owners, Waiters, Answers
  <2>5. Doers'
    BY <2>2, <2>3 DEF KeyInv, Doers
  <2> QED BY <2>3, <2>4, <2>5 DEF KeyInv
<1>7. ASSUME NEW o \in orphans, RunOrphanVisit(o)
      PROVE  KeyInv'
  BY <1>7 DEF RunOrphanVisit, gateway, calls, history, KeyInv, Shapes, Owners, Waiters, Answers, Doers
<1>3. ASSUME NEW o \in orphans, RunOrphan(o)
      PROVE  KeyInv'
  <2> USE <1>3 DEF RunOrphan, Credit, calls, gateway
  <2>1. Shapes' /\ Doers'
    BY DEF KeyInv, Shapes, Doers
  <2>2. Owners' /\ Waiters' /\ Answers'
    BY DEF KeyInv, Owners, Waiters, Answers
  <2> QED BY <2>1, <2>2 DEF KeyInv
<1>4. ASSUME NEW op, NEW i, EditDocument(op, i)
      PROVE  KeyInv'
  BY <1>4 DEF EditDocument, calls, gateway, history, KeyInv, Shapes, Owners, Waiters, Answers, Doers
<1>5. CASE AllEnded
  BY <1>5 DEF AllEnded, vars, calls, gateway, history, host, KeyInv, Shapes, Owners, Waiters,
              Answers, Doers
<1> QED BY <1>1, <1>2, <1>3, <1>4, <1>5, <1>6, <1>7

THEOREM KeyInvStep == KeyInv /\ [Next]_vars => KeyInv'
<1> SUFFICES ASSUME KeyInv, [Next]_vars PROVE KeyInv'
  OBVIOUS
<1>1. ASSUME NEW c \in Calls, NEW a \in Arguments(c), Invoke(c, a)
      PROVE  KeyInv'
  BY <1>1, InvokeKeepsKeyInv
<1>2. ASSUME NEW c \in Calls, CallStep(c)
      PROVE  KeyInv'
  BY <1>2, CallStepKeepsKeyInv
<1>3. CASE UNCHANGED vars
  BY <1>3 DEF vars, calls, gateway, history, host, KeyInv, Shapes, Owners, Waiters, Answers, Doers
<1> QED BY <1>1, <1>2, <1>3, OtherStepKeepsKeyInv DEF Next

THEOREM KeyInvariant == Spec => []KeyInv
<1> QED BY KeyInvInit, KeyInvStep, PTL DEF Spec

----------------------------------------------------------------------------
(* What the bookkeeping gives the callers *)

\* All callers of a key get the one receipt of the key (execute_operations).
THEOREM CallersAgree == Spec => []CallersOfAKeyAgree
<1>1. KeyInv => CallersOfAKeyAgree
  BY DEF KeyInv, Shapes, Answers, CallersOfAKeyAgree
<1> QED BY <1>1, KeyInvariant, PTL

\* A key is worked on twice only after a call of it ended without a receipt.
THEOREM RepeatNeedsALostReceipt == Spec => []RepeatOnlyWithoutReceipt
<1>1. KeyInv => RepeatOnlyWithoutReceipt
  <2> SUFFICES ASSUME KeyInv, NEW c \in Calls, NEW d \in Calls, c # d, SameKey(c, d),
                      applied[c] > 0, applied[d] > 0,
                      pc[c] \notin {"raised", "cancelled"}, pc[d] \notin {"raised", "cancelled"}
               PROVE  FALSE
    BY DEF RepeatOnlyWithoutReceipt
  <2>1. KeyOf[c] = KeyOf[d] /\ KeyOf[c] # None
    BY DEF KeyInv, Shapes, SameKey
  <2>2. pc[c] \in {"sent", "after", "returned"} /\ pc[d] \in {"sent", "after", "returned"}
    BY DEF KeyInv, Doers
  <2>3. CASE pc[c] = "returned" /\ pc[d] = "returned"
    BY <2>1, <2>3 DEF KeyInv, Answers
  <2>4. CASE pc[c] # "returned" /\ pc[d] # "returned"
    BY <2>1, <2>2, <2>4 DEF KeyInv, Owners, Busy, Locked
  <2>5. CASE pc[c] = "returned" /\ pc[d] # "returned"
    BY <2>1, <2>2, <2>5 DEF KeyInv, Owners, Answers, Busy, Locked
  <2>6. CASE pc[c] # "returned" /\ pc[d] = "returned"
    BY <2>1, <2>2, <2>6 DEF KeyInv, Owners, Answers, Busy, Locked
  <2> QED BY <2>3, <2>4, <2>5, <2>6
<1> QED BY <1>1, KeyInvariant, PTL

\* A call ends without a receipt only where a caller gives up or a read fails.
GivesUp == {"raised", "cancelled"}
Kept == Faults \cap {"cancel", "unreadable"} = {} => \A c \in Calls : pc[c] \notin GivesUp

LEMMA KeptStep ==
  ASSUME KeyInv, Kept, [Next]_vars
  PROVE  Kept'
<1> SUFFICES ASSUME Faults \cap {"cancel", "unreadable"} = {}, NEW c \in Calls, pc'[c] \in GivesUp
             PROVE  FALSE
  BY DEF Kept
<1>0. /\ pc[c] \notin GivesUp /\ pc \in [Tasks -> {"idle"} \cup Waiting \cup Locked \cup Ended]
      /\ Calls \cap (Queries \cup Visits) = {} /\ Calls \subseteq Tasks
      /\ Queries \subseteq Tasks /\ Visits \subseteq Tasks
  BY GatewayAssumption DEF Kept, KeyInv, Shapes, Tasks
<1>1. ASSUME NEW d \in Calls, NEW a \in Arguments(d), Invoke(d, a) PROVE FALSE
  BY <1>0, <1>1 DEF GivesUp, Invoke, ReplayReceipt, JoinInflight, AnswerWithoutHost, BeginExecution
<1>2. ASSUME NEW d \in Calls, CallStep(d) \/ CancelCall(d) PROVE FALSE
  <2>1. CASE ResumeWaiter(d)
    <3>1. pc[future[d]] \notin GivesUp
      BY <2>1 DEF KeyInv, Waiters, Kept, ResumeWaiter
    <3> QED BY <1>0, <2>1, <3>1 DEF ResumeWaiter, GivesUp, Ended
  <2>2. CASE ~ResumeWaiter(d)
    BY <1>0, <1>2, <2>2
       DEF GivesUp, CallStep, AcquireLock, ReadCapabilities, RefuseIncompatiblePlugin, ReadBefore,
           RefuseStaleRevision, RunSentCommand, ReceiveResult, CommandFails, AnswerIsMalformed,
           LoseResponse, ReadAfter, ReadFails, CancelCall, Proceed, Interrupt
  <2> QED BY <2>1, <2>2
<1>3. ASSUME NEW q \in Queries, StartQuery(q) \/ QueryStep(q) PROVE FALSE
  BY <1>0, <1>3 DEF StartQuery, QueryStep, AnswerFromCache, LockForIndex, IndexScene, IndexFails
<1>4. ASSUME NEW v \in Visits, StartVisit(v) \/ VisitStep(v) \/ CancelVisit(v) PROVE FALSE
  BY <1>0, <1>4, VisitStepFrame
<1>5. CASE \/ \E o \in orphans : RunOrphan(o) \/ RunOrphanVisit(o)
           \/ \E op \in {"create", "update", "delete"}, i \in Ids : EditDocument(op, i)
           \/ AllEnded \/ UNCHANGED vars
  BY <1>0, <1>5 DEF RunOrphan, RunOrphanVisit, EditDocument, AllEnded, vars, calls
<1> QED BY <1>1, <1>2, <1>3, <1>4, <1>5 DEF Next

\* The contract's reading, reusing a key never repeats geometry, is met for
\* every interleaving, lost or malformed answer and edit, as long as no caller
\* is cancelled and no scene read fails twice: those are the only two ways.
THEOREM OnlyAbandonedKeysRepeat ==
  Spec => [](Faults \cap {"cancel", "unreadable"} = {} => NeverRepeatsGeometry)
<1> DEFINE Never == Faults \cap {"cancel", "unreadable"} = {} => NeverRepeatsGeometry
<1>1. Init => Kept
  BY DEF Init, Kept, GivesUp, Tasks
<1>2. Spec => []Kept
  BY <1>1, KeptStep, KeyInvariant, PTL DEF Spec
<1>3. Kept /\ KeyInv /\ RepeatOnlyWithoutReceipt => Never
  <2> SUFFICES ASSUME Kept, KeyInv, RepeatOnlyWithoutReceipt,
                      Faults \cap {"cancel", "unreadable"} = {},
                      NEW c \in Calls, NEW d \in Calls, c # d, SameKey(c, d)
               PROVE  applied[c] = 0 \/ applied[d] = 0
    BY DEF NeverRepeatsGeometry
  <2>1. applied[c] \in Nat /\ applied[d] \in Nat
    BY DEF KeyInv, Shapes
  <2>2. ~(applied[c] > 0 /\ applied[d] > 0)
    BY DEF Kept, RepeatOnlyWithoutReceipt, GivesUp
  <2> QED BY <2>1, <2>2
<1> QED BY <1>2, <1>3, KeyInvariant, RepeatNeedsALostReceipt, PTL

\* After its receipt a key causes no more work, but for a write already sent.
THEOREM ReceiptEndsWork == Spec => NoWorkAfterReceipt
<1> DEFINE Sound == \A c \in Calls :
             applied'[c] # applied[c] /\ req[c].key \in DOMAIN receipts => WasInFlight(c)
<1>1. ASSUME KeyInv, Next, NEW c \in Calls, applied'[c] # applied[c], req[c].key \in DOMAIN receipts
      PROVE  WasInFlight(c)
  <2>1. ASSUME NEW d \in Calls, NEW a \in Arguments(d), Invoke(d, a) PROVE FALSE
    BY <1>1, <2>1 DEF Invoke, ReplayReceipt, JoinInflight, AnswerWithoutHost, BeginExecution, history
  <2>2. ASSUME NEW d \in Calls, CallStep(d) PROVE FALSE
    <3>1. RunSentCommand(d)
      BY <1>1, <2>2 DEF CallStep, ResumeWaiter, AcquireLock, ReadCapabilities,
           RefuseIncompatiblePlugin, ReadBefore, RefuseStaleRevision, ReceiveResult, CommandFails,
           AnswerIsMalformed, LoseResponse, ReadAfter, ReadFails, history
    <3>2. c = d /\ pc[c] = "sent"
      BY <1>1, <3>1 DEF RunSentCommand, Credit, KeyInv, Shapes
    <3> QED BY <1>1, <3>2 DEF KeyInv, Owners, Shapes, Busy, Locked
  <2>3. ASSUME NEW d \in Calls, CancelCall(d) PROVE FALSE
    BY <1>1, <2>3 DEF CancelCall, history
  <2>4. ASSUME NEW q \in Queries, StartQuery(q) \/ QueryStep(q) PROVE FALSE
    BY <1>1, <2>4 DEF StartQuery, QueryStep, AnswerFromCache, LockForIndex, IndexScene, IndexFails,
                      history
  <2>5. ASSUME NEW o \in orphans, RunOrphan(o) PROVE WasInFlight(c)
    BY <1>1, <2>5 DEF WasInFlight, RunOrphan, Credit, KeyInv, Shapes
  <2>8. ASSUME NEW v \in Visits, StartVisit(v) \/ VisitStep(v) \/ CancelVisit(v) PROVE FALSE
    BY <1>1, <2>8, VisitStepFrame
  <2>9. ASSUME NEW o \in orphans, RunOrphanVisit(o) PROVE FALSE
    BY <1>1, <2>9 DEF RunOrphanVisit, history
  <2>6. ASSUME NEW op, NEW i, EditDocument(op, i) PROVE FALSE
    BY <1>1, <2>6 DEF EditDocument, history
  <2>7. ~AllEnded
    BY <1>1 DEF AllEnded, vars, history
  <2> QED BY <1>1, <2>1, <2>2, <2>3, <2>4, <2>5, <2>6, <2>7, <2>8, <2>9 DEF Next
<1>2. KeyInv /\ [Next]_vars => [Sound]_vars
  BY <1>1
<1>3. Spec => [][Sound]_vars
  <2> HIDE DEF Sound
  <2> QED BY <1>2, KeyInvariant, PTL DEF Spec
<1> QED BY <1>3 DEF NoWorkAfterReceipt

----------------------------------------------------------------------------
(* The gateway implements the ledger *)

AbstractLedger == [k \in DOMAIN receipts |-> Outcome(receipts[k])]
AbstractAnswer == [c \in DOMAIN result |-> Outcome(result[c])]
AbstractGone == {c \in Calls : pc[c] \in {"raised", "cancelled"}}

LEMMA LedgerInit == Init => Ledger!Init
  BY GatewayAssumption DEF Init, Ledger!Init, Empty, Tasks

\* A step that gives a call a receipt of its own settles its key.
LEMMA ReturnSettles ==
  ASSUME KeyInv, NEW c \in Calls, NEW r,
         Outcome(r) \in [payload : Payloads, status : Statuses],
         pc[c] \in Busy \/ (pc[c] = "idle" /\ NewKey(KeyOf[c])),
         pc' = [pc EXCEPT ![c] = "returned"],
         Return(c, KeyOf[c], r)
  PROVE  Ledger!Next
<1>1. c \in Calls \ (DOMAIN AbstractAnswer \cup AbstractGone)
  BY DEF AbstractAnswer, AbstractGone, KeyInv, Answers, Busy, Locked
<1>2. KeyOf[c] \notin DOMAIN AbstractLedger
  BY DEF AbstractLedger, KeyInv, Shapes, Owners, NewKey
<1>3. AbstractLedger' = IF KeyOf[c] = None THEN AbstractLedger
                        ELSE Ledger!Extend(AbstractLedger, KeyOf[c], Outcome(r))
  BY DEF AbstractLedger, Return, Put, Ledger!Extend
<1>4. AbstractAnswer' = Ledger!Extend(AbstractAnswer, c, Outcome(r))
  BY DEF AbstractAnswer, Return, Put, Ledger!Extend
<1>5. AbstractGone' = AbstractGone
  BY DEF AbstractGone, KeyInv, Shapes, Tasks, Busy, Locked
<1>6. Ledger!Settle(c, Outcome(r))
  BY <1>1, <1>2, <1>3, <1>4, <1>5
     DEF Ledger!Settle, Ledger!Pending, AbstractLedger, AbstractAnswer, AbstractGone
<1> QED BY <1>6 DEF Ledger!Next

\* A step that answers a call with the receipt of its key repeats it.
LEMMA ReplayRepeats ==
  ASSUME KeyInv, NEW c \in Calls, pc[c] \in {"idle", "waiting"},
         KeyOf[c] \in DOMAIN receipts,
         result' = Put(result, c, receipts[KeyOf[c]]),
         NEW p, p \notin {"raised", "cancelled"}, pc' = [pc EXCEPT ![c] = p],
         UNCHANGED receipts
  PROVE  Ledger!Next
<1>1. c \in Calls \ (DOMAIN AbstractAnswer \cup AbstractGone)
  BY DEF AbstractAnswer, AbstractGone, KeyInv, Answers
<1>2. /\ KeyOf[c] \in DOMAIN AbstractLedger
      /\ AbstractAnswer' = Ledger!Extend(AbstractAnswer, c, AbstractLedger[KeyOf[c]])
      /\ AbstractLedger' = AbstractLedger
  BY DEF AbstractAnswer, AbstractLedger, Put, Ledger!Extend
<1>3. AbstractGone' = AbstractGone
  BY DEF AbstractGone, KeyInv, Shapes, Tasks
<1>4. Ledger!Repeat(c)
  BY <1>1, <1>2, <1>3
     DEF Ledger!Repeat, Ledger!Pending, AbstractLedger, AbstractAnswer, AbstractGone
<1> QED BY <1>4 DEF Ledger!Next

\* A step that ends a call with an exception lets it leave.
LEMMA AbandonLeaves ==
  ASSUME KeyInv, NEW c \in Calls, pc[c] \in Busy \cup {"waiting"},
         NEW p, p \in {"raised", "cancelled"}, pc' = [pc EXCEPT ![c] = p],
         UNCHANGED <<receipts, result>>
  PROVE  Ledger!Next
<1>1. c \in Calls \ (DOMAIN AbstractAnswer \cup AbstractGone)
  BY DEF AbstractAnswer, AbstractGone, KeyInv, Answers, Busy, Locked
<1>2. AbstractGone' = AbstractGone \cup {c}
  BY DEF AbstractGone, KeyInv, Shapes, Tasks
<1>3. AbstractAnswer' = AbstractAnswer /\ AbstractLedger' = AbstractLedger
  BY DEF AbstractAnswer, AbstractLedger
<1>4. Ledger!Leave(c)
  BY <1>1, <1>2, <1>3
     DEF Ledger!Leave, Ledger!Pending, AbstractLedger, AbstractAnswer, AbstractGone
<1> QED BY <1>4 DEF Ledger!Next

\* Every other step is invisible to the ledger.
LEMMA MoveStutters ==
  ASSUME KeyInv, UNCHANGED <<receipts, result>>,
         \A c \in Calls : pc'[c] \in {"raised", "cancelled"} <=> pc[c] \in {"raised", "cancelled"}
  PROVE  UNCHANGED Ledger!vars
  BY DEF Ledger!vars

LEMMA VerdictIsStatus == ASSUME NEW c \in Calls PROVE Verdict(c) \in Statuses
  BY DEF Verdict, Statuses

LEMMA CallStepImplements ==
  ASSUME KeyInv, NEW c \in Calls, CallStep(c)
  PROVE  Ledger!Next \/ UNCHANGED Ledger!vars
<1>0. req[c].key = KeyOf[c] /\ req[c].payload \in Payloads
  BY DEF KeyInv, Shapes
<1>1. CASE ResumeWaiter(c)
  <2>0. /\ future[c] \in Calls /\ KeyOf[c] # None /\ KeyOf[future[c]] = KeyOf[c]
        /\ pc[future[c]] \in {"returned", "raised", "cancelled"} /\ pc[c] = "waiting"
    BY <1>1 DEF ResumeWaiter, KeyInv, Waiters, Busy, Locked, Ended
  <2>1. CASE pc[future[c]] = "returned"
    <3>1. KeyOf[c] \in DOMAIN receipts /\ result[future[c]] = receipts[KeyOf[c]]
      BY <2>0, <2>1 DEF KeyInv, Answers
    <3>2. PICK p \in {"replayed", "conflict"} : pc' = [pc EXCEPT ![c] = p]
      BY <1>1, <2>1 DEF ResumeWaiter
    <3>3. result' = Put(result, c, receipts[KeyOf[c]]) /\ UNCHANGED receipts
      BY <1>1, <2>1, <3>1 DEF ResumeWaiter, gateway
    <3> QED BY <2>0, <3>1, <3>2, <3>3, ReplayRepeats
  <2>2. CASE pc[future[c]] \in {"raised", "cancelled"}
    <3>1. pc' = [pc EXCEPT ![c] = pc[future[c]]] /\ UNCHANGED <<receipts, result>>
      BY <1>1, <2>2 DEF ResumeWaiter, gateway
    <3> QED BY <2>0, <2>2, <3>1, AbandonLeaves
  <2> QED BY <2>0, <2>1, <2>2
<1>2. CASE RefuseIncompatiblePlugin(c) \/ RefuseStaleRevision(c)
  <2>1. /\ pc[c] \in Busy /\ pc' = [pc EXCEPT ![c] = "returned"]
        /\ Return(c, KeyOf[c], BlockedReceipt(c))
    BY <1>0, <1>2 DEF RefuseIncompatiblePlugin, RefuseStaleRevision, Busy, Locked
  <2>2. Outcome(BlockedReceipt(c)) \in [payload : Payloads, status : Statuses]
    BY <1>0 DEF BlockedReceipt, NewReceipt, Outcome, Statuses
  <2> QED BY <2>1, <2>2, ReturnSettles
<1>3. CASE ReadAfter(c)
  <2> DEFINE r == NewReceipt(c, req[c].payload, Verdict(c), CreatedIds(work[c].before, doc),
                             ModifiedIds(work[c].before, doc), DeletedIds(work[c].before, doc))
  <2>1. /\ pc[c] \in Busy /\ pc' = [pc EXCEPT ![c] = "returned"] /\ Return(c, KeyOf[c], r)
    BY <1>0, <1>3 DEF ReadAfter, Busy, Locked
  <2>2. Outcome(r) \in [payload : Payloads, status : Statuses]
    BY <1>0, VerdictIsStatus DEF NewReceipt, Outcome
  <2> HIDE DEF r
  <2> QED BY <2>1, <2>2, ReturnSettles
<1>4. CASE ReadFails(c)
  <2>1. /\ pc[c] \in Busy /\ pc' = [pc EXCEPT ![c] = "raised"] /\ UNCHANGED <<receipts, result>>
    BY <1>4 DEF ReadFails, Abandon, Busy, Locked
  <2> QED BY <2>1, AbandonLeaves
<1>5. CASE \/ AcquireLock(c) \/ ReadCapabilities(c) \/ ReadBefore(c) \/ RunSentCommand(c)
           \/ ReceiveResult(c) \/ CommandFails(c) \/ AnswerIsMalformed(c) \/ LoseResponse(c)
  <2>1. /\ UNCHANGED <<receipts, result>>
        /\ pc[c] \notin {"raised", "cancelled"}
        /\ \E p \in Locked : pc' = [pc EXCEPT ![c] = p]
    <3>1. CASE AcquireLock(c) \/ ReadCapabilities(c)
      BY <3>1 DEF AcquireLock, ReadCapabilities, gateway, Locked
    <3>2. CASE ReadBefore(c) \/ ReceiveResult(c)
      BY <3>2 DEF ReadBefore, ReceiveResult, Proceed, gateway, Locked
    <3>3. CASE RunSentCommand(c)
      BY <3>3 DEF RunSentCommand, gateway, Locked, KeyInv, Shapes, Tasks
    <3>4. CASE CommandFails(c) \/ AnswerIsMalformed(c) \/ LoseResponse(c)
      BY <3>4 DEF CommandFails, AnswerIsMalformed, LoseResponse, Interrupt, gateway, Locked
    <3> QED BY <1>5, <3>1, <3>2, <3>3, <3>4
  <2>2. \A d \in Calls : pc'[d] \in {"raised", "cancelled"} <=> pc[d] \in {"raised", "cancelled"}
    BY <2>1 DEF KeyInv, Shapes, Tasks, Locked
  <2> QED BY <2>1, <2>2, MoveStutters
<1> QED BY <1>1, <1>2, <1>3, <1>4, <1>5 DEF CallStep

LEMMA InvokeImplements ==
  ASSUME KeyInv, NEW c \in Calls, NEW a \in Arguments(c), Invoke(c, a)
  PROVE  Ledger!Next \/ UNCHANGED Ledger!vars
<1>0. a.key = KeyOf[c] /\ a.payload \in Payloads
  BY DEF Arguments
<1>1. CASE ReplayReceipt(c, a)
  <2>1. PICK p \in {"replayed", "conflict"} : pc' = [pc EXCEPT ![c] = p]
    BY <1>1 DEF ReplayReceipt
  <2>2. /\ pc[c] \in {"idle", "waiting"} /\ KeyOf[c] \in DOMAIN receipts
        /\ result' = Put(result, c, receipts[KeyOf[c]]) /\ UNCHANGED receipts
    BY <1>0, <1>1 DEF ReplayReceipt, gateway
  <2> QED BY <2>1, <2>2, ReplayRepeats
<1>2. CASE AnswerWithoutHost(c, a)
  <2> DEFINE r == NewReceipt(c, a.payload, IF a.payload \in Unmapped THEN "blocked" ELSE "validated",
                             {}, {}, {})
  <2>1. /\ pc[c] = "idle" /\ NewKey(KeyOf[c]) /\ pc' = [pc EXCEPT ![c] = "returned"]
        /\ Return(c, KeyOf[c], r)
    BY <1>0, <1>2 DEF AnswerWithoutHost
  <2>2. Outcome(r) \in [payload : Payloads, status : Statuses]
    BY <1>0 DEF NewReceipt, Outcome, Statuses
  <2> HIDE DEF r
  <2> QED BY <2>1, <2>2, ReturnSettles
<1>3. CASE JoinInflight(c, a) \/ BeginExecution(c, a)
  <2>1. /\ UNCHANGED <<receipts, result>>
        /\ \A d \in Calls : pc'[d] \in {"raised", "cancelled"} <=> pc[d] \in {"raised", "cancelled"}
    BY <1>3 DEF JoinInflight, BeginExecution, gateway, KeyInv, Shapes, Tasks
  <2> QED BY <2>1, MoveStutters
<1> QED BY <1>1, <1>2, <1>3 DEF Invoke

LEMMA StepImplements == KeyInv /\ [Next]_vars => [Ledger!Next]_(Ledger!vars)
<1> SUFFICES ASSUME KeyInv, [Next]_vars PROVE Ledger!Next \/ UNCHANGED Ledger!vars
  OBVIOUS
<1>1. ASSUME NEW c \in Calls, CancelCall(c)
      PROVE  Ledger!Next
  <2>1. /\ pc[c] \in Busy \cup {"waiting"} /\ pc' = [pc EXCEPT ![c] = "cancelled"]
        /\ UNCHANGED <<receipts, result>>
    BY <1>1 DEF CancelCall, Abandon, Busy, Waiting, Locked
  <2> QED BY <2>1, AbandonLeaves
<1>2. ASSUME NEW q \in Queries, StartQuery(q) \/ QueryStep(q)
      PROVE  UNCHANGED Ledger!vars
  <2>1. /\ \E p \in {"locking", "indexing"} \cup Ended : pc' = [pc EXCEPT ![q] = p]
        /\ UNCHANGED <<receipts, result>>
    BY <1>2 DEF StartQuery, QueryStep, AnswerFromCache, LockForIndex, IndexScene, IndexFails,
                gateway, Ended
  <2>2. \A c \in Calls : pc'[c] = pc[c]
    BY <2>1, GatewayAssumption DEF KeyInv, Shapes, Tasks
  <2> QED BY <2>1, <2>2, MoveStutters
<1>5. ASSUME NEW v \in Visits, StartVisit(v) \/ VisitStep(v) \/ CancelVisit(v)
      PROVE  UNCHANGED Ledger!vars
  <2>1. UNCHANGED <<receipts, result>> /\ \A c \in Calls : pc'[c] = pc[c]
    BY <1>5, VisitStepFrame, GatewayAssumption DEF KeyInv, Shapes, Tasks
  <2> QED BY <2>1, MoveStutters
<1>3. ASSUME \/ \E o \in orphans : RunOrphan(o) \/ RunOrphanVisit(o)
             \/ \E op \in {"create", "update", "delete"}, i \in Ids : EditDocument(op, i)
             \/ AllEnded \/ UNCHANGED vars
      PROVE  UNCHANGED Ledger!vars
  <2>1. UNCHANGED <<receipts, result, pc>>
    BY <1>3 DEF RunOrphan, RunOrphanVisit, EditDocument, AllEnded, vars, calls, gateway
  <2> QED BY <2>1, MoveStutters
<1>4. ASSUME NEW c \in Calls, CallStep(c) \/ \E a \in Arguments(c) : Invoke(c, a)
      PROVE  Ledger!Next \/ UNCHANGED Ledger!vars
  BY <1>4, CallStepImplements, InvokeImplements
<1> QED BY <1>1, <1>2, <1>3, <1>4, <1>5 DEF Next

\* Seen through its receipts, the gateway is an idempotent ledger.
THEOREM GatewayImplementsLedger == Spec => ImplementsLedger
<1>1. Spec => Ledger!Spec
  BY LedgerInit, StepImplements, KeyInvariant, PTL DEF Spec, Ledger!Spec
<1> QED BY <1>1 DEF ImplementsLedger

=============================================================================
