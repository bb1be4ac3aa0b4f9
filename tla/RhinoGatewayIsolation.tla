----------------------- MODULE RhinoGatewayIsolation -----------------------
(***************************************************************************)
(* What the gateway's lock gives its callers when nobody else writes to    *)
(* the document, checked by TLAPS for every set of concurrent calls,       *)
(* queries and visits: revisions are checked against the scene the first   *)
(* command runs on, deltas are a call's own, the cache is the document.    *)
(* And, whoever else writes, what a receipt's status says of the commands   *)
(* Rhino ran for its call.                                                 *)
(***************************************************************************)
EXTENDS RhinoGatewayTypes

----------------------------------------------------------------------------
(* The inductive invariant *)

\* The lock is held exactly by the coroutine that is inside `async with`.
Holders == \A t \in Tasks : pc[t] \in Locked <=> lock = t

Calm == Undisturbed => orphans = {}

\* Until its first command runs, the revision a call checked is the document.
Revisions ==
    Undisturbed =>
        \A c \in Calls :
            pc[c] = "sent" /\ applied[c] = 0 /\ req[c].revision # None => doc = req[c].revision

Touched(before, after) ==
    CreatedIds(before, after) \cup ModifiedIds(before, after) \cup DeletedIds(before, after)
Reported(r) == r.created \cup r.modified \cup r.deleted

\* What has changed since a call read the scene is what Rhino did for it.
Deltas ==
    Undisturbed =>
        /\ \A c \in Calls :
              pc[c] \in {"sent", "after"} => Touched(work[c].before, doc) \subseteq effects[c]
        /\ \A c \in DOMAIN result : Reported(result[c]) \subseteq effects[result[c].by]
        /\ \A k \in DOMAIN receipts : Reported(receipts[k]) \subseteq effects[receipts[k].by]

\* The scene cache is empty while a call holds the lock, and otherwise behind
\* the document only if a visit has opened another one and not reset it yet.
Opening ==
    \E v \in Visits : active = v /\ (pc[v] = "raised" \/ (pc[v] = "sent" /\ wire[v].answer = "ok"))
Fresh ==
    /\ lock \in Calls => cache = NoScene
    /\ active \in Visits => KindOf[active] = "open"
    /\ Undisturbed /\ cache.capacity >= MaxObjects => cache.scene = doc \/ Opening

LEMMA IsolationInit == Init => Holders /\ Calm /\ Revisions /\ Deltas /\ Fresh
<1> SUFFICES ASSUME Init PROVE Holders /\ Calm /\ Revisions /\ Deltas /\ Fresh
  OBVIOUS
<1>1. Holders /\ Calm /\ Revisions
  BY GatewayAssumption DEF Init, Holders, Calm, Revisions, Locked, Tasks
<1>2. Deltas
  BY DEF Init, Deltas, Empty, Tasks
<1>3. Fresh
  BY GatewayAssumption DEF Init, Fresh, NoScene, Empty, Tasks
<1> QED BY <1>1, <1>2, <1>3

----------------------------------------------------------------------------
(* The lock *)

\* A coroutine enters the lock when it is free and leaves its own lock only.
LEMMA HoldersStep ==
  ASSUME TypeInv, Holders, Next
  PROVE  Holders'
<1> USE DEF Holders, TypeInv, CallsTyped, Locked, Waiting, Ended
<1>0. None \notin Tasks /\ Calls \subseteq Tasks /\ Queries \subseteq Tasks /\ Visits \subseteq Tasks
  BY GatewayAssumption DEF Tasks
<1>1. ASSUME NEW c \in Calls, NEW a \in Arguments(c), Invoke(c, a)
      PROVE  Holders'
  <2>1. /\ pc[c] = "idle" /\ UNCHANGED lock
        /\ \E p \in {"locking", "waiting", "returned", "replayed", "conflict"} : pc' = [pc EXCEPT ![c] = p]
    BY <1>1 DEF Invoke, ReplayReceipt, JoinInflight, AnswerWithoutHost, BeginExecution, gateway
  <2> QED BY <1>0, <2>1
<1>2. ASSUME NEW c \in Calls, AcquireLock(c) \/ ResumeWaiter(c)
      PROVE  Holders'
  BY <1>0, <1>2 DEF AcquireLock, ResumeWaiter, gateway
<1>3. ASSUME NEW c \in Calls,
             \/ ReadCapabilities(c) \/ ReadBefore(c) \/ RunSentCommand(c) \/ ReceiveResult(c)
             \/ CommandFails(c) \/ AnswerIsMalformed(c) \/ LoseResponse(c)
      PROVE  Holders'
  <2>1. /\ UNCHANGED lock /\ pc[c] \in Locked
        /\ \E p \in Locked : pc' = [pc EXCEPT ![c] = p]
    <3>1. CASE ReadCapabilities(c) \/ ReadBefore(c) \/ ReceiveResult(c)
      BY <3>1 DEF ReadCapabilities, ReadBefore, ReceiveResult, Proceed, gateway
    <3>2. CASE RunSentCommand(c)
      BY <1>0, <3>2 DEF RunSentCommand, gateway
    <3>3. CASE CommandFails(c) \/ AnswerIsMalformed(c) \/ LoseResponse(c)
      BY <3>3 DEF CommandFails, AnswerIsMalformed, LoseResponse, Interrupt, gateway
    <3> QED BY <1>3, <3>1, <3>2, <3>3
  <2> QED BY <1>0, <2>1
<1>4. ASSUME NEW c \in Calls,
             \/ RefuseIncompatiblePlugin(c) \/ RefuseStaleRevision(c) \/ ReadAfter(c) \/ ReadFails(c)
             \/ CancelCall(c)
      PROVE  Holders'
  <2>1. /\ lock' = (IF lock = c THEN None ELSE lock)
        /\ \E p \in Ended : pc' = [pc EXCEPT ![c] = p]
    BY <1>0, <1>4 DEF RefuseIncompatiblePlugin, RefuseStaleRevision, ReadAfter, ReadFails, CancelCall
  <2> QED BY <1>0, <2>1
<1>5. ASSUME NEW q \in Queries, StartQuery(q) \/ QueryStep(q)
      PROVE  Holders'
  <2>1. CASE StartQuery(q) \/ AnswerFromCache(q) \/ LockForIndex(q)
    BY <1>0, <2>1 DEF StartQuery, AnswerFromCache, LockForIndex, gateway
  <2>2. CASE IndexScene(q) \/ IndexFails(q)
    BY <1>0, <2>2 DEF IndexScene, IndexFails
  <2> QED BY <1>5, <2>1, <2>2 DEF QueryStep
<1>6. ASSUME NEW v \in Visits, StartVisit(v) \/ VisitStep(v) \/ CancelVisit(v)
      PROVE  Holders'
  <2>1. CASE StartVisit(v) \/ LockForVisit(v) \/ AskRhino(v)
    BY <1>0, <2>1 DEF StartVisit, LockForVisit, AskRhino, gateway
  <2>2. CASE RunVisit(v)
    BY <2>2 DEF RunVisit, gateway
  <2>3. CASE ReceiveVisit(v) \/ CheckOpened(v) \/ VisitFails(v) \/ CancelVisit(v) \/ LoseVisit(v)
    <3>1. \/ lock' = (IF lock = v THEN None ELSE lock) /\ \E p \in Ended : pc' = [pc EXCEPT ![v] = p]
          \/ UNCHANGED lock /\ pc[v] = "sent" /\ pc' = [pc EXCEPT ![v] = "checking"]
      BY <2>3 DEF ReceiveVisit, CheckOpened, VisitFails, CancelVisit, LoseVisit, LeaveVisit
    <3> QED BY <1>0, <3>1
  <2> QED BY <1>6, <2>1, <2>2, <2>3 DEF VisitStep
<1>7. ASSUME \/ \E o \in orphans : RunOrphan(o) \/ RunOrphanVisit(o)
             \/ \E op \in {"create", "update", "delete"}, i \in Ids : EditDocument(op, i)
             \/ AllEnded
      PROVE  Holders'
  BY <1>7 DEF RunOrphan, RunOrphanVisit, EditDocument, AllEnded, vars, calls, gateway
<1> QED BY <1>1, <1>2, <1>3, <1>4, <1>5, <1>6, <1>7 DEF Next, CallStep

LEMMA CalmStep ==
  ASSUME Calm, Next
  PROVE  Calm'
<1> SUFFICES ASSUME Undisturbed, orphans = {} PROVE orphans' = {}
  BY DEF Calm
<1>1. UNCHANGED orphans
  BY DEF Next, Invoke, ReplayReceipt, JoinInflight, AnswerWithoutHost, BeginExecution,
         CallStep, ResumeWaiter, AcquireLock, ReadCapabilities, RefuseIncompatiblePlugin, ReadBefore,
         RefuseStaleRevision, RunSentCommand, ReceiveResult, CommandFails, AnswerIsMalformed,
         LoseResponse, ReadAfter, ReadFails, CancelCall, StartQuery, QueryStep, AnswerFromCache,
         LockForIndex, IndexScene, IndexFails, StartVisit, VisitStep, LockForVisit, AskRhino, RunVisit,
         ReceiveVisit, LoseVisit, CheckOpened, VisitFails, CancelVisit, EditDocument, AllEnded,
         Undisturbed, host, vars
<1> QED BY <1>1

\* Who changes the document of an undisturbed gateway: a holder of the lock.
LEMMA DocumentStep ==
  ASSUME Undisturbed, Calm, Next
  PROVE  \/ \E c \in Calls : RunSentCommand(c)
         \/ \E v \in Visits : RunVisit(v)
         \/ UNCHANGED <<doc, active, file, applied, effects>>
<1> USE DEF host, history
<1>1. ASSUME NEW c \in Calls, NEW a \in Arguments(c), Invoke(c, a)
      PROVE  UNCHANGED <<doc, active, file, applied, effects>>
  BY <1>1 DEF Invoke, ReplayReceipt, JoinInflight, AnswerWithoutHost, BeginExecution
<1>2. ASSUME NEW c \in Calls, CallStep(c) \/ CancelCall(c), ~RunSentCommand(c)
      PROVE  UNCHANGED <<doc, active, file, applied, effects>>
  BY <1>2 DEF CallStep, ResumeWaiter, AcquireLock, ReadCapabilities, RefuseIncompatiblePlugin,
       ReadBefore, RefuseStaleRevision, ReceiveResult, CommandFails, AnswerIsMalformed,
       LoseResponse, ReadAfter, ReadFails, CancelCall
<1>3. ASSUME NEW q \in Queries, StartQuery(q) \/ QueryStep(q)
      PROVE  UNCHANGED <<doc, active, file, applied, effects>>
  BY <1>3 DEF StartQuery, QueryStep, AnswerFromCache, LockForIndex, IndexScene, IndexFails
<1>4. ASSUME NEW v \in Visits, StartVisit(v) \/ VisitStep(v) \/ CancelVisit(v), ~RunVisit(v)
      PROVE  UNCHANGED <<doc, active, file, applied, effects>>
  BY <1>4 DEF StartVisit, VisitStep, LockForVisit, AskRhino, ReceiveVisit, LoseVisit, CheckOpened,
       VisitFails, CancelVisit
<1>5. ~(\E o \in orphans : RunOrphan(o) \/ RunOrphanVisit(o))
  BY DEF Calm
<1>6. ~(\E op \in {"create", "update", "delete"}, i \in Ids : EditDocument(op, i))
  BY DEF Undisturbed, EditDocument
<1>7. AllEnded => UNCHANGED <<doc, active, file, applied, effects>>
  BY DEF AllEnded, vars
<1> QED BY <1>1, <1>2, <1>3, <1>4, <1>5, <1>6, <1>7 DEF Next

\* While a coroutine holds the lock no other one is inside it.
LEMMA OneInside ==
  ASSUME Holders, NEW t \in Tasks, NEW u \in Tasks, pc[t] \in Locked, pc[u] \in Locked
  PROVE  t = u
  BY DEF Holders

\* A call that does not step keeps its locals and its answer.
LEMMA CallFrame ==
  ASSUME TypeInv, Next, NEW c \in Calls,
         ~\E a \in Arguments(c) : Invoke(c, a), ~CallStep(c), ~CancelCall(c)
  PROVE  /\ pc'[c] = pc[c] /\ req'[c] = req[c] /\ work'[c] = work[c]
         /\ c \in DOMAIN result' <=> c \in DOMAIN result
         /\ result'[c] = result[c] \/ c \notin DOMAIN result
<1> USE DEF TypeInv, CallsTyped, Put
<1>1. ASSUME NEW d \in Calls, d # c, NEW a \in Arguments(d), Invoke(d, a)
      PROVE  /\ pc'[c] = pc[c] /\ req'[c] = req[c] /\ work'[c] = work[c]
             /\ c \in DOMAIN result' <=> c \in DOMAIN result
             /\ result'[c] = result[c] \/ c \notin DOMAIN result
  BY <1>1 DEF Invoke, ReplayReceipt, JoinInflight, AnswerWithoutHost, BeginExecution, Return, gateway,
       Tasks
<1>2. ASSUME NEW d \in Calls, d # c, CallStep(d) \/ CancelCall(d)
      PROVE  /\ pc'[c] = pc[c] /\ req'[c] = req[c] /\ work'[c] = work[c]
             /\ c \in DOMAIN result' <=> c \in DOMAIN result
             /\ result'[c] = result[c] \/ c \notin DOMAIN result
  <2>0. c \in Tasks
    BY DEF Tasks
  <2>1. CASE ResumeWaiter(d)
    BY <1>2, <2>0, <2>1 DEF ResumeWaiter
  <2>2. CASE AcquireLock(d) \/ ReadCapabilities(d) \/ RunSentCommand(d)
    BY <1>2, <2>0, <2>2 DEF AcquireLock, ReadCapabilities, RunSentCommand
  <2>3. CASE ReadBefore(d) \/ ReceiveResult(d)
    BY <1>2, <2>0, <2>3 DEF ReadBefore, ReceiveResult, Proceed
  <2>4. CASE CommandFails(d) \/ AnswerIsMalformed(d) \/ LoseResponse(d)
    BY <1>2, <2>0, <2>4 DEF CommandFails, AnswerIsMalformed, LoseResponse, Interrupt
  <2>5. CASE RefuseIncompatiblePlugin(d) \/ RefuseStaleRevision(d) \/ ReadAfter(d)
    BY <1>2, <2>0, <2>5 DEF RefuseIncompatiblePlugin, RefuseStaleRevision, ReadAfter, Return, Forget
  <2>6. CASE ReadFails(d) \/ CancelCall(d)
    BY <1>2, <2>0, <2>6 DEF ReadFails, CancelCall, Abandon, Forget
  <2> QED BY <1>2, <2>1, <2>2, <2>3, <2>4, <2>5, <2>6 DEF CallStep
<1>3. ASSUME NEW q \in Queries, StartQuery(q) \/ QueryStep(q)
      PROVE  UNCHANGED <<req, work, result>> /\ pc'[c] = pc[c]
  BY <1>3, GatewayAssumption DEF StartQuery, QueryStep, AnswerFromCache, LockForIndex, IndexScene, IndexFails, Tasks
<1>4. ASSUME NEW v \in Visits, StartVisit(v) \/ VisitStep(v) \/ CancelVisit(v)
      PROVE  UNCHANGED <<req, work, result>> /\ pc'[c] = pc[c]
  BY <1>4, GatewayAssumption DEF StartVisit, VisitStep, LockForVisit, AskRhino, RunVisit, ReceiveVisit,
       LoseVisit, CheckOpened, VisitFails, CancelVisit, LeaveVisit, Tasks
<1>5. ASSUME \/ \E o \in orphans : RunOrphan(o) \/ RunOrphanVisit(o)
             \/ \E op \in {"create", "update", "delete"}, i \in Ids : EditDocument(op, i)
             \/ AllEnded
      PROVE  UNCHANGED <<req, work, result, pc>>
  BY <1>5 DEF RunOrphan, RunOrphanVisit, EditDocument, AllEnded, vars, calls
<1> QED BY <1>1, <1>2, <1>3, <1>4, <1>5 DEF Next

\* A call that waits for a command waited already, or has just read the scene.
LEMMA SentStep ==
  ASSUME TypeInv, Next, NEW c \in Calls, pc'[c] = "sent"
  PROVE  ReadBefore(c) \/ (pc[c] = "sent" /\ req'[c] = req[c])
<1> USE DEF TypeInv, CallsTyped
<1>0. c \in Tasks
  BY DEF Tasks
<1>1. ~\E a \in Arguments(c) : Invoke(c, a)
  BY <1>0 DEF Invoke, ReplayReceipt, JoinInflight, AnswerWithoutHost, BeginExecution
<1>2. ASSUME CallStep(c) \/ CancelCall(c), ~ReadBefore(c)
      PROVE  pc[c] = "sent" /\ req'[c] = req[c]
  BY <1>0, <1>2 DEF CallStep, ResumeWaiter, AcquireLock, ReadCapabilities, RefuseIncompatiblePlugin,
       RefuseStaleRevision, RunSentCommand, ReceiveResult, CommandFails, AnswerIsMalformed, LoseResponse,
       Interrupt, ReadAfter, ReadFails, CancelCall, Ended
<1> QED BY <1>1, <1>2, CallFrame

----------------------------------------------------------------------------
(* Revisions *)

LEMMA RevisionsStep ==
  ASSUME TypeInv, Holders, Calm, Revisions, Next
  PROVE  Revisions'
<1> SUFFICES ASSUME Undisturbed, NEW c \in Calls,
                    pc'[c] = "sent", applied'[c] = 0, req'[c].revision # None
             PROVE  doc' = req'[c].revision
  BY DEF Revisions, Undisturbed
<1> USE DEF TypeInv, CallsTyped
<1>0. Calls \subseteq Tasks /\ Visits \subseteq Tasks /\ "sent" \in Locked /\ Calls \cap Visits = {}
  BY GatewayAssumption DEF Tasks, Locked
<1>1. CASE \E d \in Calls : RunSentCommand(d)
  <2>1. PICK d \in Calls : RunSentCommand(d)
    BY <1>1
  <2>2. c = d
    BY <1>0, <2>1, OneInside DEF RunSentCommand
  <2>3. applied'[c] = applied[c] + 1 /\ applied[c] \in Nat
    BY <2>1, <2>2 DEF RunSentCommand, Credit, HistoryTyped
  <2> QED BY <2>3
<1>2. CASE \E v \in Visits : RunVisit(v)
  <2>1. PICK v \in Visits : RunVisit(v)
    BY <1>2
  <2>2. pc[c] = "sent"
    BY <2>1 DEF RunVisit
  <2> QED BY <1>0, <2>1, <2>2, OneInside DEF RunVisit
<1>3. CASE UNCHANGED <<doc, active, file, applied, effects>>
  <2>1. CASE pc[c] = "sent" /\ req'[c] = req[c]
    BY <1>3, <2>1 DEF Revisions
  <2>2. CASE ReadBefore(c)
    BY <1>3, <2>2 DEF ReadBefore, RevisionMatches
  <2> QED BY <2>1, <2>2, SentStep
<1> QED BY <1>1, <1>2, <1>3, DocumentStep

----------------------------------------------------------------------------
(* Deltas *)

\* Running a command touches the object it is about and no other.
LEMMA RunTouches ==
  ASSUME NEW op, NEW i, NEW before, Run(op, i)
  PROVE  Touched(before, doc') \subseteq Touched(before, doc) \cup {i}
<1>1. \A j : j # i => (j \in DOMAIN doc' <=> j \in DOMAIN doc)
  BY DEF Run, Put, Drop
<1>2. \A j : j # i /\ j \in DOMAIN doc => doc'[j] = doc[j]
  BY DEF Run, Put, Drop
<1> QED BY <1>1, <1>2 DEF Touched, CreatedIds, ModifiedIds, DeletedIds

Known(r) ==
    \/ \E c \in DOMAIN result : r = result[c]
    \/ \E k \in DOMAIN receipts : r = receipts[k]

\* Every receipt after a step was there before, reports nothing, or reports
\* what the scene read last shows.
LEMMA ReceiptStep ==
  ASSUME KeyInv, Next, NEW r, Known(r)'
  PROVE  \/ Known(r) \/ Reported(r) = {}
         \/ \E c \in Calls : pc[c] = "after" /\ r.by = c /\ Reported(r) = Touched(work[c].before, doc)
<1> USE DEF Known, Put
<1>1. CASE UNCHANGED <<receipts, result>>
  BY <1>1
<1>2. ASSUME NEW c, NEW k, NEW n, Return(c, k, n)
      PROVE  Known(r) \/ r = n
  BY <1>2 DEF Return
<1>3. ASSUME NEW c \in Calls, NEW a \in Arguments(c), Invoke(c, a)
      PROVE  Known(r) \/ Reported(r) = {}
  <2>1. CASE ReplayReceipt(c, a)
    BY <2>1 DEF ReplayReceipt, gateway
  <2>2. CASE JoinInflight(c, a) \/ BeginExecution(c, a)
    BY <1>1, <2>2 DEF JoinInflight, BeginExecution, gateway
  <2>3. CASE AnswerWithoutHost(c, a)
    BY <1>2, <2>3 DEF AnswerWithoutHost, NewReceipt, Reported
  <2> QED BY <1>3, <2>1, <2>2, <2>3 DEF Invoke
<1>4. ASSUME NEW c \in Calls, ResumeWaiter(c)
      PROVE  Known(r)
  <2>1. future[c] \in Calls /\ (pc[future[c]] = "returned" => future[c] \in DOMAIN result)
    BY <1>4 DEF ResumeWaiter, KeyInv, Waiters, Answers
  <2> QED BY <1>4, <2>1 DEF ResumeWaiter, gateway
<1>5. ASSUME NEW c \in Calls, RefuseIncompatiblePlugin(c) \/ RefuseStaleRevision(c)
      PROVE  Known(r) \/ Reported(r) = {}
  BY <1>2, <1>5 DEF RefuseIncompatiblePlugin, RefuseStaleRevision, BlockedReceipt, NewReceipt, Reported
<1>6. ASSUME NEW c \in Calls, ReadAfter(c)
      PROVE  \/ Known(r)
             \/ pc[c] = "after" /\ r.by = c /\ Reported(r) = Touched(work[c].before, doc)
  <2> DEFINE n == NewReceipt(c, req[c].payload, Verdict(c), CreatedIds(work[c].before, doc),
                             ModifiedIds(work[c].before, doc), DeletedIds(work[c].before, doc))
  <2>1. Return(c, req[c].key, n) /\ pc[c] = "after"
    BY <1>6 DEF ReadAfter
  <2>2. n.by = c /\ Reported(n) = Touched(work[c].before, doc)
    BY DEF NewReceipt, Reported, Touched
  <2> HIDE DEF n
  <2> QED BY <1>2, <2>1, <2>2
<1>7. ASSUME NEW c \in Calls,
             \/ AcquireLock(c) \/ ReadCapabilities(c) \/ ReadBefore(c) \/ RunSentCommand(c)
             \/ ReceiveResult(c) \/ CommandFails(c) \/ AnswerIsMalformed(c) \/ LoseResponse(c)
             \/ ReadFails(c) \/ CancelCall(c)
      PROVE  UNCHANGED <<receipts, result>>
  BY <1>7 DEF AcquireLock, ReadCapabilities, ReadBefore, RunSentCommand, ReceiveResult, CommandFails,
       AnswerIsMalformed, LoseResponse, ReadFails, CancelCall, Abandon, gateway
<1>8. ASSUME NEW q \in Queries, StartQuery(q) \/ QueryStep(q)
      PROVE  UNCHANGED <<receipts, result>>
  BY <1>8 DEF StartQuery, QueryStep, AnswerFromCache, LockForIndex, IndexScene, IndexFails, gateway
<1>9. ASSUME NEW v \in Visits, StartVisit(v) \/ VisitStep(v) \/ CancelVisit(v)
      PROVE  UNCHANGED <<receipts, result>>
  BY <1>9, VisitStepFrame
<1>10. ASSUME \/ \E o \in orphans : RunOrphan(o) \/ RunOrphanVisit(o)
              \/ \E op \in {"create", "update", "delete"}, i \in Ids : EditDocument(op, i)
              \/ AllEnded
      PROVE  UNCHANGED <<receipts, result>>
  BY <1>10 DEF RunOrphan, RunOrphanVisit, EditDocument, AllEnded, vars, calls, gateway
<1> QED BY <1>1, <1>3, <1>4, <1>5, <1>6, <1>7, <1>8, <1>9, <1>10 DEF Next, CallStep

\* No effect is ever taken back.
LEMMA EffectsGrow ==
  ASSUME TypeInv, Next, NEW c \in Calls
  PROVE  effects[c] \subseteq effects'[c]
<1> USE DEF TypeInv, HistoryTyped
<1>1. CASE UNCHANGED effects
  BY <1>1
<1>2. ASSUME NEW d \in Calls, NEW i, Credit(d, i)
      PROVE  effects[c] \subseteq effects'[c]
  BY <1>2 DEF Credit
<1>3. CASE (\E d \in Calls : RunSentCommand(d)) \/ (\E o \in orphans : RunOrphan(o))
  BY <1>2, <1>3 DEF RunSentCommand, RunOrphan
<1>4. CASE ~((\E d \in Calls : RunSentCommand(d)) \/ (\E o \in orphans : RunOrphan(o)))
  <2>1. UNCHANGED history
    <3>1. ASSUME NEW d \in Calls, NEW a \in Arguments(d), Invoke(d, a)
          PROVE  UNCHANGED history
      BY <3>1 DEF Invoke, ReplayReceipt, JoinInflight, AnswerWithoutHost, BeginExecution
    <3>2. ASSUME NEW d \in Calls, CallStep(d) \/ CancelCall(d)
          PROVE  UNCHANGED history
      BY <1>4, <3>2 DEF CallStep, ResumeWaiter, AcquireLock, ReadCapabilities,
           RefuseIncompatiblePlugin, ReadBefore, RefuseStaleRevision, ReceiveResult, CommandFails,
           AnswerIsMalformed, LoseResponse, ReadAfter, ReadFails, CancelCall
    <3>3. ASSUME NEW q \in Queries, StartQuery(q) \/ QueryStep(q)
          PROVE  UNCHANGED history
      BY <3>3 DEF StartQuery, QueryStep, AnswerFromCache, LockForIndex, IndexScene, IndexFails
    <3>4. ASSUME NEW v \in Visits, StartVisit(v) \/ VisitStep(v) \/ CancelVisit(v)
          PROVE  UNCHANGED history
      BY <3>4 DEF StartVisit, VisitStep, LockForVisit, AskRhino, RunVisit, ReceiveVisit, LoseVisit,
           CheckOpened, VisitFails, CancelVisit
    <3>5. ASSUME \/ \E o \in orphans : RunOrphanVisit(o)
                 \/ \E op \in {"create", "update", "delete"}, i \in Ids : EditDocument(op, i)
                 \/ AllEnded
          PROVE  UNCHANGED history
      BY <3>5 DEF RunOrphanVisit, EditDocument, AllEnded, vars
    <3> QED BY <1>4, <3>1, <3>2, <3>3, <3>4, <3>5 DEF Next
  <2> QED BY <2>1, <1>1 DEF history
<1> QED BY <1>3, <1>4

\* `before` is read once and kept.
LEMMA BeforeStep ==
  ASSUME TypeInv, Next, NEW c \in Calls, pc'[c] \in {"sent", "after"}
  PROVE  \/ ReadBefore(c) /\ work'[c].before = doc
         \/ pc[c] \in {"sent", "after"} /\ work'[c].before = work[c].before
<1> USE DEF TypeInv, CallsTyped
<1>0. c \in Tasks /\ IsLocals(work[c])
  BY DEF Tasks
<1>1. ASSUME NEW l, IsLocals(l), NEW x
      PROVE  [l EXCEPT !.trouble = x].before = l.before
  <2>1. DOMAIN l = {"before", "aliases", "done", "edited", "removed", "trouble"}
    BY <1>1 DEF IsLocals, Blank
  <2> QED BY <2>1
<1>2. ASSUME NEW l, IsLocals(l), Proceed(c, l)
      PROVE  work'[c].before = l.before
  <2>1. work' = [work EXCEPT ![c] = l] \/ work' = [work EXCEPT ![c] = [l EXCEPT !.trouble = "failed"]]
    BY <1>2 DEF Proceed
  <2>2. [l EXCEPT !.trouble = "failed"].before = l.before
    BY <1>1, <1>2
  <2> QED BY <2>1, <2>2
<1>3. CASE ReadBefore(c)
  <2>1. IsLocals([Blank EXCEPT !.before = doc]) /\ [Blank EXCEPT !.before = doc].before = doc
    BY DEF IsLocals, Blank, HostTyped
  <2> QED BY <1>2, <1>3, <2>1 DEF ReadBefore
<1>4. CASE ReceiveResult(c)
  <2>1. IsLocals(Learnt(c)) /\ Learnt(c).before = work[c].before
    BY <1>0 DEF Learnt, IsLocals, Blank
  <2> QED BY <1>2, <1>4, <2>1 DEF ReceiveResult
<1>5. CASE CommandFails(c) \/ AnswerIsMalformed(c) \/ LoseResponse(c)
  <2>1. pc[c] = "sent" /\ \E x : work'[c] = [work[c] EXCEPT !.trouble = x]
    BY <1>5 DEF CommandFails, AnswerIsMalformed, LoseResponse, Interrupt
  <2> QED BY <1>0, <1>1, <2>1
<1>6. CASE RunSentCommand(c)
  BY <1>6 DEF RunSentCommand
<1>7. CASE \/ ResumeWaiter(c) \/ AcquireLock(c) \/ ReadCapabilities(c) \/ RefuseIncompatiblePlugin(c)
           \/ RefuseStaleRevision(c) \/ ReadAfter(c) \/ ReadFails(c) \/ CancelCall(c)
  BY <1>0, <1>7 DEF ResumeWaiter, AcquireLock, ReadCapabilities, RefuseIncompatiblePlugin,
       RefuseStaleRevision, ReadAfter, ReadFails, CancelCall, Ended
<1>8. ~\E a \in Arguments(c) : Invoke(c, a)
  BY <1>0 DEF Invoke, ReplayReceipt, JoinInflight, AnswerWithoutHost, BeginExecution
<1> QED BY <1>3, <1>4, <1>5, <1>6, <1>7, <1>8, CallFrame DEF CallStep

LEMMA DeltasStep ==
  ASSUME TypeInv, KeyInv, Holders, Calm, Deltas, Next
  PROVE  Deltas'
<1> SUFFICES ASSUME Undisturbed
             PROVE  /\ \A c \in Calls : pc'[c] \in {"sent", "after"} =>
                          Touched(work'[c].before, doc') \subseteq effects'[c]
                    /\ \A r : Known(r)' => Reported(r) \subseteq effects'[r.by]
  BY DEF Deltas, Undisturbed, Known
<1>0. Calls \subseteq Tasks /\ Visits \subseteq Tasks /\ Calls \cap Visits = {}
  BY GatewayAssumption DEF Tasks
<1>1. ASSUME NEW c \in Calls, pc'[c] \in {"sent", "after"}
      PROVE  Touched(work'[c].before, doc') \subseteq effects'[c]
  <2>1. CASE ReadBefore(c) /\ work'[c].before = doc
    BY <2>1 DEF ReadBefore, host, Touched, CreatedIds, ModifiedIds, DeletedIds
  <2>2. CASE pc[c] \in {"sent", "after"} /\ work'[c].before = work[c].before
    <3>1. Touched(work[c].before, doc) \subseteq effects[c] /\ pc[c] \in Locked
      BY <2>2 DEF Deltas, Locked
    <3>2. CASE \E d \in Calls : RunSentCommand(d)
      <4>1. PICK d \in Calls : RunSentCommand(d)
        BY <3>2
      <4>2. c = d
        BY <1>0, <3>1, <4>1, OneInside DEF RunSentCommand, Locked
      <4>3. PICK i \in Ids : Run(wire[c].op, i) /\ Credit(c, i)
        BY <4>1, <4>2 DEF RunSentCommand
      <4>4. effects'[c] = effects[c] \cup {i}
        BY <4>3 DEF Credit, TypeInv, HistoryTyped
      <4> QED BY <2>2, <3>1, <4>3, <4>4, RunTouches
    <3>3. CASE \E v \in Visits : RunVisit(v)
      BY <1>0, <3>1, <3>3, OneInside DEF RunVisit, Locked
    <3>4. CASE UNCHANGED <<doc, active, file, applied, effects>>
      BY <2>2, <3>1, <3>4
    <3> QED BY <3>2, <3>3, <3>4, DocumentStep
  <2> QED BY <1>1, <2>1, <2>2, BeforeStep
<1>2. ASSUME NEW r, Known(r)'
      PROVE  Reported(r) \subseteq effects'[r.by]
  <2>1. CASE Known(r)
    <3>1. r.by \in Calls
      BY <2>1 DEF Known, TypeInv, TablesTyped, Receipt
    <3>2. Reported(r) \subseteq effects[r.by]
      BY <2>1 DEF Known, Deltas
    <3> QED BY <3>1, <3>2, EffectsGrow
  <2>2. CASE Reported(r) = {}
    BY <2>2
  <2>3. ASSUME NEW c \in Calls, pc[c] = "after", r.by = c, Reported(r) = Touched(work[c].before, doc)
        PROVE  Reported(r) \subseteq effects'[r.by]
    BY <2>3, EffectsGrow DEF Deltas
  <2> QED BY <1>2, <2>1, <2>2, <2>3, ReceiptStep
<1> QED BY <1>1, <1>2

----------------------------------------------------------------------------
(* The scene cache *)

\* The steps that touch neither the cache nor what it is compared with.
LEMMA FreshFrame ==
  ASSUME TypeInv, Fresh, UNCHANGED <<cache, doc, active>>,
         lock' \in Calls => lock \in Calls,
         \A v \in Visits : \/ pc'[v] = pc[v] /\ (pc[v] = "sent" => wire'[v] = wire[v])
                           \/ pc[v] # "raised" /\ ~(pc[v] = "sent" /\ wire[v].answer = "ok")
                           \/ pc'[v] = "raised"
                           \/ active # v
  PROVE  Fresh'
  BY DEF Fresh, Opening, Undisturbed

\* A scene just read, or none, is never behind.
LEMMA FreshRead ==
  ASSUME Fresh, UNCHANGED active, doc' = doc,
         \/ cache'.scene = doc /\ lock' \notin Calls
         \/ cache' = NoScene
  PROVE  Fresh'
<1>1. NoScene.capacity < MaxObjects
  BY GatewayAssumption DEF NoScene
<1> QED BY <1>1, GatewayAssumption DEF Fresh, Undisturbed, NoScene

LEMMA FreshStep ==
  ASSUME TypeInv, Holders, Calm, Fresh, Next
  PROVE  Fresh'
<1> USE DEF TypeInv, CallsTyped
<1>0. /\ Calls \subseteq Tasks /\ Queries \subseteq Tasks /\ Visits \subseteq Tasks
      /\ Calls \cap Visits = {} /\ Calls \cap Queries = {} /\ Queries \cap Visits = {}
      /\ None \notin Calls
  BY GatewayAssumption DEF Tasks
<1>1. ASSUME NEW c \in Calls, AcquireLock(c) \/ ReadAfter(c)
      PROVE  Fresh'
  BY <1>0, <1>1, FreshRead DEF AcquireLock, ReadAfter, host
<1>2. ASSUME NEW c \in Calls, RunSentCommand(c)
      PROVE  Fresh'
  <2>1. lock = c /\ UNCHANGED <<cache, lock, active>>
    BY <1>0, <1>2 DEF RunSentCommand, Holders, Locked, gateway
  <2>2. cache'.capacity < MaxObjects
    BY <2>1, GatewayAssumption DEF Fresh, NoScene
  <2> QED BY <2>1, <2>2, GatewayAssumption DEF Fresh, NoScene
<1>3. ASSUME NEW c \in Calls, NEW a \in Arguments(c), Invoke(c, a)
      PROVE  Fresh'
  <2>1. UNCHANGED <<cache, doc, active, lock, wire>> /\ \A v \in Visits : pc'[v] = pc[v]
    BY <1>0, <1>3 DEF Invoke, ReplayReceipt, JoinInflight, AnswerWithoutHost, BeginExecution, gateway, host
  <2> QED BY <2>1, FreshFrame
<1>4. ASSUME NEW c \in Calls, CallStep(c) \/ CancelCall(c),
             ~AcquireLock(c), ~ReadAfter(c), ~RunSentCommand(c)
      PROVE  Fresh'
  <2>1. /\ UNCHANGED <<cache, doc, active>> /\ lock' \in {lock, None}
        /\ \A v \in Visits : pc'[v] = pc[v] /\ (pc[v] = "sent" => wire'[v] = wire[v])
    <3>1. CASE ReadBefore(c) \/ ReceiveResult(c)
      <4>1. \A v \in Visits : pc'[v] = pc[v]
        BY <1>0, <3>1 DEF ReadBefore, ReceiveResult, Proceed
      <4>2. \A v \in Visits : v \in DOMAIN wire => wire'[v] = wire[v]
        BY <1>0, <3>1 DEF ReadBefore, ReceiveResult, Proceed, Put, Drop
      <4> QED BY <1>0, <3>1, <4>1, <4>2 DEF ReadBefore, ReceiveResult, WorkersTyped, host, gateway
    <3>2. CASE CommandFails(c) \/ AnswerIsMalformed(c) \/ LoseResponse(c) \/ CancelCall(c)
      <4>1. \A v \in Visits : pc'[v] = pc[v]
        BY <1>0, <3>2 DEF CommandFails, AnswerIsMalformed, LoseResponse, Interrupt, CancelCall
      <4>2. \A v \in Visits : v \in DOMAIN wire => wire'[v] = wire[v]
        BY <1>0, <3>2 DEF CommandFails, AnswerIsMalformed, LoseResponse, CancelCall, StopWaiting, Drop
      <4> QED BY <1>0, <3>2, <4>1, <4>2 DEF CommandFails, AnswerIsMalformed, LoseResponse, CancelCall,
               WorkersTyped, host, gateway
    <3>3. CASE \/ ResumeWaiter(c) \/ ReadCapabilities(c) \/ RefuseIncompatiblePlugin(c)
               \/ RefuseStaleRevision(c) \/ ReadFails(c)
      BY <1>0, <3>3 DEF ResumeWaiter, ReadCapabilities, RefuseIncompatiblePlugin, RefuseStaleRevision,
           ReadFails, host, gateway
    <3> QED BY <1>4, <3>1, <3>2, <3>3 DEF CallStep
  <2> QED BY <1>0, <2>1, FreshFrame
<1>5. ASSUME NEW q \in Queries, StartQuery(q) \/ QueryStep(q)
      PROVE  Fresh'
  <2>1. CASE IndexScene(q)
    BY <1>0, <2>1, FreshRead DEF IndexScene, host
  <2>2. CASE ~IndexScene(q)
    <3>1. /\ UNCHANGED <<cache, doc, active, wire>> /\ (lock' \in Calls => lock \in Calls)
          /\ \A v \in Visits : pc'[v] = pc[v]
      BY <1>0, <1>5, <2>2 DEF StartQuery, QueryStep, AnswerFromCache, LockForIndex, IndexFails, gateway,
           host
    <3> QED BY <3>1, FreshFrame
  <2> QED BY <2>1, <2>2
<1>6. ASSUME NEW v \in Visits, StartVisit(v) \/ VisitStep(v) \/ CancelVisit(v)
      PROVE  Fresh'
  <2>0. \A u \in Visits : pc[u] = "sent" => u \in DOMAIN wire
    BY <1>0 DEF WorkersTyped
  <2>1. CASE StartVisit(v) \/ LockForVisit(v)
    <3>1. /\ UNCHANGED <<cache, doc, active, wire>> /\ (lock' \in Calls => lock \in Calls)
          /\ \A u \in Visits : u # v => pc'[u] = pc[u]
          /\ pc[v] \in {"idle", "locking"}
      BY <1>0, <2>1 DEF StartVisit, LockForVisit, gateway, host
    <3> QED BY <3>1, FreshFrame
  <2>2. CASE AskRhino(v)
    <3>1. /\ UNCHANGED <<cache, doc, active, lock>>
          /\ \A u \in Visits : u # v => pc'[u] = pc[u] /\ (pc[u] = "sent" => wire'[u] = wire[u])
          /\ pc[v] = "capabilities"
      BY <1>0, <2>0, <2>2 DEF AskRhino, Put, gateway, host
    <3> QED BY <3>1, FreshFrame
  <2>3. CASE RunVisit(v) /\ KindOf[v] # "open"
    <3>1. /\ UNCHANGED <<cache, doc, active, lock, pc>> /\ wire[v].answer = "none"
          /\ \A u \in Visits : u # v => wire'[u] = wire[u]
      BY <2>3 DEF RunVisit, Perform, gateway
    <3> QED BY <3>1, FreshFrame
  <2>4. CASE RunVisit(v) /\ KindOf[v] = "open"
    <3>1. v \in DOMAIN wire /\ wire[v] \in Written
      BY <1>0, <2>0, <2>4 DEF RunVisit, WorkersTyped
    <3>2. wire'[v].answer = "ok"
      BY <2>4, <3>1 DEF RunVisit, Written
    <3>3. active' = v /\ pc'[v] = "sent" /\ lock' = v
      BY <1>0, <2>4 DEF RunVisit, Perform, Holders, Locked, gateway
    <3> QED BY <1>0, <2>4, <3>2, <3>3 DEF Fresh, Opening
  <2>5. CASE ReceiveVisit(v)
    <3>1. CASE KindOf[v] = "open"
      BY <2>5, <3>1, FreshRead DEF ReceiveVisit, host
    <3>2. CASE KindOf[v] # "open"
      <4>1. /\ UNCHANGED <<cache, doc, active>> /\ lock' \in {lock, None} /\ active # v
            /\ \A u \in Visits : u # v => pc'[u] = pc[u] /\ (pc[u] = "sent" => wire'[u] = wire[u])
        BY <1>0, <2>0, <2>5, <3>2 DEF ReceiveVisit, LeaveVisit, Drop, host, Fresh
      <4> QED BY <1>0, <4>1, FreshFrame
    <3> QED BY <3>1, <3>2
  <2>6. CASE CheckOpened(v)
    <3>1. CASE active = v
      BY <2>6, <3>1, FreshRead DEF CheckOpened, host
    <3>2. CASE active # v
      <4>1. /\ UNCHANGED <<cache, doc, active, wire>> /\ lock' \in {lock, None}
            /\ \A u \in Visits : u # v => pc'[u] = pc[u]
        BY <1>0, <2>6, <3>2 DEF CheckOpened, LeaveVisit, host
      <4> QED BY <1>0, <3>2, <4>1, FreshFrame
    <3> QED BY <3>1, <3>2
  <2>7. CASE VisitFails(v)
    <3>1. /\ UNCHANGED <<cache, doc, active>> /\ lock' \in {lock, None} /\ pc'[v] = "raised"
          /\ \A u \in Visits : u # v => pc'[u] = pc[u] /\ (pc[u] = "sent" => wire'[u] = wire[u])
      BY <1>0, <2>0, <2>7 DEF VisitFails, LeaveVisit, Drop, host
    <3> QED BY <1>0, <3>1, FreshFrame
  <2>8. CASE LoseVisit(v) \/ CancelVisit(v)
    <3>1. /\ UNCHANGED <<cache, active>> /\ lock' \in {lock, None} /\ ~Undisturbed
      BY <2>8 DEF LoseVisit, CancelVisit, LeaveVisit, Undisturbed
    <3> QED BY <1>0, <3>1 DEF Fresh, Undisturbed
  <2> QED BY <1>6, <2>1, <2>2, <2>3, <2>4, <2>5, <2>6, <2>7, <2>8 DEF VisitStep
<1>7. ASSUME NEW o \in orphans, RunOrphan(o) \/ RunOrphanVisit(o)
      PROVE  Fresh'
  <2>1. ~Undisturbed /\ UNCHANGED <<cache, lock>>
    BY <1>7 DEF Calm, RunOrphan, RunOrphanVisit, gateway
  <2>2. active' \in Visits => KindOf[active'] = "open"
    BY <1>7 DEF RunOrphan, RunOrphanVisit, Perform, Fresh
  <2> QED BY <2>1, <2>2 DEF Fresh, Undisturbed
<1>8. ASSUME NEW op \in {"create", "update", "delete"}, NEW i \in Ids, EditDocument(op, i)
      PROVE  Fresh'
  BY <1>8 DEF EditDocument, Fresh, Undisturbed, gateway
<1>9. CASE AllEnded
  BY <1>9, FreshFrame DEF AllEnded, vars, host, gateway, calls
<1> QED BY <1>1, <1>2, <1>3, <1>4, <1>5, <1>6, <1>7, <1>8, <1>9 DEF Next, CallStep

----------------------------------------------------------------------------
(* What a status says about the commands Rhino ran *)

\* Writes of a call that nobody waits for any more.
Mine(c) == {o \in orphans : o.by = c}

Untouched == {"idle", "waiting", "locking", "capabilities", "before", "replayed", "conflict"}
Finishing == {"after", "returned", "raised", "cancelled"}

\* How many commands of a call Rhino has run, at each place of the call.
Progress(c) ==
    /\ work[c].trouble \in {"none", "failed", "ambiguous"}
    /\ pc[c] \notin {"indexing", "checking"}
    /\ pc[c] \in Untouched => applied[c] = 0 /\ work[c].done = 0 /\ Mine(c) = {}
    /\ pc[c] = "sent" =>
          /\ Mine(c) = {} /\ work[c].trouble = "none"
          /\ applied[c] = IF wire[c].answer = "ok" THEN work[c].done + 1 ELSE work[c].done
    /\ pc[c] \in Finishing =>
          /\ applied[c] \in {work[c].done, work[c].done + 1}
          /\ Mine(c) = {} \/ (applied[c] = work[c].done /\ \E o : Mine(c) = {o})
    /\ pc[c] = "after" =>
          /\ work[c].trouble = "none" => Mine(c) = {} /\ applied[c] = work[c].done
                                         /\ work[c].done = Len(Script(c))
          /\ work[c].trouble = "failed" =>
                Mine(c) = {} /\ ("malformed" \notin Faults => applied[c] = work[c].done)
    /\ pc[c] = "returned" =>
          /\ result[c].status \in {"validated", "blocked"} => applied[c] = 0 /\ Mine(c) = {}
          /\ result[c].status = "completed" => applied[c] = Len(Script(c)) /\ Mine(c) = {}
          /\ result[c].status = "failed" =>
                Mine(c) = {} /\ ("malformed" \notin Faults => applied[c] = work[c].done)

StatusInv == \A c \in Calls : Progress(c)

\* A step that leaves a call alone.
LEMMA ProgressFrame ==
  ASSUME NEW c \in Calls, Progress(c), pc'[c] = pc[c], req'[c] = req[c], work'[c] = work[c],
         applied'[c] = applied[c], Mine(c)' = Mine(c), pc[c] = "sent" => wire'[c] = wire[c],
         pc[c] = "returned" => result'[c] = result[c]
  PROVE  Progress(c)'
  BY DEF Progress, Script

\* Nobody but the call itself and its orphans changes what Rhino has run for it.
LEMMA HistoryFrame ==
  ASSUME TypeInv, Next, NEW c \in Calls,
         ~\E a \in Arguments(c) : Invoke(c, a), ~CallStep(c), ~CancelCall(c),
         ~\E o \in orphans : o.by = c /\ RunOrphan(o)
  PROVE  /\ applied'[c] = applied[c] /\ Mine(c)' = Mine(c)
         /\ pc[c] = "sent" => wire'[c] = wire[c]
<1> USE DEF TypeInv, CallsTyped, WorkersTyped, HistoryTyped
<1> DEFINE Same == /\ applied'[c] = applied[c] /\ Mine(c)' = Mine(c)
                   /\ pc[c] = "sent" => wire'[c] = wire[c]
<1>0. c \in Tasks /\ Calls \cap Visits = {} /\ (pc[c] = "sent" => c \in DOMAIN wire)
  BY GatewayAssumption DEF Tasks
<1>1. ASSUME NEW d \in Calls, NEW a \in Arguments(d), Invoke(d, a)
      PROVE  Same
  BY <1>1 DEF Invoke, ReplayReceipt, JoinInflight, AnswerWithoutHost, BeginExecution, Mine, host, history
<1>2. ASSUME NEW d \in Calls, d # c, CallStep(d) \/ CancelCall(d)
      PROVE  Same
  <2>1. CASE ResumeWaiter(d) \/ AcquireLock(d) \/ ReadCapabilities(d) \/ RefuseIncompatiblePlugin(d)
             \/ RefuseStaleRevision(d) \/ ReadAfter(d) \/ ReadFails(d)
    BY <2>1 DEF ResumeWaiter, AcquireLock, ReadCapabilities, RefuseIncompatiblePlugin, RefuseStaleRevision,
         ReadAfter, ReadFails, Mine, host, history
  <2>2. CASE ReadBefore(d) \/ ReceiveResult(d)
    BY <1>0, <1>2, <2>2 DEF ReadBefore, ReceiveResult, Proceed, Put, Drop, Mine, host, history
  <2>3. CASE CommandFails(d) \/ AnswerIsMalformed(d)
    BY <1>0, <1>2, <2>3 DEF CommandFails, AnswerIsMalformed, Drop, Mine, host, history
  <2>4. CASE RunSentCommand(d)
    BY <1>0, <1>2, <2>4 DEF RunSentCommand, Credit, Mine
  <2>5. CASE LoseResponse(d) \/ CancelCall(d)
    BY <1>0, <1>2, <2>5 DEF LoseResponse, CancelCall, StopWaiting, Drop, Mine, history
  <2> QED BY <1>2, <2>1, <2>2, <2>3, <2>4, <2>5 DEF CallStep
<1>3. ASSUME NEW q \in Queries, StartQuery(q) \/ QueryStep(q)
      PROVE  Same
  BY <1>3 DEF StartQuery, QueryStep, AnswerFromCache, LockForIndex, IndexScene, IndexFails, Mine, host, history
<1>4. ASSUME NEW v \in Visits, StartVisit(v) \/ VisitStep(v) \/ CancelVisit(v)
      PROVE  Same
  <2>0. v # c
    BY <1>0
  <2>1. CASE StartVisit(v) \/ LockForVisit(v) \/ CheckOpened(v)
    BY <2>1 DEF StartVisit, LockForVisit, CheckOpened, Mine, host, history
  <2>2. CASE AskRhino(v) \/ ReceiveVisit(v) \/ VisitFails(v)
    BY <1>0, <2>0, <2>2 DEF AskRhino, ReceiveVisit, VisitFails, Put, Drop, Mine, host, history
  <2>3. CASE RunVisit(v)
    BY <1>0, <2>0, <2>3 DEF RunVisit, Mine, history
  <2>4. CASE LoseVisit(v) \/ CancelVisit(v)
    BY <1>0, <2>0, <2>4 DEF LoseVisit, CancelVisit, StopWaiting, Drop, Mine, history
  <2> QED BY <1>4, <2>1, <2>2, <2>3, <2>4 DEF VisitStep
<1>5. ASSUME NEW o \in orphans, RunOrphan(o), o.by # c
      PROVE  Same
  BY <1>5 DEF RunOrphan, Credit, Mine, calls
<1>6. ASSUME NEW o \in orphans, RunOrphanVisit(o)
      PROVE  Same
  BY <1>0, <1>6 DEF RunOrphanVisit, Mine, calls, history
<1>7. CASE \/ \E op \in {"create", "update", "delete"}, i \in Ids : EditDocument(op, i)
           \/ AllEnded
  BY <1>7 DEF EditDocument, AllEnded, vars, host, calls, history, Mine
<1> QED BY <1>1, <1>2, <1>3, <1>4, <1>5, <1>6, <1>7 DEF Next

\* A call begins with nothing run, or is answered at once.
LEMMA InvokeProgress ==
  ASSUME TypeInv, NEW c \in Calls, Progress(c), NEW a \in Arguments(c), Invoke(c, a)
  PROVE  Progress(c)'
<1> USE DEF TypeInv, CallsTyped
<1>1. /\ pc[c] = "idle" /\ UNCHANGED <<work, applied, orphans>> /\ c \in Tasks
      /\ Mine(c)' = Mine(c)
  BY DEF Invoke, ReplayReceipt, JoinInflight, AnswerWithoutHost, BeginExecution, Mine, host, history, Tasks
<1>2. \/ pc'[c] \in Untouched
      \/ pc'[c] = "returned" /\ result'[c].status \in {"blocked", "validated"}
  BY <1>1 DEF Invoke, ReplayReceipt, JoinInflight, AnswerWithoutHost, BeginExecution, Untouched, Return, Put,
       NewReceipt
<1> QED BY <1>1, <1>2 DEF Progress, Untouched, Finishing

\* Steps of a call that has run nothing yet.
LEMMA EarlyProgress ==
  ASSUME TypeInv, NEW c \in Calls, Progress(c),
         \/ ResumeWaiter(c) \/ AcquireLock(c) \/ ReadCapabilities(c)
         \/ RefuseIncompatiblePlugin(c) \/ RefuseStaleRevision(c)
  PROVE  Progress(c)'
<1> USE DEF TypeInv, CallsTyped
<1>1. /\ pc[c] \in Untouched /\ UNCHANGED <<work, applied, orphans>> /\ c \in Tasks
      /\ Mine(c)' = Mine(c)
  BY DEF ResumeWaiter, AcquireLock, ReadCapabilities, RefuseIncompatiblePlugin, RefuseStaleRevision,
       Untouched, Mine, host, history, Tasks
<1>2. \/ pc'[c] \in Untouched \cup {"raised", "cancelled"}
      \/ pc'[c] = "returned" /\ result'[c].status = "blocked"
  BY <1>1 DEF ResumeWaiter, AcquireLock, ReadCapabilities, RefuseIncompatiblePlugin, RefuseStaleRevision,
       Untouched, Ended, Return, Put, BlockedReceipt, NewReceipt
<1> QED BY <1>1, <1>2 DEF Progress, Untouched, Finishing

\* Proceed after as many commands as Rhino has run.
LEMMA ProceedProgress ==
  ASSUME TypeInv, NEW c \in Calls, NEW locals, Proceed(c, locals), IsLocals(locals),
         locals.trouble = "none", applied[c] = locals.done, Mine(c) = {},
         UNCHANGED <<orphans, applied, req>>
  PROVE  Progress(c)'
<1> USE DEF TypeInv, CallsTyped
<1>0. c \in Tasks /\ Mine(c)' = {} /\ applied'[c] = locals.done /\ Script(c)' = Script(c)
  BY DEF Tasks, Mine, Script
<1>1. CASE locals.done = Len(Script(c))
  BY <1>0, <1>1 DEF Proceed, Progress, Untouched, Finishing
<1>2. CASE /\ locals.done # Len(Script(c))
           /\ Resolvable(Script(c)[locals.done + 1].target, locals.aliases)
  <2>1. /\ pc'[c] = "sent" /\ work'[c] = locals /\ wire'[c].answer = "none"
    BY <1>0, <1>2 DEF Proceed, Put
  <2> QED BY <1>0, <2>1 DEF Progress, Untouched, Finishing
<1>3. CASE /\ locals.done # Len(Script(c))
           /\ ~Resolvable(Script(c)[locals.done + 1].target, locals.aliases)
  <2>1. pc'[c] = "after" /\ work'[c] = [locals EXCEPT !.trouble = "failed"]
    BY <1>0, <1>3 DEF Proceed
  <2>2. work'[c].trouble = "failed" /\ work'[c].done = locals.done
    BY <2>1 DEF IsLocals, Blank
  <2> QED BY <1>0, <2>1, <2>2 DEF Progress, Untouched, Finishing
<1> QED BY <1>1, <1>2, <1>3

\* A caller that stops waiting leaves at most the write it waited for.
LEMMA LoneOrphan ==
  ASSUME NEW c \in Calls, StopWaiting(c), Mine(c) = {}, c \in DOMAIN wire
  PROVE  IF wire[c].answer = "none" THEN \E o : Mine(c)' = {o} ELSE Mine(c)' = {}
<1> DEFINE left == [by |-> c, op |-> wire[c].op, target |-> wire[c].target]
<1>1. CASE wire[c].answer = "none"
  <2>1. orphans' = orphans \cup {left} /\ left.by = c
    BY <1>1 DEF StopWaiting
  <2> HIDE DEF left
  <2>2. Mine(c)' = {left}
    BY <2>1 DEF Mine
  <2> QED BY <1>1, <2>2
<1>2. CASE wire[c].answer # "none"
  BY <1>2 DEF StopWaiting, Mine
<1> QED BY <1>1, <1>2

\* Commands are sent, run, answered or lost.
LEMMA CommandProgress ==
  ASSUME TypeInv, NEW c \in Calls, Progress(c),
         \/ ReadBefore(c) \/ RunSentCommand(c) \/ ReceiveResult(c)
         \/ CommandFails(c) \/ AnswerIsMalformed(c) \/ LoseResponse(c)
  PROVE  Progress(c)'
<1> USE DEF TypeInv, CallsTyped, WorkersTyped, HistoryTyped
<1>0. c \in Tasks /\ applied[c] \in Nat /\ IsLocals(work[c]) /\ work[c].done \in Nat
      /\ (pc[c] = "sent" => c \in DOMAIN wire /\ wire[c] \in Written)
  BY DEF Tasks, IsLocals
<1>1. CASE ReadBefore(c)
  <2> DEFINE locals == [Blank EXCEPT !.before = doc]
  <2>1. IsLocals(locals) /\ locals.trouble = "none" /\ locals.done = 0
    BY DEF IsLocals, Blank, HostTyped
  <2>2. Proceed(c, locals) /\ UNCHANGED <<orphans, applied, req>> /\ applied[c] = 0 /\ Mine(c) = {}
    BY <1>1 DEF ReadBefore, Progress, Untouched, host, history
  <2> HIDE DEF locals
  <2> QED BY <2>1, <2>2, ProceedProgress
<1>2. CASE ReceiveResult(c)
  <2> DEFINE locals == Learnt(c)
  <2>1. IsLocals(locals) /\ locals.trouble = work[c].trouble /\ locals.done = work[c].done + 1
    BY <1>0 DEF IsLocals, Blank, Learnt
  <2>2. /\ Proceed(c, locals) /\ UNCHANGED <<orphans, applied, req>>
        /\ applied[c] = work[c].done + 1 /\ Mine(c) = {} /\ work[c].trouble = "none"
    BY <1>2 DEF ReceiveResult, Progress, host, history
  <2> HIDE DEF locals
  <2> QED BY <2>1, <2>2, ProceedProgress
<1>3. CASE RunSentCommand(c)
  <2>1. /\ pc[c] = "sent" /\ pc' = pc /\ work' = work /\ req' = req /\ orphans' = orphans
        /\ applied'[c] = applied[c] + 1 /\ wire[c].answer = "none"
        /\ \E i : wire' = [wire EXCEPT ![c].answer = "ok", ![c].id = i]
    BY <1>0, <1>3 DEF RunSentCommand, Credit
  <2>2. wire'[c].answer = "ok"
    BY <1>0, <2>1 DEF Written
  <2>3. Mine(c)' = Mine(c)
    BY <2>1 DEF Mine
  <2> QED BY <1>0, <2>1, <2>2, <2>3 DEF Progress, Untouched, Finishing
<1>4. CASE CommandFails(c) \/ AnswerIsMalformed(c)
  <2>1. /\ pc[c] = "sent" /\ pc'[c] = "after" /\ work' = [work EXCEPT ![c].trouble = "failed"]
        /\ UNCHANGED <<orphans, applied>>
        /\ wire[c].answer = "none" \/ "malformed" \in Faults
    BY <1>0, <1>4 DEF CommandFails, AnswerIsMalformed, Interrupt, host, history
  <2>2. work'[c].trouble = "failed" /\ work'[c].done = work[c].done
    BY <1>0, <2>1 DEF IsLocals, Blank
  <2>3. Mine(c)' = {}
    BY <2>1 DEF Mine, Progress
  <2> QED BY <1>0, <2>1, <2>2, <2>3 DEF Progress, Untouched, Finishing
<1>5. CASE LoseResponse(c)
  <2>1. /\ pc[c] = "sent" /\ pc'[c] = "after" /\ work' = [work EXCEPT ![c].trouble = "ambiguous"]
        /\ applied' = applied /\ StopWaiting(c)
    BY <1>0, <1>5 DEF LoseResponse, Interrupt, history
  <2>2. work'[c].trouble = "ambiguous" /\ work'[c].done = work[c].done
    BY <1>0, <2>1 DEF IsLocals, Blank
  <2>3. Mine(c) = {}
    BY <2>1 DEF Progress
  <2>4. IF wire[c].answer = "none" THEN \E o : Mine(c)' = {o} ELSE Mine(c)' = {}
    BY <1>0, <2>1, <2>3, LoneOrphan
  <2> QED BY <1>0, <2>1, <2>2, <2>3, <2>4 DEF Progress, Untouched, Finishing, Written
<1> QED BY <1>1, <1>2, <1>3, <1>4, <1>5

\* The call ends: with a verdict, an exception or cancelled.
LEMMA EndProgress ==
  ASSUME TypeInv, NEW c \in Calls, Progress(c), ReadAfter(c) \/ ReadFails(c) \/ CancelCall(c)
  PROVE  Progress(c)'
<1> USE DEF TypeInv, CallsTyped, WorkersTyped, HistoryTyped
<1>0. c \in Tasks /\ applied[c] \in Nat /\ IsLocals(work[c]) /\ work[c].done \in Nat
      /\ (c \in DOMAIN wire <=> pc[c] = "sent") /\ (pc[c] = "sent" => wire[c] \in Written)
  BY DEF Tasks, IsLocals
<1>1. /\ applied' = applied /\ req' = req /\ Forget(c)
      /\ pc'[c] \in {"returned", "raised", "cancelled"}
  BY <1>0 DEF ReadAfter, ReadFails, CancelCall, history
<1>2. work'[c].trouble = "none" /\ work'[c].done = work[c].done
  BY <1>0, <1>1 DEF Forget, Blank
<1>3. CASE ReadAfter(c)
  <2>1. /\ pc[c] = "after" /\ pc'[c] = "returned" /\ orphans' = orphans
        /\ result'[c].status = Verdict(c)
    BY <1>0, <1>3 DEF ReadAfter, Return, Put, NewReceipt, host
  <2>2. /\ Verdict(c) \in {"failed", "unknown", "reconciled", "completed"}
        /\ Verdict(c) = "failed" => work[c].trouble = "failed"
        /\ Verdict(c) = "completed" => work[c].trouble = "none"
    BY DEF Verdict, Progress
  <2>3. Mine(c)' = Mine(c) /\ Script(c)' = Script(c)
    BY <1>1, <2>1 DEF Mine, Script
  <2> QED BY <1>0, <1>1, <1>2, <2>1, <2>2, <2>3 DEF Progress, Untouched, Finishing
<1>4. CASE ReadFails(c)
  <2>1. /\ pc[c] \in {"capabilities", "before", "after"} /\ pc'[c] = "raised" /\ orphans' = orphans
    BY <1>0, <1>4 DEF ReadFails, host
  <2>2. Mine(c)' = Mine(c)
    BY <2>1 DEF Mine
  <2> QED BY <1>0, <1>1, <1>2, <2>1, <2>2 DEF Progress, Untouched, Finishing
<1>5. CASE CancelCall(c)
  <2>1. /\ pc[c] \in Waiting \cup Locked /\ pc'[c] = "cancelled" /\ StopWaiting(c)
    BY <1>0, <1>5 DEF CancelCall
  <2>2. CASE pc[c] # "sent"
    <3>1. Mine(c)' = Mine(c)
      BY <1>0, <2>1, <2>2 DEF StopWaiting, Mine
    <3>2. pc[c] \in Untouched \cup {"after"}
      BY <2>1, <2>2 DEF Waiting, Locked, Untouched, Progress
    <3> QED BY <1>0, <1>1, <1>2, <2>1, <3>1, <3>2 DEF Progress, Untouched, Finishing
  <2>3. CASE pc[c] = "sent"
    <3>1. Mine(c) = {}
      BY <2>3 DEF Progress
    <3>2. IF wire[c].answer = "none" THEN \E o : Mine(c)' = {o} ELSE Mine(c)' = {}
      BY <1>0, <2>1, <2>3, <3>1, LoneOrphan
    <3> QED BY <1>0, <1>1, <1>2, <2>1, <2>3, <3>1, <3>2 DEF Progress, Untouched, Finishing, Written
  <2> QED BY <2>2, <2>3
<1> QED BY <1>3, <1>4, <1>5

\* A write nobody waits for runs: it was the last acknowledged one's successor.
LEMMA OrphanProgress ==
  ASSUME TypeInv, NEW c \in Calls, Progress(c), NEW o \in orphans, o.by = c, RunOrphan(o)
  PROVE  Progress(c)'
<1> USE DEF TypeInv, CallsTyped, HistoryTyped
<1>1. /\ UNCHANGED calls /\ applied'[c] = applied[c] + 1 /\ orphans' = orphans \ {o}
      /\ applied[c] \in Nat /\ work[c].done \in Nat
  BY DEF RunOrphan, Credit, IsLocals
<1>2. o \in Mine(c) /\ c \in Tasks
  BY DEF Mine, Tasks
<1>3. pc[c] \in Finishing
  BY <1>2 DEF Progress, Untouched, Finishing, Locked, Waiting, Ended
<1>4. applied[c] = work[c].done /\ Mine(c) = {o}
  BY <1>2, <1>3 DEF Progress
<1>5. /\ pc[c] = "after" => work[c].trouble = "ambiguous"
      /\ pc[c] = "returned" => result[c].status \notin {"validated", "blocked", "completed", "failed"}
  BY <1>2, <1>3 DEF Progress
<1>6. Mine(c)' = {}
  BY <1>1, <1>4 DEF Mine
<1> QED BY <1>1, <1>2, <1>3, <1>4, <1>5, <1>6 DEF Progress, Untouched, Finishing, calls

----------------------------------------------------------------------------
(* The theorems *)

IsolationInv == TypeInv /\ KeyInv /\ Holders /\ Calm /\ Revisions /\ Deltas /\ Fresh

\* What the lock guarantees is inductive together with the types and the
\* bookkeeping of keys.
THEOREM IsolationInvariant == Spec => []IsolationInv
<1>1. Init => IsolationInv
  BY IsolationInit, TypeInvInit, KeyInvInit DEF IsolationInv
<1>2. IsolationInv /\ [Next]_vars => IsolationInv'
  <2>1. IsolationInv /\ Next => IsolationInv'
    BY TypeInvStep, KeyInvStep, HoldersStep, CalmStep, RevisionsStep, DeltasStep, FreshStep DEF IsolationInv
  <2>2. IsolationInv /\ UNCHANGED vars => IsolationInv'
    BY TypeInvStep, KeyInvStep
       DEF IsolationInv, vars, host, gateway, calls, history, Holders, Calm, Revisions, Deltas, Fresh,
           Opening, Undisturbed
  <2> QED BY <2>1, <2>2
<1> QED BY <1>1, <1>2, PTL DEF Spec

\* No receipt blames or credits a call for an object another call touched
\* (scene_delta of two reads made under one hold of the lock).
THEOREM DeltasAreOwn == Spec => []DeltaIsOwn
<1>1. IsolationInv => DeltaIsOwn
  BY DEF IsolationInv, Deltas, DeltaIsOwn, Reported
<1> QED BY <1>1, IsolationInvariant, PTL

\* scene_index never answers with a scene the gateway itself has changed since.
THEOREM CacheStaysCurrent == Spec => []CacheIsCurrent
<1>1. IsolationInv => CacheIsCurrent
  <2> SUFFICES ASSUME IsolationInv, Undisturbed, ~OpenedThenRaised, lock = None,
                      cache.capacity >= MaxObjects
               PROVE  cache.scene = doc
    BY DEF CacheIsCurrent
  <2>1. \A v \in Visits : pc[v] # "sent"
    BY GatewayAssumption DEF IsolationInv, Holders, Locked, Tasks
  <2>2. ~Opening
    BY <2>1 DEF Opening, OpenedThenRaised
  <2> QED BY <2>2 DEF IsolationInv, Fresh
<1> QED BY <1>1, IsolationInvariant, PTL

\* The revision a call was checked against is the one its first command finds.
THEOREM RevisionHolds == Spec => FirstWriteSeesRevision
<1> DEFINE OnRevision == \A c \in Calls :
             /\ Undisturbed /\ req[c].revision # None
             /\ applied[c] = 0 /\ applied'[c] = 1
             => doc = req[c].revision
<1>1. IsolationInv /\ [Next]_vars => OnRevision
  <2> SUFFICES ASSUME IsolationInv, [Next]_vars, NEW c \in Calls, Undisturbed,
                      req[c].revision # None, applied[c] = 0, applied'[c] = 1
               PROVE  doc = req[c].revision
    OBVIOUS
  <2>1. Next /\ applied' # applied
    BY DEF vars, history
  <2>2. CASE \E d \in Calls : RunSentCommand(d)
    <3>1. PICK d \in Calls : RunSentCommand(d)
      BY <2>2
    <3>2. c = d
      BY <3>1 DEF RunSentCommand, Credit, IsolationInv, TypeInv, HistoryTyped
    <3> QED BY <3>1, <3>2 DEF RunSentCommand, IsolationInv, Revisions
  <2>3. CASE \E v \in Visits : RunVisit(v)
    BY <2>1, <2>3 DEF RunVisit, history
  <2> QED BY <2>1, <2>2, <2>3, DocumentStep DEF IsolationInv
<1> QED BY <1>1, IsolationInvariant, PTL DEF Spec, FirstWriteSeesRevision

\* Exports and document switches fall between batches, never inside one.
THEOREM VisitsBetweenBatches == Spec => VisitsSeeWholeBatches
<1> DEFINE Between == Undisturbed /\ (file' # file \/ active' # active)
                      => \A c \in Calls : pc[c] \notin {"before", "sent", "after"}
<1>1. IsolationInv /\ [Next]_vars => Between
  <2> SUFFICES ASSUME IsolationInv, [Next]_vars, Undisturbed, file' # file \/ active' # active,
                      NEW c \in Calls
               PROVE  pc[c] \notin {"before", "sent", "after"}
    OBVIOUS
  <2>1. Next
    BY DEF vars, host
  <2>2. ~\E d \in Calls : RunSentCommand(d)
    BY DEF RunSentCommand
  <2>3. PICK v \in Visits : RunVisit(v)
    BY <2>1, <2>2, DocumentStep DEF IsolationInv
  <2> QED BY <2>3, OneInside, GatewayAssumption DEF RunVisit, IsolationInv, Locked, Tasks
<1> QED BY <1>1, IsolationInvariant, PTL DEF Spec, VisitsSeeWholeBatches

LEMMA StatusInvariant == Spec => []StatusInv
<1>1. Init => StatusInv
  BY DEF Init, StatusInv, Progress, Untouched, Finishing, Mine, Blank, Tasks
<1>2. TypeInv /\ KeyInv /\ StatusInv /\ [Next]_vars => StatusInv'
  <2> SUFFICES ASSUME TypeInv, KeyInv, StatusInv, [Next]_vars, NEW c \in Calls
               PROVE  Progress(c)'
    BY DEF StatusInv
  <2>0. Progress(c)
    BY DEF StatusInv
  <2>1. CASE UNCHANGED vars
    BY <2>0, <2>1, ProgressFrame DEF vars, host, calls, history, Mine
  <2>2. CASE /\ Next /\ ~(\E a \in Arguments(c) : Invoke(c, a)) /\ ~CallStep(c) /\ ~CancelCall(c)
             /\ ~\E o \in orphans : o.by = c /\ RunOrphan(o)
    <3>1. pc[c] = "returned" => c \in DOMAIN result
      BY DEF KeyInv, Answers
    <3> QED BY <2>0, <2>2, <3>1, CallFrame, HistoryFrame, ProgressFrame
  <2>3. CASE \E a \in Arguments(c) : Invoke(c, a)
    BY <2>0, <2>3, InvokeProgress
  <2>4. CASE CallStep(c) \/ CancelCall(c)
    BY <2>0, <2>4, EarlyProgress, CommandProgress, EndProgress DEF CallStep
  <2>5. CASE \E o \in orphans : o.by = c /\ RunOrphan(o)
    BY <2>0, <2>5, OrphanProgress
  <2> QED BY <2>1, <2>2, <2>3, <2>4, <2>5
<1> QED BY <1>1, <1>2, TypeInvariant, KeyInvariant, PTL DEF Spec

\* What a status says of the commands Rhino ran, whatever is lost, cancelled,
\* malformed or edited.
THEOREM StatusesTell == Spec => []StatusTellsWhatRan
<1>1. TypeInv /\ StatusInv => StatusTellsWhatRan
  <2> SUFFICES ASSUME TypeInv, StatusInv, NEW c \in Calls
               PROVE  /\ applied[c] <= work[c].done + 1
                      /\ applied[c] >= work[c].done
                      /\ pc[c] = "returned" =>
                            /\ result[c].status \in {"validated", "blocked"} => applied[c] = 0
                            /\ result[c].status = "completed" => applied[c] = Len(Script(c))
                            /\ result[c].status = "failed" /\ "malformed" \notin Faults
                                  => applied[c] = work[c].done
    BY DEF StatusTellsWhatRan
  <2>1. Progress(c) /\ applied[c] \in Nat /\ work[c].done \in Nat
    BY DEF StatusInv, TypeInv, CallsTyped, HistoryTyped, IsLocals
  <2>2. pc[c] \in Untouched \cup {"sent"} \cup Finishing
    BY <2>1 DEF Progress, TypeInv, CallsTyped, Untouched, Finishing, Waiting, Locked, Ended, Tasks
  <2>3. applied[c] \in {work[c].done, work[c].done + 1}
    BY <2>1, <2>2 DEF Progress
  <2>4. pc[c] = "returned" =>
            /\ result[c].status \in {"validated", "blocked"} => applied[c] = 0
            /\ result[c].status = "completed" => applied[c] = Len(Script(c))
            /\ result[c].status = "failed" /\ "malformed" \notin Faults
                  => applied[c] = work[c].done
    BY <2>1 DEF Progress
  <2> QED BY <2>1, <2>3, <2>4
<1> QED BY <1>1, TypeInvariant, StatusInvariant, PTL

----------------------------------------------------------------------------
(* The gateway serialises the document *)

\* A batch that named a revision was sent to that revision, and only a query
\* that has returned was told a scene.
Based ==
    /\ \A c \in Calls :
          pc[c] \in {"sent", "after"} /\ req[c].revision # None => work[c].before = req[c].revision
    /\ \A q \in DOMAIN seen : pc[q] = "returned"

LEMMA BasedStep ==
  ASSUME TypeInv, Based, Next
  PROVE  Based'
<1> USE DEF TypeInv, CallsTyped
<1>1. ASSUME NEW c \in Calls, pc'[c] \in {"sent", "after"}, req'[c].revision # None
      PROVE  work'[c].before = req'[c].revision
  <2>1. CASE ReadBefore(c) /\ work'[c].before = doc
    BY <1>1, <2>1 DEF ReadBefore, RevisionMatches
  <2>2. CASE pc[c] \in {"sent", "after"} /\ work'[c].before = work[c].before
    <3>1. ~\E a \in Arguments(c) : Invoke(c, a)
      BY <2>2 DEF Invoke, ReplayReceipt, JoinInflight, AnswerWithoutHost, BeginExecution
    <3>2. CallStep(c) \/ CancelCall(c) => req'[c] = req[c]
      BY DEF CallStep, ResumeWaiter, AcquireLock, ReadCapabilities, RefuseIncompatiblePlugin, ReadBefore,
           RefuseStaleRevision, RunSentCommand, ReceiveResult, CommandFails, AnswerIsMalformed,
           LoseResponse, ReadAfter, ReadFails, CancelCall
    <3>3. req'[c] = req[c]
      BY <3>1, <3>2, CallFrame
    <3> QED BY <1>1, <2>2, <3>3 DEF Based
  <2> QED BY <1>1, <2>1, <2>2, BeforeStep
<1>2. ASSUME NEW q \in DOMAIN seen'
      PROVE  pc'[q] = "returned"
  <2>0. Queries \subseteq Tasks /\ Calls \cap Queries = {} /\ Visits \cap Queries = {}
        /\ DOMAIN seen \subseteq Queries
    BY GatewayAssumption DEF Tasks, ScenesTyped
  <2>1. ASSUME NEW r \in Queries, StartQuery(r) \/ QueryStep(r)
        PROVE  pc'[q] = "returned"
    <3>1. CASE AnswerFromCache(r) \/ IndexScene(r)
      <4>1. q = r \/ q \in DOMAIN seen
        BY <3>1 DEF AnswerFromCache, IndexScene, Put
      <4>2. pc' = [pc EXCEPT ![r] = "returned"]
        BY <3>1 DEF AnswerFromCache, IndexScene
      <4> QED BY <2>0, <4>1, <4>2 DEF Based
    <3>2. CASE StartQuery(r) \/ LockForIndex(r) \/ IndexFails(r)
      <4>1. pc[r] # "returned" /\ UNCHANGED seen /\ \E p : pc' = [pc EXCEPT ![r] = p]
        BY <3>2 DEF StartQuery, LockForIndex, IndexFails
      <4> QED BY <2>0, <4>1 DEF Based
    <3> QED BY <2>1, <3>1, <3>2 DEF QueryStep
  <2>2. CASE /\ UNCHANGED seen
             /\ \E t \in Calls \cup Visits : \A u \in Queries : t # u => pc'[u] = pc[u]
    BY <2>0, <2>2 DEF Based
  <2>3. ASSUME NEW c \in Calls, NEW a \in Arguments(c), Invoke(c, a)
        PROVE  UNCHANGED seen /\ \A u \in Queries : c # u => pc'[u] = pc[u]
    BY <2>0, <2>3 DEF Invoke, ReplayReceipt, JoinInflight, AnswerWithoutHost, BeginExecution
  <2>4. ASSUME NEW c \in Calls, CallStep(c) \/ CancelCall(c)
        PROVE  UNCHANGED seen /\ \A u \in Queries : c # u => pc'[u] = pc[u]
    BY <2>0, <2>4 DEF CallStep, ResumeWaiter, AcquireLock, ReadCapabilities, RefuseIncompatiblePlugin,
         ReadBefore, RefuseStaleRevision, RunSentCommand, ReceiveResult, CommandFails, AnswerIsMalformed,
         LoseResponse, ReadAfter, ReadFails, CancelCall, Proceed, Interrupt
  <2>5. ASSUME NEW v \in Visits, StartVisit(v) \/ VisitStep(v) \/ CancelVisit(v)
        PROVE  UNCHANGED seen /\ \A u \in Queries : v # u => pc'[u] = pc[u]
    BY <2>0, <2>5 DEF StartVisit, VisitStep, LockForVisit, AskRhino, RunVisit, ReceiveVisit, LoseVisit,
         CheckOpened, VisitFails, CancelVisit, LeaveVisit
  <2>6. ASSUME \/ \E o \in orphans : RunOrphan(o) \/ RunOrphanVisit(o)
               \/ \E op \in {"create", "update", "delete"}, i \in Ids : EditDocument(op, i)
               \/ AllEnded
        PROVE  pc'[q] = "returned"
    BY <2>0, <2>6 DEF RunOrphan, RunOrphanVisit, EditDocument, AllEnded, vars, calls, Based
  <2> QED BY <2>1, <2>2, <2>3, <2>4, <2>5, <2>6 DEF Next
<1> QED BY <1>1, <1>2 DEF Based

SerialInv == IsolationInv /\ Based

LEMMA SerialInvariant == Spec => []SerialInv
<1>1. Init => Based
  BY DEF Init, Based, Tasks, Empty
<1>2. IsolationInv /\ Based /\ [Next]_vars => Based'
  <2>1. ASSUME Based, UNCHANGED vars PROVE Based'
    BY <2>1 DEF Based, vars, calls
  <2> QED BY <2>1, BasedStep DEF IsolationInv
<1> QED BY <1>1, <1>2, IsolationInvariant, PTL DEF Spec, SerialInv

Silence == {"raised", "cancelled"}
Evidence ==
    [c \in {d \in Calls : pc[d] = "returned"} |->
        [revision |-> req[c].revision, changes |-> DeltaOf(result[c])]]
Silent == {t \in Calls \cup Visits : pc[t] \in Silence}

\* Whoever may be at work, a document nobody holds is as it is.
LEMMA CommittedIs ==
  ASSUME SerialInv
  PROVE  /\ \A c \in Calls : pc[c] \in {"sent", "after"} => lock = c /\ Committed = work[c].before
         /\ (\A c \in Calls : lock = c => pc[c] \notin {"sent", "after"}) => Committed = doc
  BY DEF SerialInv, IsolationInv, Holders, Committed, Locked, Tasks

\* A step that moves one call, not to its end, says nothing.
LEMMA NothingSaid ==
  ASSUME SerialInv, NEW t \in Tasks, NEW p, pc' = [pc EXCEPT ![t] = p],
         pc[t] \notin {"returned"} \cup Silence,
         p = "returned" => t \notin Calls,
         p \in Silence => t \in Queries,
         \A c \in Calls : c # t => req'[c] = req[c],
         \A c \in DOMAIN result : c # t => result'[c] = result[c]
  PROVE  Evidence' = Evidence /\ Silent' = Silent
<1> USE DEF SerialInv, IsolationInv, TypeInv, CallsTyped
<1>1. \A c \in Calls : /\ pc'[c] = "returned" <=> pc[c] = "returned"
                       /\ pc[c] = "returned" => c \in DOMAIN result /\ c # t
  BY DEF KeyInv, Answers, Tasks
<1>2. \A c \in Calls : pc[c] = "returned" => req'[c] = req[c] /\ result'[c] = result[c]
  BY <1>1
<1>3. Evidence' = Evidence
  <2>1. {c \in Calls : pc'[c] = "returned"} = {c \in Calls : pc[c] = "returned"}
    BY <1>1
  <2> QED BY <1>2, <2>1 DEF Evidence
<1>4. Silent' = Silent
  BY GatewayAssumption DEF Silent, Tasks, Silence
<1> QED BY <1>3, <1>4

\* A receipt of a batch that left the document as it was.
LEMMA ReportsNothing ==
  ASSUME SerialInv, NEW c \in Calls, NEW r, DeltaOf(r) = [created |-> {}, modified |-> {}, deleted |-> {}],
         pc[c] \in {"idle", "capabilities", "before"}, pc' = [pc EXCEPT ![c] = "returned"],
         result' = Put(result, c, r),
         \A d \in Calls : c # d => req'[d] = req[d],
         Committed' = Committed, UNCHANGED <<active, seen, file>>
  PROVE  Serial!Report(c)
<1> USE DEF SerialInv, IsolationInv, TypeInv, CallsTyped
<1>1. /\ {d \in Calls : pc'[d] = "returned"} = {d \in Calls : pc[d] = "returned"} \cup {c}
      /\ \A d \in Calls : pc[d] = "returned" => d # c /\ d \in DOMAIN result
  BY DEF KeyInv, Answers, Tasks
<1>2. /\ DOMAIN Evidence' = DOMAIN Evidence \cup {c}
      /\ \A d \in DOMAIN Evidence : Evidence'[d] = Evidence[d]
      /\ Evidence'[c].changes = [created |-> {}, modified |-> {}, deleted |-> {}]
  BY <1>1 DEF Evidence, Put
<1>3. Silent' = Silent
  BY GatewayAssumption DEF Silent, Tasks, Silence
<1>4. Changes(Committed, Committed') = [created |-> {}, modified |-> {}, deleted |-> {}]
  BY DEF Changes, CreatedIds, ModifiedIds, DeletedIds
<1>5. c \notin DOMAIN Evidence /\ c \notin Silent
  BY DEF Evidence, Silent, Silence
<1> QED BY <1>2, <1>3, <1>4, <1>5 DEF Serial!Report, Serial!Running, Evidence, Silent, Silence

\* A batch that ran is reported when its second scene read succeeds.
LEMMA ReadAfterReports ==
  ASSUME SerialInv, NEW c \in Calls, ReadAfter(c)
  PROVE  Serial!Report(c)
<1> USE DEF SerialInv, IsolationInv, TypeInv, CallsTyped
<1> DEFINE r == NewReceipt(c, req[c].payload, Verdict(c), CreatedIds(work[c].before, doc),
                           ModifiedIds(work[c].before, doc), DeletedIds(work[c].before, doc))
<1>1. /\ pc[c] = "after" /\ pc' = [pc EXCEPT ![c] = "returned"] /\ lock' = None
      /\ result' = Put(result, c, r) /\ UNCHANGED <<doc, active, file, req, seen>>
  BY DEF ReadAfter, Return, host
<1>2. DeltaOf(r) = Changes(work[c].before, doc)
  BY DEF DeltaOf, Changes, NewReceipt
<1> HIDE DEF r
<1>3. Committed = work[c].before /\ Committed' = doc
  BY <1>1, CommittedIs, GatewayAssumption DEF Committed, Tasks
<1>4. /\ {d \in Calls : pc'[d] = "returned"} = {d \in Calls : pc[d] = "returned"} \cup {c}
      /\ \A d \in Calls : pc[d] = "returned" => d # c /\ d \in DOMAIN result
  BY <1>1 DEF KeyInv, Answers, Tasks
<1>5. /\ DOMAIN Evidence' = DOMAIN Evidence \cup {c}
      /\ \A d \in DOMAIN Evidence : Evidence'[d] = Evidence[d]
      /\ Evidence'[c] = [revision |-> req[c].revision, changes |-> DeltaOf(r)]
  BY <1>1, <1>4 DEF Evidence, Put
<1>6. Silent' = Silent
  BY <1>1, GatewayAssumption DEF Silent, Tasks, Silence
<1>7. req[c].revision \in {None, work[c].before}
  BY <1>1 DEF Based
<1>8. c \notin DOMAIN Evidence /\ c \notin Silent
  BY <1>1 DEF Evidence, Silent, Silence
<1> QED BY <1>1, <1>2, <1>3, <1>5, <1>6, <1>7, <1>8
        DEF Serial!Report, Serial!Running, Evidence, Silent, Silence

\* A call that raises or is cancelled says nothing of what it did.
LEMMA CallEndsSilently ==
  ASSUME SerialInv, NEW c \in Calls, pc[c] \in Waiting \cup Locked,
         NEW p \in Silence, pc' = [pc EXCEPT ![c] = p],
         UNCHANGED <<req, result, active, seen, file>>
  PROVE  Serial!EndSilently(c)
<1> USE DEF SerialInv, IsolationInv, TypeInv, CallsTyped
<1>1. pc[c] \notin {"returned"} \cup Silence /\ c \in Tasks
  BY DEF Waiting, Locked, Silence, Tasks
<1>2. {d \in Calls : pc'[d] = "returned"} = {d \in Calls : pc[d] = "returned"}
  BY <1>1 DEF Silence
<1>3. Evidence' = Evidence
  BY <1>2 DEF Evidence
<1>4. Silent' = Silent \cup {c}
  BY <1>1, GatewayAssumption DEF Silent, Tasks, Silence
<1>5. c \notin DOMAIN Evidence /\ c \notin Silent
  BY <1>1 DEF Evidence, Silent
<1> QED BY <1>3, <1>4, <1>5 DEF Serial!EndSilently, Serial!Running, Evidence, Silent, Silence

LEMMA InvokeSerialises ==
  ASSUME SerialInv, NEW c \in Calls, NEW a \in Arguments(c), Invoke(c, a)
  PROVE  Serial!Next \/ UNCHANGED Serial!vars
<1> USE DEF SerialInv, IsolationInv, TypeInv, CallsTyped
<1>1. /\ pc[c] = "idle" /\ UNCHANGED <<doc, active, file, lock, work, seen>> /\ c \in Tasks
      /\ \A d \in Calls : c # d => req'[d] = req[d]
  BY DEF Invoke, ReplayReceipt, JoinInflight, AnswerWithoutHost, BeginExecution, host, gateway, Tasks
<1>2. PICK p \in {"replayed", "conflict", "waiting", "locking", "returned"} : pc' = [pc EXCEPT ![c] = p]
  BY DEF Invoke, ReplayReceipt, JoinInflight, AnswerWithoutHost, BeginExecution
<1>3. Committed' = Committed
  BY <1>1, <1>2 DEF Committed, Tasks
<1>4. CASE AnswerWithoutHost(c, a)
  <2> DEFINE r == NewReceipt(c, a.payload, IF a.payload \in Unmapped THEN "blocked" ELSE "validated",
                             {}, {}, {})
  <2>1. /\ DeltaOf(r) = [created |-> {}, modified |-> {}, deleted |-> {}]
        /\ result' = Put(result, c, r) /\ pc' = [pc EXCEPT ![c] = "returned"]
    BY <1>4 DEF AnswerWithoutHost, Return, NewReceipt, DeltaOf
  <2> HIDE DEF r
  <2> QED BY <1>1, <1>3, <2>1, ReportsNothing DEF Serial!Next
<1>5. CASE ~AnswerWithoutHost(c, a)
  <2>1. pc'[c] # "returned" /\ \A d \in DOMAIN result : c # d => result'[d] = result[d]
    BY <1>1, <1>5 DEF Invoke, ReplayReceipt, JoinInflight, BeginExecution, Put
  <2>2. Evidence' = Evidence /\ Silent' = Silent
    BY <1>1, <1>2, <2>1, NothingSaid DEF Silence
  <2> QED BY <1>1, <1>3, <2>2 DEF Serial!vars, Evidence, Silent, Silence
<1> QED BY <1>4, <1>5

\* While a call prepares, sends and recovers, the document is what it read.
LEMMA WorkIsInvisible ==
  ASSUME SerialInv, Next, NEW c \in Calls,
         \/ AcquireLock(c) \/ ReadCapabilities(c) \/ ReadBefore(c) \/ RunSentCommand(c)
         \/ ReceiveResult(c) \/ CommandFails(c) \/ AnswerIsMalformed(c) \/ LoseResponse(c)
  PROVE  UNCHANGED Serial!vars
<1> USE DEF SerialInv, IsolationInv, TypeInv, CallsTyped
<1>0. c \in Tasks /\ None \notin Calls
  BY GatewayAssumption DEF Tasks
<1>1. /\ UNCHANGED <<active, file, req, result, seen>>
      /\ pc[c] \in {"locking", "capabilities", "before", "sent"}
  BY DEF AcquireLock, ReadCapabilities, ReadBefore, RunSentCommand, ReceiveResult, CommandFails,
         AnswerIsMalformed, LoseResponse, host, gateway
<1>2. PICK p \in {"capabilities", "before", "sent", "after"} : pc' = [pc EXCEPT ![c] = p]
  <2>1. CASE RunSentCommand(c)
    BY <1>0, <2>1 DEF RunSentCommand
  <2> QED BY <2>1 DEF AcquireLock, ReadCapabilities, ReadBefore, ReceiveResult, CommandFails,
             AnswerIsMalformed, LoseResponse, Proceed, Interrupt
<1>3. Evidence' = Evidence /\ Silent' = Silent
  BY <1>0, <1>1, <1>2, NothingSaid DEF Silence
<1>4. Committed' = Committed
  <2>1. CASE AcquireLock(c) \/ ReadCapabilities(c)
    BY <1>0, <2>1 DEF AcquireLock, ReadCapabilities, Committed, Holders, Locked, gateway, host
  <2>2. CASE ~(AcquireLock(c) \/ ReadCapabilities(c))
    <3>1. /\ pc'[c] \in {"sent", "after"} /\ lock' = lock /\ pc[c] \in {"before", "sent"}
          /\ ReadBefore(c) => pc[c] = "before" /\ UNCHANGED doc
      BY <1>0, <2>2 DEF ReadBefore, RunSentCommand, ReceiveResult, CommandFails, AnswerIsMalformed,
           LoseResponse, Proceed, Interrupt, gateway, host
    <3>2. lock = c
      BY <1>0, <3>1 DEF Holders, Locked
    <3>3. Committed' = work'[c].before
      BY <3>1, <3>2 DEF Committed
    <3>4. CASE ReadBefore(c) /\ work'[c].before = doc
      BY <3>1, <3>2, <3>3, <3>4 DEF Committed
    <3>5. CASE pc[c] \in {"sent", "after"} /\ work'[c].before = work[c].before
      BY <3>2, <3>3, <3>5 DEF Committed
    <3> QED BY <3>1, <3>4, <3>5, BeforeStep
  <2> QED BY <2>1, <2>2
<1> QED BY <1>1, <1>3, <1>4 DEF Serial!vars, Evidence, Silent, Silence

LEMMA CallSerialises ==
  ASSUME SerialInv, Next, NEW c \in Calls, CallStep(c) \/ CancelCall(c)
  PROVE  Serial!Next \/ UNCHANGED Serial!vars
<1> USE DEF SerialInv, IsolationInv, TypeInv, CallsTyped
<1>0. c \in Tasks /\ None \notin Calls
  BY GatewayAssumption DEF Tasks
<1>1. CASE \/ AcquireLock(c) \/ ReadCapabilities(c) \/ ReadBefore(c) \/ RunSentCommand(c)
           \/ ReceiveResult(c) \/ CommandFails(c) \/ AnswerIsMalformed(c) \/ LoseResponse(c)
  BY <1>1, WorkIsInvisible
<1>2. CASE ReadAfter(c)
  BY <1>2, ReadAfterReports DEF Serial!Next
<1>3. CASE ReadFails(c) \/ CancelCall(c)
  <2>1. /\ pc[c] \in Waiting \cup Locked /\ \E p \in Silence : pc' = [pc EXCEPT ![c] = p]
        /\ UNCHANGED <<req, result, active, seen, file>>
    BY <1>3 DEF ReadFails, CancelCall, Abandon, Waiting, Locked, Silence, host
  <2> QED BY <2>1, CallEndsSilently DEF Serial!Next
<1>4. CASE RefuseIncompatiblePlugin(c) \/ RefuseStaleRevision(c)
  <2>1. PICK r : /\ DeltaOf(r) = [created |-> {}, modified |-> {}, deleted |-> {}]
                 /\ result' = Put(result, c, r)
    BY <1>4 DEF RefuseIncompatiblePlugin, RefuseStaleRevision, BlockedReceipt, Return, NewReceipt, DeltaOf
  <2>2. /\ pc[c] \in {"capabilities", "before"} /\ pc' = [pc EXCEPT ![c] = "returned"]
        /\ lock' = None /\ UNCHANGED <<doc, active, file, req, seen>>
    BY <1>4 DEF RefuseIncompatiblePlugin, RefuseStaleRevision, host
  <2>3. Committed = doc /\ Committed' = doc
    BY <1>0, <2>2 DEF Holders, Locked, Committed
  <2> QED BY <2>1, <2>2, <2>3, ReportsNothing DEF Serial!Next
<1>5. CASE ResumeWaiter(c)
  <2>1. /\ pc[c] = "waiting" /\ UNCHANGED <<doc, active, file, lock, work, req, seen>>
        /\ \E p \in {"replayed", "conflict"} \cup Silence : pc' = [pc EXCEPT ![c] = p]
        /\ pc'[c] \in Silence => UNCHANGED result
        /\ \A d \in DOMAIN result : c # d => result'[d] = result[d]
    BY <1>0, <1>5 DEF ResumeWaiter, Ended, Silence, Put, gateway, host
  <2>2. CASE pc'[c] \in Silence
    BY <1>0, <2>1, <2>2, CallEndsSilently DEF Serial!Next, Waiting
  <2>3. CASE pc'[c] \notin Silence
    <3>1. PICK p \in {"replayed", "conflict"} : pc' = [pc EXCEPT ![c] = p]
      BY <1>0, <2>1, <2>3
    <3>2. Evidence' = Evidence /\ Silent' = Silent
      BY <1>0, <2>1, <3>1, NothingSaid DEF Silence
    <3>3. Committed' = Committed
      BY <1>0, <2>1, <3>1 DEF Committed, Tasks
    <3> QED BY <2>1, <3>2, <3>3 DEF Serial!vars, Evidence, Silent, Silence
  <2> QED BY <2>2, <2>3
<1> QED BY <1>1, <1>2, <1>3, <1>4, <1>5 DEF CallStep

\* A reader gets the document, unless the visit that opened it failed.
LEMMA QuerySerialises ==
  ASSUME SerialInv, NEW q \in Queries, StartQuery(q) \/ QueryStep(q)
  PROVE  Serial!Next \/ UNCHANGED Serial!vars
<1> USE DEF SerialInv, IsolationInv, TypeInv, CallsTyped
<1>0. /\ q \in Tasks /\ Calls \subseteq Tasks /\ Visits \subseteq Tasks
      /\ q \notin Calls /\ q \notin Visits /\ None \notin Calls
  BY GatewayAssumption DEF Tasks
<1>1. /\ UNCHANGED <<doc, active, file, req, work, result>>
      /\ pc[q] \in {"idle", "locking", "indexing"} /\ \E p : pc' = [pc EXCEPT ![q] = p]
  BY DEF StartQuery, QueryStep, AnswerFromCache, LockForIndex, IndexScene, IndexFails, host
<1>2. \A t \in Calls \cup Visits : pc'[t] = pc[t]
  BY <1>0, <1>1
<1>3. Evidence' = Evidence /\ Silent' = Silent
  <2>1. {d \in Calls : pc'[d] = "returned"} = {d \in Calls : pc[d] = "returned"}
    BY <1>2
  <2> QED BY <1>1, <1>2, <2>1 DEF Evidence, Silent
<1>4. Committed' = Committed
  <2>1. lock' = lock \/ (lock \in {None, q} /\ lock' \in {None, q})
    BY <1>0 DEF StartQuery, QueryStep, AnswerFromCache, LockForIndex, IndexScene, IndexFails, Holders,
         Locked, gateway
  <2> QED BY <1>0, <1>1, <1>2, <2>1 DEF Committed
<1>5. q \notin DOMAIN seen
  BY <1>1 DEF Based
<1>6. CASE AnswerFromCache(q)
  <2>1. lock = None /\ seen' = Put(seen, q, cache.scene) /\ cache.capacity >= MaxObjects
    BY <1>6 DEF AnswerFromCache
  <2>2. Committed = doc
    BY <1>0, <2>1 DEF Committed
  <2>3. \A v \in Visits : pc[v] # "sent"
    BY <1>0, <2>1, GatewayAssumption DEF Holders, Locked, Tasks
  <2>4. cache.scene = doc \/ active \in Silent \/ ~Undisturbed
    BY <2>1, <2>3 DEF Fresh, Opening, Silent, Silence
  <2>5. Serial!Answer(q)
    BY <1>0, <1>1, <1>3, <1>4, <1>5, <2>1, <2>2, <2>4
       DEF Serial!Answer, Put, Evidence, Silent, Silence
  <2> QED BY <2>5 DEF Serial!Next
<1>7. CASE IndexScene(q)
  <2>1. pc[q] = "indexing" /\ seen' = Put(seen, q, doc)
    BY <1>7 DEF IndexScene
  <2>2. lock = q
    BY <1>0, <2>1 DEF Holders, Locked
  <2>3. Committed = doc
    BY <1>0, <2>2 DEF Committed
  <2>4. Serial!Answer(q)
    BY <1>0, <1>1, <1>3, <1>4, <1>5, <2>1, <2>3
       DEF Serial!Answer, Put, Evidence, Silent, Silence
  <2> QED BY <2>4 DEF Serial!Next
<1>8. CASE StartQuery(q) \/ LockForIndex(q) \/ IndexFails(q)
  <2>1. UNCHANGED seen
    BY <1>8 DEF StartQuery, LockForIndex, IndexFails
  <2> QED BY <1>1, <1>3, <1>4, <2>1 DEF Serial!vars, Evidence, Silent, Silence
<1> QED BY <1>6, <1>7, <1>8 DEF QueryStep

\* A visit opens, exports or looks under its own hold of the lock, and fails at
\* any time without touching the document.
LEMMA VisitSerialises ==
  ASSUME SerialInv, NEW v \in Visits, StartVisit(v) \/ VisitStep(v) \/ CancelVisit(v)
  PROVE  Serial!Next \/ UNCHANGED Serial!vars
<1> USE DEF SerialInv, IsolationInv, TypeInv, CallsTyped
<1>0. v \in Tasks /\ Calls \subseteq Tasks /\ v \notin Calls /\ None \notin Calls
  BY GatewayAssumption DEF Tasks
<1>1. PICK p \in {"locking"} \cup Locked \cup Ended : pc' = [pc EXCEPT ![v] = p]
  BY VisitStepFrame
<1>2. UNCHANGED <<result, req>> /\ \A c \in Calls : pc'[c] = pc[c]
  BY <1>0, <1>1, VisitStepFrame
<1>3. UNCHANGED <<work, seen>>
  BY DEF StartVisit, VisitStep, LockForVisit, AskRhino, RunVisit, ReceiveVisit, LoseVisit,
         CheckOpened, VisitFails, CancelVisit
<1>4. Evidence' = Evidence
  <2>1. {d \in Calls : pc'[d] = "returned"} = {d \in Calls : pc[d] = "returned"}
    BY <1>2
  <2> QED BY <1>2, <2>1 DEF Evidence
<1>5. lock' = lock \/ (lock \in {None, v} /\ lock' \in {None, v})
  BY DEF StartVisit, VisitStep, LockForVisit, AskRhino, RunVisit, ReceiveVisit, LoseVisit,
         CheckOpened, VisitFails, CancelVisit, LeaveVisit, gateway
<1>6. pc[v] \notin Silence
  BY DEF StartVisit, VisitStep, LockForVisit, AskRhino, RunVisit, ReceiveVisit, LoseVisit,
         CheckOpened, VisitFails, CancelVisit, Waiting, Locked, Silence
<1>7. Silent' = IF p \in Silence THEN Silent \cup {v} ELSE Silent
  BY <1>0, <1>1, <1>6 DEF Silent, Tasks, Silence
<1>8. CASE RunVisit(v)
  <2>1. pc[v] = "sent" /\ UNCHANGED <<pc, lock>> /\ Perform(v)
    BY <1>8 DEF RunVisit, gateway
  <2>2. lock = v
    BY <1>0, <2>1 DEF Holders, Locked
  <2>3. Committed = doc /\ Committed' = doc'
    BY <1>0, <2>1, <2>2 DEF Committed
  <2>4. Silent' = Silent /\ v \notin Silent
    BY <1>6, <2>1 DEF Silent
  <2>5. CASE KindOf[v] = "open"
    <3>1. Serial!Open(v)
      BY <1>3, <1>4, <2>1, <2>3, <2>4, <2>5
         DEF Serial!Open, Perform, Evidence, Silent, Silence
    <3> QED BY <3>1 DEF Serial!Next
  <2>6. CASE KindOf[v] = "export"
    <3>1. Serial!Export
      BY <1>3, <1>4, <2>1, <2>3, <2>4, <2>6
         DEF Serial!Export, Perform, Evidence, Silent, Silence
    <3> QED BY <3>1 DEF Serial!Next
  <2>7. CASE KindOf[v] \notin {"open", "export"}
    BY <1>3, <1>4, <2>1, <2>3, <2>4, <2>7 DEF Serial!vars, Perform, Evidence, Silent, Silence
  <2> QED BY <2>5, <2>6, <2>7
<1>9. CASE ~RunVisit(v)
  <2>1. UNCHANGED <<doc, active, file>>
    BY <1>9 DEF StartVisit, VisitStep, LockForVisit, AskRhino, ReceiveVisit, LoseVisit, CheckOpened,
         VisitFails, CancelVisit, host
  <2>2. Committed' = Committed
    BY <1>0, <1>2, <1>3, <1>5, <2>1 DEF Committed
  <2>3. CASE p \in Silence
    <3>1. Serial!Fail(v)
      BY <1>3, <1>4, <1>7, <2>1, <2>2, <2>3 DEF Serial!Fail, Evidence, Silent, Silence
    <3> QED BY <3>1 DEF Serial!Next
  <2>4. CASE p \notin Silence
    BY <1>3, <1>4, <1>7, <2>1, <2>2, <2>4 DEF Serial!vars, Evidence, Silent, Silence
  <2> QED BY <2>3, <2>4
<1> QED BY <1>8, <1>9

LEMMA SerialInit == Init => Serial!Init
<1> SUFFICES ASSUME Init PROVE Serial!Init
  OBVIOUS
<1>1. Committed = doc
  BY GatewayAssumption DEF Init, Committed, Tasks
<1>2. {d \in Calls : pc[d] = "returned"} = {} /\ Silent = {}
  BY DEF Init, Silent, Silence, Tasks
<1> QED BY <1>1, <1>2 DEF Init, Serial!Init, Empty, Silent, Silence

LEMMA StepSerialises == SerialInv /\ [Next]_vars => [Serial!Next]_(Serial!vars)
<1> SUFFICES ASSUME SerialInv, [Next]_vars PROVE Serial!Next \/ UNCHANGED Serial!vars
  OBVIOUS
<1>1. ASSUME NEW c \in Calls, NEW a \in Arguments(c), Invoke(c, a)
      PROVE  Serial!Next \/ UNCHANGED Serial!vars
  BY <1>1, InvokeSerialises
<1>2. ASSUME Next, NEW c \in Calls, CallStep(c) \/ CancelCall(c)
      PROVE  Serial!Next \/ UNCHANGED Serial!vars
  BY <1>2, CallSerialises
<1>3. ASSUME NEW q \in Queries, StartQuery(q) \/ QueryStep(q)
      PROVE  Serial!Next \/ UNCHANGED Serial!vars
  BY <1>3, QuerySerialises
<1>4. ASSUME NEW v \in Visits, StartVisit(v) \/ VisitStep(v) \/ CancelVisit(v)
      PROVE  Serial!Next \/ UNCHANGED Serial!vars
  BY <1>4, VisitSerialises
<1>5. CASE \/ \E o \in orphans : RunOrphan(o) \/ RunOrphanVisit(o)
           \/ \E op \in {"create", "update", "delete"}, i \in Ids : EditDocument(op, i)
  <2>1. ~Undisturbed /\ UNCHANGED calls
    BY <1>5 DEF RunOrphan, RunOrphanVisit, EditDocument, SerialInv, IsolationInv, Calm, Undisturbed
  <2> QED BY <2>1 DEF Serial!Next, Serial!Disturb, calls
<1>6. CASE AllEnded \/ UNCHANGED vars
  BY <1>6 DEF AllEnded, vars, host, gateway, calls, Serial!vars, Committed
<1> QED BY <1>1, <1>2, <1>3, <1>4, <1>5, <1>6 DEF Next

\* Seen from outside, the document is changed by one whole batch at a time,
\* whatever interleaving of commands, cancellations and visits made it so.
THEOREM GatewaySerialisesDocument == Spec => ImplementsSerialDocument
<1>1. Spec => Serial!Spec
  BY SerialInit, StepSerialises, SerialInvariant, PTL DEF Spec, Serial!Spec
<1> QED BY <1>1 DEF ImplementsSerialDocument
----------------------------------------------------------------------------
(* When a batch whose every command ran is answered completed *)

\* A batch that names only objects the document began with, and deletes none
\* that it edits.
Plain(script) ==
    /\ \A n \in DOMAIN script : script[n].target \in InitialObjects \cup {None}
    /\ \A m, n \in DOMAIN script :
          Edits(script[m]) /\ script[n].op = "delete" => script[m].target # script[n].target

EditsObject(script, i) == \E n \in DOMAIN script : Edits(script[n]) /\ script[n].target = i
Grew(before, now, i) == i \in DOMAIN now \cap DOMAIN before /\ now[i] > before[i]

\* Ids are never assigned twice.
Ages == InitialObjects \cup DOMAIN doc \subseteq born

\* What was not there when a batch began is none of the objects the document
\* began with, and versions only grow.
Since(before, now, ids) ==
    /\ DOMAIN before \subseteq ids
    /\ DOMAIN now \cap InitialObjects \subseteq DOMAIN before
    /\ \A i \in DOMAIN now \cap DOMAIN before : now[i] >= before[i]

\* The scene shows what the locals of _execute_once say was done.
Shows(now, ids, script, l) ==
    /\ \A i \in l.edited : Grew(l.before, now, i) /\ EditsObject(script, i)
    /\ l.removed \subseteq ids \ DOMAIN now
    /\ DOMAIN l.aliases = Aliases
    /\ Bound(l.aliases) \subseteq DOMAIN now
    /\ \A i \in Bound(l.aliases) : i \in InitialObjects => EditsObject(script, i)
    /\ (\E n \in 1..l.done : Binds(script[n])) => Bound(l.aliases) # {}

\* And what the command being performed has done, once it has run.
Performs(now, ids, cmd, sent, before) ==
    /\ sent.op = cmd.op /\ sent.target = cmd.target
    /\ sent.answer = "ok" =>
          /\ cmd.op = "delete" => cmd.target \in ids \ DOMAIN now
          /\ Edits(cmd) => sent.id = cmd.target /\ Grew(before, now, cmd.target)
          /\ cmd.op \in {"create", "derive"} => sent.id \in DOMAIN now \ InitialObjects

Visible(c) ==
    Undisturbed /\ Plain(Script(c)) =>
        /\ pc[c] \in {"sent", "after"} =>
              Since(work[c].before, doc, born) /\ Shows(doc, born, Script(c), work[c])
        /\ pc[c] = "sent" =>
              Performs(doc, born, Script(c)[Position(c)], wire[c], work[c].before)
        /\ pc[c] = "after" /\ work[c].done = Len(Script(c)) => work[c].trouble = "none"
        /\ pc[c] = "returned" /\ work[c].done = Len(Script(c)) => result[c].status = "completed"

VisibleInv == Ages /\ \A c \in Calls : Visible(c)

LEMMA AgesStep ==
  ASSUME Ages, [Next]_vars
  PROVE  Ages' /\ born \subseteq born'
<1>1. ASSUME NEW op, NEW i, Run(op, i) PROVE Ages' /\ born \subseteq born'
  BY <1>1 DEF Ages, Run, Put, Drop
<1>2. ASSUME NEW v, Perform(v) PROVE Ages' /\ born \subseteq born'
  BY <1>2 DEF Ages, Perform
<1>3. CASE UNCHANGED <<doc, born>>
  BY <1>3 DEF Ages
<1>4. \/ \E op, i : Run(op, i)
      \/ \E v : Perform(v)
      \/ UNCHANGED <<doc, born>>
  <2>1. ASSUME NEW c \in Calls, NEW a \in Arguments(c), Invoke(c, a) PROVE UNCHANGED <<doc, born>>
    BY <2>1 DEF Invoke, ReplayReceipt, JoinInflight, AnswerWithoutHost, BeginExecution, host
  <2>2. ASSUME NEW c \in Calls, CallStep(c) \/ CancelCall(c), ~RunSentCommand(c)
        PROVE  UNCHANGED <<doc, born>>
    BY <2>2 DEF CallStep, ResumeWaiter, AcquireLock, ReadCapabilities, RefuseIncompatiblePlugin, ReadBefore,
         RefuseStaleRevision, ReceiveResult, CommandFails, AnswerIsMalformed, LoseResponse, ReadAfter,
         ReadFails, CancelCall, host
  <2>3. ASSUME NEW q \in Queries, StartQuery(q) \/ QueryStep(q) PROVE UNCHANGED <<doc, born>>
    BY <2>3 DEF StartQuery, QueryStep, AnswerFromCache, LockForIndex, IndexScene, IndexFails, host
  <2>4. ASSUME NEW v \in Visits, StartVisit(v) \/ VisitStep(v) \/ CancelVisit(v), ~RunVisit(v)
        PROVE  UNCHANGED <<doc, born>>
    BY <2>4 DEF StartVisit, VisitStep, LockForVisit, AskRhino, ReceiveVisit, LoseVisit, CheckOpened,
         VisitFails, CancelVisit, host
  <2>5. (\E c \in Calls : RunSentCommand(c)) => \E op, i : Run(op, i)
    BY DEF RunSentCommand
  <2>6. (\E v \in Visits : RunVisit(v)) => \E v : Perform(v)
    BY DEF RunVisit
  <2>7. (\E o \in orphans : RunOrphan(o)) => \E op, i : Run(op, i)
    BY DEF RunOrphan
  <2>8. (\E o \in orphans : RunOrphanVisit(o)) => \E v : Perform(v)
    BY DEF RunOrphanVisit
  <2>9. (\E op \in {"create", "update", "delete"}, i \in Ids : EditDocument(op, i)) => \E op, i : Run(op, i)
    BY DEF EditDocument
  <2>10. AllEnded \/ UNCHANGED vars => UNCHANGED <<doc, born>>
    BY DEF AllEnded, vars, host
  <2> QED BY <2>1, <2>2, <2>3, <2>4, <2>5, <2>6, <2>7, <2>8, <2>9, <2>10 DEF Next
<1> QED BY <1>1, <1>2, <1>3, <1>4

\* A command of a plain batch keeps what the scene showed before, and shows.
LEMMA RunShows ==
  ASSUME Ages, IsScene(doc), NEW before, IsScene(before), Since(before, doc, born),
         NEW script, Plain(script), NEW l, l.before = before, Shows(doc, born, script, l),
         NEW n \in DOMAIN script, script[n] \in Command,
         NEW i \in Ids, CanRun(script[n].op, script[n].target, i), Run(script[n].op, i)
  PROVE  /\ Since(before, doc', born') /\ Shows(doc', born', script, l)
         /\ script[n].op = "delete" => script[n].target \in born' \ DOMAIN doc'
         /\ Edits(script[n]) => i = script[n].target /\ Grew(before, doc', i)
         /\ script[n].op \in {"create", "derive"} => i \in DOMAIN doc' \ InitialObjects
<1> DEFINE op == script[n].op
           target == script[n].target
<1>0. /\ op \in CommandOps /\ None \notin Ids /\ target \in InitialObjects \cup {None}
      /\ InitialObjects \cup DOMAIN doc \subseteq born
  BY GatewayAssumption DEF Command, Plain, Ages
<1>1. CASE op = "delete"
  <2>1. i = target /\ i \in InitialObjects /\ doc' = Drop(doc, i) /\ born' = born \cup {i}
    BY <1>0, <1>1 DEF CanRun, Run
  <2>2. ~EditsObject(script, i)
    BY <1>1, <2>1 DEF Plain, EditsObject
  <2>3. DOMAIN doc' = DOMAIN doc \ {i} /\ \A j \in DOMAIN doc' : doc'[j] = doc[j]
    BY <2>1 DEF Drop
  <2>4. Since(before, doc', born')
    BY <2>1, <2>3 DEF Since
  <2>5. Shows(doc', born', script, l)
    BY <2>1, <2>2, <2>3 DEF Shows, Grew
  <2> QED BY <1>1, <2>1, <2>3, <2>4, <2>5 DEF Edits
<1>2. CASE op \in {"update", "transform"}
  <2>1. /\ i = target /\ i \in DOMAIN doc /\ i \in DOMAIN before /\ doc[i] >= before[i]
        /\ doc[i] \in Nat /\ before[i] \in Nat
    BY <1>0, <1>2 DEF CanRun, Edits, Since, IsScene
  <2>2. doc' = Put(doc, i, doc[i] + 1) /\ born' = born \cup {i}
    BY <1>2, <2>1 DEF Run
  <2>3. DOMAIN doc' = DOMAIN doc /\ doc'[i] = doc[i] + 1 /\ \A j \in DOMAIN doc : j # i => doc'[j] = doc[j]
    BY <2>1, <2>2 DEF Put
  <2>4. Grew(before, doc', i)
    BY <2>1, <2>3 DEF Grew
  <2>5. Since(before, doc', born')
    BY <2>1, <2>2, <2>3 DEF Since
  <2>6. Shows(doc', born', script, l)
    <3>1. \A j \in l.edited : Grew(before, doc', j)
      BY <2>3, <2>4 DEF Shows, Grew
    <3> QED BY <2>2, <2>3, <3>1 DEF Shows
  <2> QED BY <1>2, <2>1, <2>4, <2>5, <2>6
<1>3. CASE op \in {"create", "derive"}
  <2>1. i \notin born /\ doc' = Put(doc, i, 1) /\ born' = born \cup {i}
    BY <1>0, <1>3 DEF CanRun, Run
  <2>2. DOMAIN doc' = DOMAIN doc \cup {i} /\ \A j \in DOMAIN doc : doc'[j] = doc[j]
    BY <1>0, <2>1 DEF Put
  <2>3. i \notin InitialObjects /\ i \notin DOMAIN before /\ i \notin DOMAIN doc
    BY <1>0, <2>1 DEF Since
  <2>4. Since(before, doc', born')
    BY <2>1, <2>2, <2>3 DEF Since
  <2>5. Shows(doc', born', script, l)
    <3>1. \A j \in l.edited : Grew(before, doc', j)
      BY <2>2, <2>3 DEF Shows, Grew
    <3> QED BY <2>1, <2>2, <3>1 DEF Shows
  <2> QED BY <1>3, <2>2, <2>3, <2>4, <2>5 DEF Edits
<1> QED BY <1>0, <1>1, <1>2, <1>3 DEF CommandOps

Bind(aliases, a, i) == [aliases EXCEPT ![a] = @ \cup {i}]

\* Binding an id to an alias adds the id to those bound.
LEMMA BindAlias ==
  ASSUME NEW aliases, DOMAIN aliases = Aliases, NEW a \in Aliases, NEW i
  PROVE  Bound(Bind(aliases, a, i)) = Bound(aliases) \cup {i}
<1> DEFINE bound == Bind(aliases, a, i)
<1>1. /\ DOMAIN bound = Aliases /\ bound[a] = aliases[a] \cup {i}
      /\ \A b \in Aliases : b # a => bound[b] = aliases[b]
  BY DEF Bind
<1> HIDE DEF bound
<1>2. ASSUME NEW j \in Bound(bound) PROVE j \in Bound(aliases) \cup {i}
  <2>1. PICK b \in Aliases : j \in bound[b]
    BY DEF Bound
  <2>2. j \in aliases[b] \/ j = i
    BY <1>1, <2>1
  <2> QED BY <2>2 DEF Bound
<1>3. ASSUME NEW j \in Bound(aliases) PROVE j \in Bound(bound)
  <2>1. PICK b \in Aliases : j \in aliases[b]
    BY DEF Bound
  <2>2. j \in bound[b]
    BY <1>1, <2>1
  <2> QED BY <2>2 DEF Bound
<1>4. i \in Bound(bound)
  BY <1>1 DEF Bound
<1>5. Bound(bound) = Bound(aliases) \cup {i}
  BY <1>2, <1>3, <1>4
<1> QED BY <1>5 DEF bound

\* A usable answer is remembered as what the scene shows.
LEMMA LearntShows ==
  ASSUME NEW c \in Calls, NEW cmd, cmd = Script(c)[Position(c)], cmd \in Command,
         Position(c) \in DOMAIN Script(c), work[c].done \in Nat,
         Shows(doc, born, Script(c), work[c]),
         Performs(doc, born, cmd, wire[c], work[c].before), wire[c].answer = "ok"
  PROVE  Shows(doc, born, Script(c), Learnt(c))
<1> DEFINE old == work[c]
           new == Learnt(c)
           sent == wire[c]
<1>1. /\ new.before = old.before /\ new.done = old.done + 1
      /\ new.aliases = IF Binds(cmd) THEN [old.aliases EXCEPT ![cmd.bind] = @ \cup {sent.id}] ELSE old.aliases
      /\ new.edited = IF Edits(cmd) THEN old.edited \cup {sent.target} ELSE old.edited
      /\ new.removed = IF cmd.op = "delete" THEN old.removed \cup {sent.target} ELSE old.removed
  BY DEF Learnt
<1>2. /\ sent.target = cmd.target /\ cmd.bind \in Aliases /\ DOMAIN old.aliases = Aliases
      /\ cmd.op = "delete" => cmd.target \in born \ DOMAIN doc
      /\ Edits(cmd) => sent.id = cmd.target /\ Grew(old.before, doc, cmd.target)
      /\ cmd.op \in {"create", "derive"} => sent.id \in DOMAIN doc \ InitialObjects
  BY DEF Performs, Shows, Command
<1>3. Edits(cmd) => EditsObject(Script(c), cmd.target)
  BY DEF EditsObject
<1>4. DOMAIN new.aliases = Aliases
  BY <1>1, <1>2
<1>5. ASSUME Binds(cmd) PROVE Bound(new.aliases) = Bound(old.aliases) \cup {sent.id}
  <2>1. cmd.bind \in Aliases /\ DOMAIN work[c].aliases = Aliases
    BY <1>2
  <2>2. Bound(Bind(work[c].aliases, cmd.bind, wire[c].id)) = Bound(work[c].aliases) \cup {wire[c].id}
    BY <2>1, BindAlias
  <2>3. new.aliases = Bind(work[c].aliases, cmd.bind, wire[c].id)
    BY <1>1, <1>5 DEF Bind
  <2> HIDE DEF new
  <2> QED BY <2>2, <2>3
<1>6. Binds(cmd) => /\ sent.id \in DOMAIN doc
                    /\ sent.id \in InitialObjects => EditsObject(Script(c), sent.id)
  BY <1>2, <1>3 DEF Binds, Edits, Grew
<1>7. ~Binds(cmd) => new.aliases = old.aliases
  BY <1>1
<1> HIDE DEF new
<1>8. Bound(new.aliases) \subseteq DOMAIN doc
  BY <1>5, <1>6, <1>7 DEF Shows
<1>9. \A i \in Bound(new.aliases) : i \in InitialObjects => EditsObject(Script(c), i)
  BY <1>5, <1>6, <1>7 DEF Shows
<1>10. (\E n \in 1..new.done : Binds(Script(c)[n])) => Bound(new.aliases) # {}
  <2> SUFFICES ASSUME NEW n \in 1..new.done, Binds(Script(c)[n]) PROVE Bound(new.aliases) # {}
    OBVIOUS
  <2>0. n \in 1..old.done \/ n = old.done + 1
    <3> DEFINE d == old.done
    <3>1. d \in Nat /\ n \in 1..(d + 1)
      BY <1>1
    <3> HIDE DEF d
    <3>2. n \in 1..d \/ n = d + 1
      BY <3>1
    <3> QED BY <3>2 DEF d
  <2>1. CASE n \in 1..old.done
    BY <1>5, <1>7, <2>1 DEF Shows
  <2>2. CASE n = old.done + 1
    BY <1>5, <2>2 DEF Position
  <2> QED BY <2>0, <2>1, <2>2
<1>11. \A i \in new.edited : Grew(new.before, doc, i) /\ EditsObject(Script(c), i)
  BY <1>1, <1>2, <1>3 DEF Shows
<1>12. new.removed \subseteq born \ DOMAIN doc
  BY <1>1, <1>2 DEF Shows
<1> QED BY <1>4, <1>8, <1>9, <1>10, <1>11, <1>12 DEF Shows, new

\* Whatever Proceed does next, it carries along what the scene shows.
LEMMA ProceedVisible ==
  ASSUME TypeInv, NEW c \in Calls, NEW l, Proceed(c, l), IsLocals(l), l.trouble = "none",
         Since(l.before, doc, born), Shows(doc, born, Script(c), l), Plain(Script(c)),
         l.done < Len(Script(c)) \/ l.done = Len(Script(c)),
         UNCHANGED <<doc, born, req>>
  PROVE  Visible(c)'
<1> USE DEF TypeInv, CallsTyped
<1>0. /\ c \in Tasks /\ Script(c)' = Script(c) /\ Script(c) \in Seq(Command)
      /\ l.done \in Nat /\ DOMAIN Script(c) = 1..Len(Script(c)) /\ Len(Script(c)) \in Nat
  BY GatewayAssumption DEF Tasks, Script, IsLocals
<1>1. CASE l.done = Len(Script(c))
  <2>1. pc'[c] = "after" /\ work'[c] = l
    BY <1>0, <1>1 DEF Proceed
  <2> QED BY <1>0, <2>1 DEF Visible
<1>2. CASE l.done # Len(Script(c))
  <2> DEFINE next == Script(c)[l.done + 1]
  <2>1. next \in Command /\ l.done + 1 \in DOMAIN Script(c)
    BY <1>0, <1>2
  <2>2. next.target \notin Aliases
    BY <2>1, GatewayAssumption DEF Plain
  <2>3. Resolvable(next.target, l.aliases) /\ Resolve(next.target, l.aliases) = next.target
    BY <2>2 DEF Resolvable, Resolve
  <2>4. /\ pc'[c] = "sent" /\ work'[c] = l
        /\ wire'[c] = [op |-> next.op, target |-> next.target, answer |-> "none", id |-> None]
    BY <1>0, <1>2, <2>3 DEF Proceed, Put
  <2>5. Position(c)' = l.done + 1
    BY <2>4 DEF Position
  <2>6. Performs(doc, born, next, wire'[c], l.before)
    BY <2>4 DEF Performs
  <2> QED BY <1>0, <2>4, <2>5, <2>6 DEF Visible
<1> QED BY <1>1, <1>2

\* What the scene shows is what _verify_transaction asks for.
LEMMA VerdictCompletes ==
  ASSUME NEW c \in Calls, Shows(doc, born, Script(c), work[c]), Script(c) \in Seq(Command),
         work[c].done = Len(Script(c)), work[c].trouble = "none",
         IsScene(doc), IsScene(work[c].before)
  PROVE  Verdict(c) = "completed"
<1>1. OutputIds(c) = Bound(work[c].aliases)
  BY DEF OutputIds
<1>2. Bound(work[c].aliases) # {} \/ \A n \in DOMAIN Script(c) : ~Binds(Script(c)[n])
  BY DEF Shows
<1>3. Bound(work[c].aliases) \cup work[c].edited \subseteq DOMAIN doc
  BY DEF Shows, Grew
<1>4. work[c].edited \subseteq ModifiedIds(work[c].before, doc)
  <2> SUFFICES ASSUME NEW i \in work[c].edited PROVE i \in ModifiedIds(work[c].before, doc)
    OBVIOUS
  <2>1. /\ i \in DOMAIN doc /\ i \in DOMAIN work[c].before /\ doc[i] > work[c].before[i]
        /\ doc[i] \in Nat /\ work[c].before[i] \in Nat
    BY DEF Shows, Grew, IsScene
  <2> QED BY <2>1 DEF ModifiedIds
<1>5. work[c].removed \cap DOMAIN doc = {}
  BY DEF Shows
<1>6. Verified(c)
  BY <1>1, <1>2, <1>3, <1>4, <1>5 DEF Verified
<1> QED BY <1>6 DEF Verdict

\* The document of a batch at work changes by its own commands only.
LEMMA VisibleFrame ==
  ASSUME IsolationInv, Ages, NEW c \in Calls, Visible(c), Next,
         ~\E a \in Arguments(c) : Invoke(c, a), ~CallStep(c), ~CancelCall(c)
  PROVE  Visible(c)'
<1> SUFFICES ASSUME Undisturbed, Plain(Script(c))' PROVE Visible(c)'
  BY DEF Visible, Undisturbed
<1>0. /\ pc'[c] = pc[c] /\ req'[c] = req[c] /\ work'[c] = work[c] /\ Script(c)' = Script(c)
      /\ c \in DOMAIN result => result'[c] = result[c]
      /\ pc[c] = "returned" => c \in DOMAIN result
      /\ Position(c)' = Position(c)
  BY CallFrame DEF IsolationInv, KeyInv, Answers, Script, Position
<1>1. pc[c] = "sent" => wire'[c] = wire[c]
  <2>1. ~\E o \in orphans : o.by = c /\ RunOrphan(o)
    BY DEF IsolationInv, Calm
  <2> QED BY <2>1, HistoryFrame DEF IsolationInv
<1>2. pc[c] \in {"sent", "after"} => doc' = doc
  <2> SUFFICES ASSUME pc[c] \in {"sent", "after"} PROVE doc' = doc
    OBVIOUS
  <2>1. ASSUME NEW d \in Calls, RunSentCommand(d) PROVE FALSE
    <3>1. d = c
      BY <2>1, OneInside DEF RunSentCommand, IsolationInv, Locked, Tasks
    <3> QED BY <2>1, <3>1 DEF CallStep
  <2>2. ASSUME NEW v \in Visits, RunVisit(v) PROVE FALSE
    BY <2>2, OneInside, GatewayAssumption DEF RunVisit, IsolationInv, Locked, Tasks
  <2> QED BY <2>1, <2>2, DocumentStep DEF IsolationInv
<1>3. born \subseteq born'
  BY AgesStep
<1>4. Plain(Script(c))
  BY <1>0
<1>5. ASSUME NEW now, NEW script, NEW l, Shows(now, born, script, l) PROVE Shows(now, born', script, l)
  BY <1>3, <1>5 DEF Shows
<1>6. ASSUME NEW now, NEW before, Since(before, now, born) PROVE Since(before, now, born')
  BY <1>3, <1>6 DEF Since
<1>7. ASSUME NEW now, NEW cmd, NEW sent, NEW before, Performs(now, born, cmd, sent, before)
      PROVE  Performs(now, born', cmd, sent, before)
  BY <1>3, <1>7 DEF Performs
<1>8. pc'[c] \in {"sent", "after"} =>
         Since(work'[c].before, doc', born') /\ Shows(doc', born', Script(c)', work'[c])
  BY <1>0, <1>2, <1>4, <1>5, <1>6 DEF Visible
<1>9. pc'[c] = "sent" =>
         Performs(doc', born', Script(c)'[Position(c)'], wire'[c], work'[c].before)
  BY <1>0, <1>1, <1>2, <1>4, <1>7 DEF Visible
<1> QED BY <1>0, <1>4, <1>8, <1>9 DEF Visible

LEMMA VisibleCallStep ==
  ASSUME IsolationInv, StatusInv, Ages, NEW c \in Calls, Visible(c),
         CallStep(c) \/ CancelCall(c) \/ \E a \in Arguments(c) : Invoke(c, a)
  PROVE  Visible(c)'
<1> SUFFICES ASSUME Undisturbed, Plain(Script(c))' PROVE Visible(c)'
  BY DEF Visible, Undisturbed
<1> USE DEF IsolationInv, TypeInv, CallsTyped
<1>0. /\ c \in Tasks /\ IsLocals(work[c]) /\ work[c].done \in Nat /\ IsScene(doc) /\ IsScene(work[c].before)
      /\ Progress(c)
      /\ Script(c) \in Seq(Command) /\ Len(Script(c)) \in Nat \ {0} /\ DOMAIN Script(c) = 1..Len(Script(c))
      /\ pc[c] = "sent" => /\ work[c].done < Len(Script(c)) /\ Position(c) \in DOMAIN Script(c)
                           /\ c \in DOMAIN wire /\ wire[c] \in Written
  BY GatewayAssumption DEF Tasks, Script, IsLocals, HostTyped, WorkersTyped, StatusInv, Position
<1>1. CASE \/ ResumeWaiter(c) \/ AcquireLock(c) \/ ReadCapabilities(c)
           \/ ReadFails(c) \/ CancelCall(c)
  <2>1. pc'[c] \notin {"sent", "after", "returned"}
    BY <1>0, <1>1 DEF ResumeWaiter, AcquireLock, ReadCapabilities, ReadFails, CancelCall, Ended
  <2> QED BY <2>1 DEF Visible
<1>2. CASE RefuseIncompatiblePlugin(c) \/ RefuseStaleRevision(c)
  <2>1. pc'[c] = "returned" /\ work'[c] = work[c] /\ work[c].done = 0 /\ Script(c)' = Script(c)
    BY <1>0, <1>2 DEF RefuseIncompatiblePlugin, RefuseStaleRevision, Progress, Untouched, Script
  <2> QED BY <1>0, <2>1 DEF Visible
<1>3. CASE \E a \in Arguments(c) : Invoke(c, a)
  <2>1. /\ pc'[c] \notin {"sent", "after"} /\ work'[c] = work[c] /\ work[c].done = 0
    BY <1>0, <1>3
       DEF Invoke, ReplayReceipt, JoinInflight, AnswerWithoutHost, BeginExecution, Progress, Untouched
  <2>2. Script(c)' \in Seq(Command) \ {<<>>}
    <3>1. req'[c].payload \in Payloads
      BY <1>3 DEF Invoke, ReplayReceipt, JoinInflight, AnswerWithoutHost, BeginExecution, Arguments
    <3> QED BY <3>1, GatewayAssumption DEF Script
  <2>3. Len(Script(c)') # 0
    BY <2>2
  <2> QED BY <2>1, <2>3 DEF Visible
<1>4. CASE ReadBefore(c)
  <2> DEFINE l == [Blank EXCEPT !.before = doc]
  <2>1. /\ IsLocals(l) /\ l.trouble = "none" /\ l.done = 0 /\ l.before = doc
        /\ l.edited = {} /\ l.removed = {} /\ l.aliases = [a \in Aliases |-> {}]
    BY <1>0 DEF IsLocals, Blank
  <2>2. Proceed(c, l) /\ UNCHANGED <<doc, born, req>> /\ Plain(Script(c))
    BY <1>4 DEF ReadBefore, host, Script
  <2> HIDE DEF l
  <2>3. Since(l.before, doc, born)
    <3>1. \A i \in DOMAIN doc : doc[i] >= doc[i]
      BY <1>0 DEF IsScene
    <3> QED BY <2>1, <3>1 DEF Since, Ages
  <2>4. Bound(l.aliases) = {}
    BY <2>1 DEF Bound
  <2>5. Shows(doc, born, Script(c), l)
    <3>1. 1..l.done = {} /\ DOMAIN l.aliases = Aliases
      BY <2>1
    <3> QED BY <2>1, <2>4, <3>1 DEF Shows
  <2> QED BY <1>0, <2>1, <2>2, <2>3, <2>5, ProceedVisible
<1>5. CASE ReceiveResult(c)
  <2> DEFINE l == Learnt(c)
  <2>1. /\ Proceed(c, l) /\ UNCHANGED <<doc, born, req>> /\ Plain(Script(c)) /\ pc[c] = "sent"
        /\ wire[c].answer = "ok"
    BY <1>5 DEF ReceiveResult, host, Script
  <2>2. /\ IsLocals(l) /\ l.trouble = work[c].trouble /\ l.done = work[c].done + 1
        /\ l.before = work[c].before
    BY <1>0 DEF IsLocals, Blank, Learnt
  <2>3. work[c].trouble = "none" /\ l.done <= Len(Script(c)) /\ Script(c)[Position(c)] \in Command
    BY <1>0, <2>1, <2>2 DEF Progress
  <2>4. /\ Since(work[c].before, doc, born) /\ Shows(doc, born, Script(c), work[c])
        /\ Performs(doc, born, Script(c)[Position(c)], wire[c], work[c].before)
    BY <2>1 DEF Visible
  <2>5. Shows(doc, born, Script(c), Learnt(c))
    BY <1>0, <2>1, <2>3, <2>4, LearntShows
  <2>6. l.done < Len(Script(c)) \/ l.done = Len(Script(c))
    BY <1>0, <2>2, <2>3
  <2>7. Shows(doc, born, Script(c), l)
    BY <2>5
  <2> HIDE DEF l
  <2> QED BY <2>1, <2>2, <2>3, <2>4, <2>6, <2>7, ProceedVisible
<1>6. CASE RunSentCommand(c)
  <2>1. /\ pc[c] = "sent" /\ pc' = pc /\ work' = work /\ req' = req /\ wire[c].answer = "none"
        /\ Script(c)' = Script(c) /\ Position(c)' = Position(c)
    BY <1>6 DEF RunSentCommand, Script, Position
  <2>2. PICK i \in Ids : /\ CanRun(wire[c].op, wire[c].target, i) /\ Run(wire[c].op, i)
                         /\ wire' = [wire EXCEPT ![c].answer = "ok", ![c].id = i]
    BY <1>6 DEF RunSentCommand
  <2>3. wire'[c].op = wire[c].op /\ wire'[c].target = wire[c].target /\ wire'[c].id = i
    BY <1>0, <2>1, <2>2 DEF Written
  <2> DEFINE cmd == Script(c)[Position(c)]
  <2>4. /\ Since(work[c].before, doc, born) /\ Shows(doc, born, Script(c), work[c])
        /\ wire[c].op = cmd.op /\ wire[c].target = cmd.target /\ Plain(Script(c))
    BY <2>1 DEF Visible, Performs
  <2>5. Position(c) \in DOMAIN Script(c) /\ cmd \in Command
    BY <1>0, <2>1
  <2>6. /\ Since(work[c].before, doc', born') /\ Shows(doc', born', Script(c), work[c])
        /\ cmd.op = "delete" => cmd.target \in born' \ DOMAIN doc'
        /\ Edits(cmd) => i = cmd.target /\ Grew(work[c].before, doc', i)
        /\ cmd.op \in {"create", "derive"} => i \in DOMAIN doc' \ InitialObjects
    BY <1>0, <2>2, <2>4, <2>5, RunShows
  <2>7. Performs(doc', born', cmd, wire'[c], work[c].before)
    BY <2>3, <2>4, <2>6 DEF Performs
  <2> QED BY <2>1, <2>6, <2>7 DEF Visible
<1>7. CASE CommandFails(c) \/ AnswerIsMalformed(c)
  <2>1. /\ pc[c] = "sent" /\ pc'[c] = "after" /\ work' = [work EXCEPT ![c].trouble = "failed"]
        /\ UNCHANGED <<doc, born, req>> /\ Script(c)' = Script(c)
    BY <1>0, <1>7 DEF CommandFails, AnswerIsMalformed, Interrupt, host, Script
  <2>2. /\ work'[c].done = work[c].done /\ work'[c].before = work[c].before
        /\ work'[c].edited = work[c].edited /\ work'[c].removed = work[c].removed
        /\ work'[c].aliases = work[c].aliases
    BY <1>0, <2>1 DEF IsLocals, Blank
  <2>3. Since(work'[c].before, doc', born') /\ Shows(doc', born', Script(c)', work'[c])
    BY <2>1, <2>2 DEF Visible, Shows
  <2> QED BY <1>0, <2>1, <2>2, <2>3 DEF Visible
<1>8. ~LoseResponse(c)
  BY DEF LoseResponse, Undisturbed
<1>9. CASE ReadAfter(c)
  <2>1. /\ pc[c] = "after" /\ pc'[c] = "returned" /\ result'[c].status = Verdict(c)
        /\ Script(c)' = Script(c) /\ Forget(c)
    BY <1>0, <1>9 DEF ReadAfter, Return, Put, NewReceipt, Script
  <2>2. work'[c].done = work[c].done
    BY <1>0, <2>1 DEF Forget, Blank
  <2>3. work[c].done = Len(Script(c)) => Verdict(c) = "completed"
    BY <1>0, <2>1, VerdictCompletes DEF Visible
  <2> QED BY <2>1, <2>2, <2>3 DEF Visible
<1> QED BY <1>1, <1>2, <1>3, <1>4, <1>5, <1>6, <1>7, <1>8, <1>9 DEF CallStep

LEMMA VisibleInvariant == Spec => []VisibleInv
<1>1. Init => VisibleInv
  <2>1. Init => Ages
    BY DEF Init, Ages
  <2>2. Init => \A c \in Calls : Visible(c)
    BY DEF Init, Visible, Tasks
  <2> QED BY <2>1, <2>2 DEF VisibleInv
<1>2. IsolationInv /\ StatusInv /\ VisibleInv /\ [Next]_vars => VisibleInv'
  <2> SUFFICES ASSUME IsolationInv, StatusInv, VisibleInv, [Next]_vars, NEW c \in Calls
               PROVE  Visible(c)'
    BY AgesStep DEF VisibleInv
  <2>1. CASE UNCHANGED vars
    BY <2>1 DEF vars, host, calls, VisibleInv, Visible, Script, Position
  <2>2. CASE Next
    BY <2>2, VisibleFrame, VisibleCallStep DEF VisibleInv
  <2> QED BY <2>1, <2>2
<1> QED BY <1>1, <1>2, IsolationInvariant, StatusInvariant, PTL DEF Spec

\* The transport document's reading, unknown answers a lost response, is met by
\* plain batches nobody disturbs: when Rhino acknowledged every command, the
\* verification of the second scene succeeds and the status is completed.  The
\* batches it fails for create an object and then name it, or delete what they
\* edited.
THEOREM PlainBatchesComplete ==
  Spec => [](Undisturbed =>
               \A c \in Calls :
                  /\ Plain(Script(c)) /\ pc[c] = "returned" /\ work[c].done = Len(Script(c))
                  => result[c].status = "completed")
<1>1. VisibleInv =>
        (Undisturbed =>
           \A c \in Calls :
              /\ Plain(Script(c)) /\ pc[c] = "returned" /\ work[c].done = Len(Script(c))
              => result[c].status = "completed")
  BY DEF VisibleInv, Visible
<1> QED BY <1>1, VisibleInvariant, PTL
----------------------------------------------------------------------------
(* Why every coroutine can end: what liveness rests on without fairness *)

Live(t) == pc[t] \notin {"idle"} \cup Ended

\* What a coroutine awaits is there: the next step of its code can be taken.
CanStep(t) ==
    \/ pc[t] = "waiting" /\ pc[future[t]] \in Ended
    \/ pc[t] = "locking" /\ lock = None
    \/ pc[t] \in Locked \ {"sent"}
    \/ pc[t] = "sent" /\ wire[t].answer \in {"none", "ok"}

\* Whom a coroutine waits for: the owner of a future, or the lock's holder.
Awaited(t) ==
    IF pc[t] = "waiting" THEN {future[t]}
    ELSE IF pc[t] = "locking" THEN {lock} \ {None}
    ELSE {}

\* Behind every coroutine that has started and not ended, two waits away at
\* most, is one that can take its next step: nobody waits in a circle, for a
\* lock that nobody holds or for a future that nobody will set.
NobodyIsStuck ==
    \A t \in Tasks :
        Live(t) =>
            \/ CanStep(t)
            \/ \E u \in Awaited(t) \cap Tasks :
                  CanStep(u) \/ \E w \in Awaited(u) \cap Tasks : CanStep(w)

\* The steps a coroutine has left at most, each command counted twice: Rhino
\* runs it and the answer is received.
CallStepsLeft(c) ==
    IF pc[c] \in Ended THEN 0
    ELSE IF pc[c] \in {"waiting", "after"} THEN 1
    ELSE IF pc[c] = "sent"
    THEN 2 * (Len(Script(c)) - work[c].done) + (IF wire[c].answer = "none" THEN 1 ELSE 0)
    ELSE 2 * Len(Script(c)) + (IF pc[c] = "before" THEN 2 ELSE IF pc[c] = "capabilities" THEN 3 ELSE 4)

QueryStepsLeft(q) == IF pc[q] \in Ended THEN 0 ELSE IF pc[q] = "indexing" THEN 1 ELSE 2

VisitStepsLeft(v) ==
    IF pc[v] \in Ended THEN 0
    ELSE IF pc[v] = "checking" THEN 1
    ELSE IF pc[v] = "sent" THEN (IF wire[v].answer = "none" THEN 3 ELSE 2)
    ELSE IF pc[v] = "capabilities" THEN 4 ELSE 5

Shrinks(before, after, steps) ==
    /\ before \in Nat /\ after \in Nat
    /\ after <= before
    /\ steps => after < before

\* A started coroutine has finitely many steps left.  Each of its own steps
\* makes them fewer, nothing anybody else does makes them more, and none of
\* them starts again.
EachStepIsNearer ==
    [][/\ \A c \in Calls : pc[c] # "idle" =>
             pc'[c] # "idle" /\ Shrinks(CallStepsLeft(c), CallStepsLeft(c)', CallStep(c))
       /\ \A q \in Queries : pc[q] # "idle" =>
             pc'[q] # "idle" /\ Shrinks(QueryStepsLeft(q), QueryStepsLeft(q)', QueryStep(q))
       /\ \A v \in Visits : pc[v] # "idle" =>
             pc'[v] # "idle" /\ Shrinks(VisitStepsLeft(v), VisitStepsLeft(v)', VisitStep(v))]_vars

\* What tasks of each kind wait for: only calls join a future, and each kind
\* has its own places inside the lock.
Places ==
    /\ \A q \in Queries : pc[q] \in {"idle", "locking", "indexing"} \cup Ended
    /\ \A v \in Visits : pc[v] \in {"idle", "locking", "capabilities", "sent", "checking"} \cup Ended

LEMMA PlacesInvariant == Spec => []Places
<1>1. Init => Places
  BY DEF Init, Places, Tasks
<1>2. TypeInv /\ Places /\ [Next]_vars => Places'
  <2> SUFFICES ASSUME TypeInv, Places, [Next]_vars PROVE Places'
    OBVIOUS
  <2> USE GatewayAssumption DEF TypeInv, CallsTyped, Tasks, Places
  <2>1. ASSUME NEW c \in Calls, NEW a \in Arguments(c), Invoke(c, a) PROVE Places'
    <3>1. \A t \in Tasks : t # c => pc'[t] = pc[t]
      BY <2>1 DEF Invoke, ReplayReceipt, JoinInflight, AnswerWithoutHost, BeginExecution
    <3> QED BY <3>1
  <2>2. ASSUME NEW c \in Calls, CallStep(c) \/ CancelCall(c) PROVE Places'
    <3>1. \A t \in Tasks : t # c => pc'[t] = pc[t]
      BY <2>2 DEF CallStep, ResumeWaiter, AcquireLock, ReadCapabilities, RefuseIncompatiblePlugin, ReadBefore,
           RefuseStaleRevision, RunSentCommand, ReceiveResult, CommandFails, AnswerIsMalformed, LoseResponse,
           Interrupt, Proceed, ReadAfter, ReadFails, CancelCall
    <3> QED BY <3>1
  <2>3. ASSUME NEW q \in Queries, StartQuery(q) \/ QueryStep(q) PROVE Places'
    <3>1. /\ \A t \in Tasks : t # q => pc'[t] = pc[t]
          /\ pc'[q] \in {"locking", "indexing"} \cup Ended
      BY <2>3 DEF StartQuery, QueryStep, AnswerFromCache, LockForIndex, IndexScene, IndexFails, Ended
    <3> QED BY <3>1
  <2>4. ASSUME NEW v \in Visits, StartVisit(v) \/ VisitStep(v) \/ CancelVisit(v) PROVE Places'
    <3>1. /\ \A t \in Tasks : t # v => pc'[t] = pc[t]
          /\ pc'[v] \in {"locking", "capabilities", "sent", "checking"} \cup Ended
      BY <2>4 DEF StartVisit, VisitStep, LockForVisit, AskRhino, RunVisit, ReceiveVisit, LoseVisit, CheckOpened,
           VisitFails, CancelVisit, LeaveVisit, Ended
    <3> QED BY <3>1
  <2>5. CASE \/ \E o \in orphans : RunOrphan(o) \/ RunOrphanVisit(o)
             \/ \E op \in {"create", "update", "delete"}, i \in Ids : EditDocument(op, i)
             \/ AllEnded \/ UNCHANGED vars
    BY <2>5 DEF RunOrphan, RunOrphanVisit, EditDocument, AllEnded, vars, calls
  <2> QED BY <2>1, <2>2, <2>3, <2>4, <2>5 DEF Next
<1> QED BY <1>1, <1>2, IsolationInvariant, PTL DEF Spec, IsolationInv

\* The lock is held by a task inside it, and a task inside it can go on.
LEMMA HolderCanStep ==
  ASSUME TypeInv, Holders, lock # None
  PROVE  lock \in Tasks /\ CanStep(lock)
<1>1. lock \in Tasks /\ pc[lock] \in Locked
  BY DEF TypeInv, TablesTyped, Holders
<1>2. pc[lock] = "sent" => wire[lock].answer \in {"none", "ok"}
  BY <1>1 DEF TypeInv, WorkersTyped, Written
<1> QED BY <1>1, <1>2 DEF CanStep

\* No deadlock, for any number of calls, queries and visits: a waiter's owner
\* is at work or has ended, and whoever holds the lock can go on.
THEOREM GatewayNobodyIsStuck == Spec => []NobodyIsStuck
<1>1. ASSUME IsolationInv, Places PROVE NobodyIsStuck
  <2> SUFFICES ASSUME NEW t \in Tasks, Live(t)
               PROVE  \/ CanStep(t)
                      \/ \E u \in Awaited(t) \cap Tasks :
                            CanStep(u) \/ \E w \in Awaited(u) \cap Tasks : CanStep(w)
    BY DEF NobodyIsStuck
  <2>1. \A u \in Tasks : pc[u] = "locking" => CanStep(u) \/ \E w \in Awaited(u) \cap Tasks : CanStep(w)
    BY <1>1, HolderCanStep DEF IsolationInv, CanStep, Awaited
  <2>2. \A u \in Tasks : pc[u] \in Locked => CanStep(u)
    BY <1>1, HolderCanStep, GatewayAssumption DEF IsolationInv, Holders, Locked, Tasks
  <2>3. pc[t] \in {"locking", "waiting"} \cup Locked
    BY <1>1 DEF Live, IsolationInv, TypeInv, CallsTyped, Waiting
  <2>4. CASE pc[t] = "waiting"
    <3>1. /\ future[t] \in Calls
          /\ pc[future[t]] \in Busy \cup Ended
      BY <1>1, <2>4 DEF IsolationInv, KeyInv, Waiters, Ended, Places, Tasks
    <3> QED BY <2>1, <2>2, <2>4, <3>1 DEF CanStep, Awaited, Busy, Tasks
  <2> QED BY <2>1, <2>2, <2>3, <2>4
<1> QED BY <1>1, IsolationInvariant, PlacesInvariant, PTL

\* What is left to do at each place of a call.
LEMMA CallStepsAre ==
  ASSUME TypeInv, StatusInv, NEW c \in Calls, pc[c] # "idle"
  PROVE  /\ c \in Tasks /\ work[c].done \in Nat /\ Len(Script(c)) \in Nat \ {0}
         /\ pc[c] \in {"waiting", "locking", "capabilities", "before", "sent", "after"} \cup Ended
         /\ pc[c] = "before" => work[c].done = 0
         /\ pc[c] = "sent" => /\ work[c].done < Len(Script(c)) /\ c \in DOMAIN wire
                              /\ wire[c].answer \in {"none", "ok"}
         /\ CallStepsLeft(c) \in Nat
         /\ pc[c] \notin Ended => CallStepsLeft(c) >= 1
         /\ pc[c] = "sent" =>
               /\ CallStepsLeft(c) >= 2
               /\ wire[c].answer = "none" => CallStepsLeft(c) = 2 * (Len(Script(c)) - work[c].done) + 1
               /\ wire[c].answer = "ok" => CallStepsLeft(c) = 2 * (Len(Script(c)) - work[c].done)
         /\ pc[c] = "before" => CallStepsLeft(c) = 2 * Len(Script(c)) + 2
         /\ pc[c] = "capabilities" => CallStepsLeft(c) = 2 * Len(Script(c)) + 3
         /\ pc[c] = "locking" => CallStepsLeft(c) = 2 * Len(Script(c)) + 4
<1> USE DEF TypeInv, CallsTyped
<1> DEFINE len == Len(Script(c))
           done == work[c].done
<1>1. /\ c \in Tasks /\ done \in Nat /\ len \in Nat \ {0}
      /\ pc[c] \in {"waiting", "locking", "capabilities", "before", "sent", "after"} \cup Ended
      /\ pc[c] = "before" => done = 0
      /\ pc[c] = "sent" => /\ done < len /\ c \in DOMAIN wire
                           /\ wire[c].answer \in {"none", "ok"}
  BY GatewayAssumption
     DEF Tasks, Script, IsLocals, StatusInv, Progress, Untouched, WorkersTyped, Written, Waiting, Locked
<1>2. CallStepsLeft(c) =
        IF pc[c] \in Ended THEN 0
        ELSE IF pc[c] \in {"waiting", "after"} THEN 1
        ELSE IF pc[c] = "sent" THEN 2 * (len - done) + (IF wire[c].answer = "none" THEN 1 ELSE 0)
        ELSE 2 * len + (IF pc[c] = "before" THEN 2 ELSE IF pc[c] = "capabilities" THEN 3 ELSE 4)
  BY DEF CallStepsLeft
<1> HIDE DEF len, done
<1>3. /\ CallStepsLeft(c) \in Nat
      /\ pc[c] \notin Ended => CallStepsLeft(c) >= 1
      /\ pc[c] = "sent" =>
            /\ CallStepsLeft(c) >= 2
            /\ wire[c].answer = "none" => CallStepsLeft(c) = 2 * (len - done) + 1
            /\ wire[c].answer = "ok" => CallStepsLeft(c) = 2 * (len - done)
      /\ pc[c] = "before" => CallStepsLeft(c) = 2 * len + 2
      /\ pc[c] = "capabilities" => CallStepsLeft(c) = 2 * len + 3
      /\ pc[c] = "locking" => CallStepsLeft(c) = 2 * len + 4
  BY <1>1, <1>2 DEF Ended
<1> QED BY <1>1, <1>3 DEF len, done

\* A step of its own, or its cancellation, brings a call nearer to its end.
LEMMA CallGetsNearer ==
  ASSUME IsolationInv, StatusInv, NEW c \in Calls, pc[c] # "idle", CallStep(c) \/ CancelCall(c)
  PROVE  pc'[c] # "idle" /\ Shrinks(CallStepsLeft(c), CallStepsLeft(c)', TRUE)
<1> USE DEF IsolationInv, TypeInv, CallsTyped
<1> DEFINE len == Len(Script(c))
           done == work[c].done
<1>0. /\ c \in Tasks /\ done \in Nat /\ len \in Nat \ {0}
      /\ pc[c] \in {"waiting", "locking", "capabilities", "before", "sent", "after"} \cup Ended
      /\ pc[c] = "before" => done = 0
      /\ pc[c] = "sent" => /\ done < len /\ c \in DOMAIN wire
                           /\ wire[c].answer \in {"none", "ok"}
  BY CallStepsAre
<1>1. /\ CallStepsLeft(c) \in Nat
      /\ pc[c] \notin Ended => CallStepsLeft(c) >= 1
      /\ pc[c] = "sent" => /\ CallStepsLeft(c) >= 2
                           /\ wire[c].answer = "none" => CallStepsLeft(c) = 2 * (len - done) + 1
                           /\ wire[c].answer = "ok" => CallStepsLeft(c) = 2 * (len - done)
      /\ pc[c] = "before" => CallStepsLeft(c) = 2 * len + 2
      /\ pc[c] = "capabilities" => CallStepsLeft(c) = 2 * len + 3
      /\ pc[c] = "locking" => CallStepsLeft(c) = 2 * len + 4
  BY CallStepsAre
<1>2. CASE ResumeWaiter(c) \/ RefuseIncompatiblePlugin(c) \/ RefuseStaleRevision(c) \/ ReadAfter(c)
           \/ ReadFails(c) \/ CancelCall(c)
  <2>1. pc[c] \notin Ended /\ pc'[c] \in Ended
    BY <1>0, <1>2 DEF ResumeWaiter, RefuseIncompatiblePlugin, RefuseStaleRevision, ReadAfter, ReadFails,
       CancelCall, Ended, Waiting, Locked
  <2>2. CallStepsLeft(c)' = 0
    BY <2>1 DEF CallStepsLeft
  <2> QED BY <1>1, <2>1, <2>2 DEF Shrinks, Ended
<1>3. CASE AcquireLock(c) \/ ReadCapabilities(c)
  <2>1. /\ Script(c)' = Script(c)
        /\ \/ pc[c] = "locking" /\ pc'[c] = "capabilities"
           \/ pc[c] = "capabilities" /\ pc'[c] = "before"
    BY <1>0, <1>3 DEF AcquireLock, ReadCapabilities, Script
  <2>2. \/ pc[c] = "locking" /\ CallStepsLeft(c)' = 2 * len + 3
        \/ pc[c] = "capabilities" /\ CallStepsLeft(c)' = 2 * len + 2
    BY <2>1 DEF CallStepsLeft, Ended
  <2> QED BY <1>0, <1>1, <2>1, <2>2 DEF Shrinks
<1>4. CASE CommandFails(c) \/ AnswerIsMalformed(c) \/ LoseResponse(c)
  <2>1. pc[c] = "sent" /\ pc'[c] = "after"
    BY <1>0, <1>4 DEF CommandFails, AnswerIsMalformed, LoseResponse, Interrupt
  <2>2. CallStepsLeft(c)' = 1
    BY <2>1 DEF CallStepsLeft, Ended
  <2> QED BY <1>1, <2>1, <2>2 DEF Shrinks
<1>5. CASE RunSentCommand(c)
  <2>1. /\ pc[c] = "sent" /\ pc' = pc /\ work' = work /\ Script(c)' = Script(c)
        /\ wire[c].answer = "none" /\ wire'[c].answer = "ok"
    BY <1>0, <1>5 DEF RunSentCommand, Script, Written, WorkersTyped
  <2>2. CallStepsLeft(c)' = 2 * (len - done)
    BY <1>0, <2>1 DEF CallStepsLeft, Ended
  <2> QED BY <1>0, <1>1, <2>1, <2>2 DEF Shrinks
\* Where Proceed goes from l.
<1>6. ASSUME NEW l, Proceed(c, l), l.done \in Nat, l.done <= len, UNCHANGED req,
             \/ pc[c] = "before" /\ l.done = 0
             \/ pc[c] = "sent" /\ wire[c].answer = "ok" /\ l.done = done + 1
      PROVE  pc'[c] # "idle" /\ Shrinks(CallStepsLeft(c), CallStepsLeft(c)', TRUE)
  <2>1. Script(c)' = Script(c)
    BY <1>6 DEF Script
  <2>2. CASE pc'[c] = "after"
    <3>1. CallStepsLeft(c)' = 1
      BY <2>2 DEF CallStepsLeft, Ended
    <3> QED BY <1>0, <1>1, <1>6, <2>2, <3>1 DEF Shrinks
  <2>3. CASE pc'[c] = "sent" /\ work'[c] = l /\ wire'[c].answer = "none" /\ l.done # len
    <3>1. CallStepsLeft(c)' = 2 * (len - l.done) + 1
      BY <2>1, <2>3 DEF CallStepsLeft, Ended
    <3> HIDE DEF len, done
    <3> QED BY <1>0, <1>1, <1>6, <2>3, <3>1 DEF Shrinks
  <2>4. \/ pc'[c] = "after"
        \/ pc'[c] = "sent" /\ work'[c] = l /\ wire'[c].answer = "none" /\ l.done # len
    BY <1>0, <1>6 DEF Proceed, Put
  <2> QED BY <2>2, <2>3, <2>4
<1>7. CASE ReadBefore(c)
  <2>1. pc[c] = "before" /\ Proceed(c, [Blank EXCEPT !.before = doc]) /\ UNCHANGED req
    BY <1>7 DEF ReadBefore
  <2> DEFINE l == [Blank EXCEPT !.before = doc]
  <2>2. l.done = 0
    BY DEF Blank
  <2>3. Proceed(c, l)
    BY <2>1
  <2> HIDE DEF l
  <2>4. l.done \in Nat /\ l.done <= len
    BY <1>0, <2>2
  <2> QED BY <1>6, <2>1, <2>2, <2>3, <2>4
<1>8. CASE ReceiveResult(c)
  <2>1. pc[c] = "sent" /\ wire[c].answer = "ok" /\ Proceed(c, Learnt(c)) /\ UNCHANGED req
    BY <1>8 DEF ReceiveResult
  <2>2. Learnt(c).done = done + 1
    BY DEF Learnt
  <2>3. Learnt(c).done \in Nat /\ Learnt(c).done <= len
    BY <1>0, <2>1, <2>2
  <2> QED BY <1>6, <2>1, <2>2, <2>3
<1> QED BY <1>2, <1>3, <1>4, <1>5, <1>7, <1>8 DEF CallStep

\* Only a call's own steps move the worker thread it awaits.
LEMMA CallKeepsItsWorker ==
  ASSUME TypeInv, Next, NEW c \in Calls, pc[c] = "sent",
         ~\E a \in Arguments(c) : Invoke(c, a), ~CallStep(c), ~CancelCall(c)
  PROVE  wire'[c] = wire[c]
<1>1. CASE \E o \in orphans : o.by = c /\ RunOrphan(o)
  BY <1>1 DEF RunOrphan, calls
<1>2. CASE ~\E o \in orphans : o.by = c /\ RunOrphan(o)
  BY <1>2, HistoryFrame
<1> QED BY <1>1, <1>2

\* Nobody else's step touches where a query or a visit is.
LEMMA TaskFrame ==
  ASSUME TypeInv, Next, NEW t \in Queries \cup Visits,
         t \in Queries => ~(StartQuery(t) \/ QueryStep(t)),
         t \in Visits => ~(StartVisit(t) \/ VisitStep(t) \/ CancelVisit(t))
  PROVE  pc'[t] = pc[t] /\ (t \in DOMAIN wire => wire'[t] = wire[t])
<1> USE GatewayAssumption DEF TypeInv, CallsTyped, WorkersTyped, Tasks
<1> DEFINE Same == pc'[t] = pc[t] /\ (t \in DOMAIN wire => wire'[t] = wire[t])
<1>1. ASSUME NEW c \in Calls, NEW a \in Arguments(c), Invoke(c, a) PROVE Same
  BY <1>1 DEF Invoke, ReplayReceipt, JoinInflight, AnswerWithoutHost, BeginExecution
<1>2. ASSUME NEW c \in Calls, CallStep(c) \/ CancelCall(c) PROVE Same
  <2>1. c # t
    OBVIOUS
  <2>2. CASE \/ ResumeWaiter(c) \/ AcquireLock(c) \/ ReadCapabilities(c) \/ RefuseIncompatiblePlugin(c)
             \/ RefuseStaleRevision(c) \/ ReadAfter(c) \/ ReadFails(c)
    <3>1. wire' = wire /\ \E p : pc' = [pc EXCEPT ![c] = p]
      BY <2>2 DEF ResumeWaiter, AcquireLock, ReadCapabilities, RefuseIncompatiblePlugin, RefuseStaleRevision,
         ReadAfter, ReadFails
    <3> QED BY <2>1, <3>1
  <2>5. CASE RunSentCommand(c)
    BY <2>1, <2>5 DEF RunSentCommand
  <2>3. CASE ReadBefore(c) \/ ReceiveResult(c)
    BY <2>1, <2>3 DEF ReadBefore, ReceiveResult, Proceed, Put, Drop
  <2>4. CASE CommandFails(c) \/ AnswerIsMalformed(c) \/ LoseResponse(c) \/ CancelCall(c)
    BY <2>1, <2>4 DEF CommandFails, AnswerIsMalformed, LoseResponse, CancelCall, Interrupt, StopWaiting, Drop
  <2> QED BY <1>2, <2>2, <2>3, <2>4, <2>5 DEF CallStep
<1>3. ASSUME NEW q \in Queries, q # t, StartQuery(q) \/ QueryStep(q) PROVE Same
  BY <1>3 DEF StartQuery, QueryStep, AnswerFromCache, LockForIndex, IndexScene, IndexFails
<1>4. ASSUME NEW v \in Visits, v # t, StartVisit(v) \/ VisitStep(v) \/ CancelVisit(v) PROVE Same
  <2>1. CASE StartVisit(v) \/ LockForVisit(v) \/ RunVisit(v) \/ CheckOpened(v)
    BY <1>4, <2>1 DEF StartVisit, LockForVisit, RunVisit, CheckOpened, LeaveVisit
  <2>2. CASE AskRhino(v) \/ ReceiveVisit(v) \/ LoseVisit(v) \/ VisitFails(v) \/ CancelVisit(v)
    BY <1>4, <2>2 DEF AskRhino, ReceiveVisit, LoseVisit, VisitFails, CancelVisit, LeaveVisit, StopWaiting, Put, Drop
  <2> QED BY <1>4, <2>1, <2>2 DEF VisitStep
<1>5. CASE \/ \E o \in orphans : RunOrphan(o) \/ RunOrphanVisit(o)
           \/ \E op \in {"create", "update", "delete"}, i \in Ids : EditDocument(op, i)
           \/ AllEnded
  BY <1>5 DEF RunOrphan, RunOrphanVisit, EditDocument, AllEnded, vars, calls
<1> QED BY <1>1, <1>2, <1>3, <1>4, <1>5 DEF Next

LEMMA QueryGetsNearer ==
  ASSUME TypeInv, Places, NEW q \in Queries, pc[q] # "idle", StartQuery(q) \/ QueryStep(q)
  PROVE  pc'[q] # "idle" /\ Shrinks(QueryStepsLeft(q), QueryStepsLeft(q)', TRUE)
<1>1. \/ pc[q] = "locking" /\ pc'[q] \in {"indexing", "returned", "raised"}
      \/ pc[q] = "indexing" /\ pc'[q] \in {"returned", "raised"}
  BY DEF StartQuery, QueryStep, AnswerFromCache, LockForIndex, IndexScene, IndexFails, TypeInv, CallsTyped, Tasks
<1> QED BY <1>1 DEF Shrinks, QueryStepsLeft, Ended

LEMMA VisitGetsNearer ==
  ASSUME TypeInv, Places, NEW v \in Visits, pc[v] # "idle", StartVisit(v) \/ VisitStep(v) \/ CancelVisit(v)
  PROVE  pc'[v] # "idle" /\ Shrinks(VisitStepsLeft(v), VisitStepsLeft(v)', TRUE)
<1> USE DEF TypeInv, CallsTyped, WorkersTyped, Tasks
<1>0. pc[v] = "sent" => v \in DOMAIN wire /\ wire[v].answer \in {"none", "ok"}
  BY DEF Written
<1>1. \/ pc[v] = "locking" /\ pc'[v] \in {"capabilities"} \cup Ended
      \/ pc[v] = "capabilities" /\ pc'[v] = "sent" /\ wire'[v].answer = "none"
      \/ pc[v] = "sent" /\ wire[v].answer = "none" /\ pc'[v] = "sent" /\ wire'[v].answer = "ok"
      \/ pc[v] \in {"capabilities", "sent"} /\ pc'[v] \in {"checking"} \cup Ended
      \/ pc[v] = "checking" /\ pc'[v] \in Ended
  <2>1. CASE LockForVisit(v) \/ AskRhino(v)
    BY <2>1 DEF LockForVisit, AskRhino, Put
  <2>2. CASE RunVisit(v)
    BY <1>0, <2>2 DEF RunVisit, Written
  <2>3. CASE ReceiveVisit(v) \/ LoseVisit(v) \/ CheckOpened(v)
    BY <2>3 DEF ReceiveVisit, LoseVisit, CheckOpened, LeaveVisit, Ended
  <2>4. CASE VisitFails(v) \/ CancelVisit(v)
    <3>1. pc[v] \in {"locking", "capabilities", "sent", "checking"} /\ pc'[v] \in Ended
      BY <2>4 DEF VisitFails, CancelVisit, LeaveVisit, Ended, Places, Locked
    <3> QED BY <3>1
  <2> QED BY <2>1, <2>2, <2>3, <2>4 DEF StartVisit, VisitStep
<1> QED BY <1>0, <1>1 DEF Shrinks, VisitStepsLeft, Ended

\* Together with the fairness of the scheduler this is why EveryTaskEnds holds:
\* a task that started can take only so many steps more, and, the theorem before,
\* somebody it waits for can always take one.
THEOREM GatewayStepsAreNearer == Spec => EachStepIsNearer
<1> DEFINE CallNearer(c) == pc[c] # "idle" =>
               pc'[c] # "idle" /\ Shrinks(CallStepsLeft(c), CallStepsLeft(c)', CallStep(c))
           QueryNearer(q) == pc[q] # "idle" =>
               pc'[q] # "idle" /\ Shrinks(QueryStepsLeft(q), QueryStepsLeft(q)', QueryStep(q))
           VisitNearer(v) == pc[v] # "idle" =>
               pc'[v] # "idle" /\ Shrinks(VisitStepsLeft(v), VisitStepsLeft(v)', VisitStep(v))
<1>1. ASSUME IsolationInv, StatusInv, Next, NEW c \in Calls PROVE CallNearer(c)
  <2> SUFFICES ASSUME pc[c] # "idle" PROVE pc'[c] # "idle" /\ Shrinks(CallStepsLeft(c), CallStepsLeft(c)', CallStep(c))
    OBVIOUS
  <2>1. CASE CallStep(c) \/ CancelCall(c)
    BY <1>1, <2>1, CallGetsNearer DEF Shrinks
  <2>2. CASE ~CallStep(c) /\ ~CancelCall(c)
    <3>1. ~\E a \in Arguments(c) : Invoke(c, a)
      BY DEF Invoke, ReplayReceipt, JoinInflight, AnswerWithoutHost, BeginExecution
    <3>2. /\ pc'[c] = pc[c] /\ work'[c] = work[c] /\ Script(c)' = Script(c)
      BY <1>1, <2>2, <3>1, CallFrame DEF IsolationInv, Script
    <3>3. pc[c] = "sent" => wire'[c] = wire[c]
      BY <1>1, <2>2, <3>1, CallKeepsItsWorker DEF IsolationInv
    <3>4. CallStepsLeft(c)' = CallStepsLeft(c)
      BY <3>2, <3>3 DEF CallStepsLeft
    <3>5. CallStepsLeft(c) \in Nat
      BY <1>1, CallStepsAre DEF IsolationInv
    <3> QED BY <2>2, <3>2, <3>4, <3>5 DEF Shrinks
  <2> QED BY <2>1, <2>2
<1>2. ASSUME TypeInv, Places, Next, NEW q \in Queries PROVE QueryNearer(q)
  <2> SUFFICES ASSUME pc[q] # "idle" PROVE pc'[q] # "idle" /\ Shrinks(QueryStepsLeft(q), QueryStepsLeft(q)', QueryStep(q))
    OBVIOUS
  <2>1. CASE StartQuery(q) \/ QueryStep(q)
    BY <1>2, <2>1, QueryGetsNearer DEF Shrinks
  <2>2. CASE ~(StartQuery(q) \/ QueryStep(q))
    <3>1. pc'[q] = pc[q]
      BY <1>2, <2>2, TaskFrame, GatewayAssumption
    <3> QED BY <2>2, <3>1 DEF Shrinks, QueryStepsLeft
  <2> QED BY <2>1, <2>2
<1>3. ASSUME TypeInv, Places, Next, NEW v \in Visits PROVE VisitNearer(v)
  <2> SUFFICES ASSUME pc[v] # "idle" PROVE pc'[v] # "idle" /\ Shrinks(VisitStepsLeft(v), VisitStepsLeft(v)', VisitStep(v))
    OBVIOUS
  <2>1. CASE StartVisit(v) \/ VisitStep(v) \/ CancelVisit(v)
    BY <1>3, <2>1, VisitGetsNearer DEF Shrinks
  <2>2. CASE ~(StartVisit(v) \/ VisitStep(v) \/ CancelVisit(v))
    <3>1. pc'[v] = pc[v] /\ (pc[v] = "sent" => wire'[v] = wire[v])
      BY <1>3, <2>2, TaskFrame, GatewayAssumption DEF TypeInv, WorkersTyped, Tasks
    <3> QED BY <2>2, <3>1 DEF Shrinks, VisitStepsLeft
  <2> QED BY <2>1, <2>2
<1>4. IsolationInv /\ StatusInv /\ Places /\ [Next]_vars =>
        [/\ \A c \in Calls : CallNearer(c)
         /\ \A q \in Queries : QueryNearer(q)
         /\ \A v \in Visits : VisitNearer(v)]_vars
  BY <1>1, <1>2, <1>3 DEF IsolationInv
<1> QED BY <1>4, IsolationInvariant, StatusInvariant, PlacesInvariant, PTL DEF Spec, EachStepIsNearer
=============================================================================
