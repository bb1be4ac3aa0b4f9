------------------------- MODULE RhinoGatewayTypes -------------------------
(***************************************************************************)
(* Type correctness of RhinoGateway, checked by TLAPS: TypeOK is not       *)
(* inductive by itself, what a receipt or an abandoned write holds comes   *)
(* from the locals of _execute_once and from the worker threads.           *)
(***************************************************************************)
EXTENDS RhinoGatewayProofs, FiniteSetTheorems

----------------------------------------------------------------------------
(* The inductive invariant *)

Written == [op : CommandOps \cup VisitKinds, target : Ids \cup {None},
            answer : {"none", "ok"}, id : Ids \cup {None}]

\* The locals of _execute_once, as far as the types of the rest need them.
IsLocals(l) == DOMAIN l = DOMAIN Blank /\ IsScene(l.before) /\ l.done \in Nat

HostTyped ==
    /\ IsScene(doc) /\ born \in SUBSET Ids /\ edits \in Nat
    /\ active \in Visits \cup {None} /\ (file # None => IsScene(file))

OrphansTyped ==
    orphans \subseteq [by : Calls \cup Visits, op : CommandOps \cup VisitKinds,
                       target : Ids \cup {None}]

TablesTyped ==
    /\ lock \in Tasks \cup {None}
    /\ DOMAIN receipts \subseteq Keys /\ \A k \in DOMAIN receipts : receipts[k] \in Receipt
    /\ DOMAIN inflight \subseteq Keys /\ \A k \in DOMAIN inflight : inflight[k] \in Calls
    /\ DOMAIN result \subseteq Calls /\ \A c \in DOMAIN result : result[c] \in Receipt

ScenesTyped ==
    /\ IsScene(cache.scene) /\ cache.capacity \in Nat
    /\ \A q \in DOMAIN seen : q \in Queries /\ IsScene(seen[q])

CallsTyped ==
    /\ pc \in [Tasks -> {"idle"} \cup Waiting \cup Locked \cup Ended]
    /\ DOMAIN req = Calls
    /\ \A c \in Calls : req[c].key \in Keys \cup {None} /\ req[c].payload \in Payloads
    /\ DOMAIN work = Calls
    /\ \A c \in Calls : IsLocals(work[c])
    /\ DOMAIN future \subseteq Calls
    /\ \A c \in DOMAIN future : future[c] \in Calls

\* A worker thread exists exactly while its task awaits it, and a call that
\* awaits one has a command left.
WorkersTyped ==
    /\ DOMAIN wire = {t \in Tasks : pc[t] = "sent"}
    /\ DOMAIN wire \subseteq Calls \cup Visits
    /\ \A t \in DOMAIN wire : wire[t] \in Written
    /\ \A c \in Calls : pc[c] = "sent" => work[c].done < Len(Script(c))

HistoryTyped == applied \in [Calls -> Nat] /\ effects \in [Calls -> SUBSET Ids]

TypeInv ==
    HostTyped /\ OrphansTyped /\ TablesTyped /\ ScenesTyped /\ CallsTyped /\ WorkersTyped
    /\ HistoryTyped

LEMMA TypeInvIsTyped == TypeInv => TypeOK
  BY DEF TypeInv, TypeOK, HostTyped, OrphansTyped, TablesTyped, ScenesTyped, CallsTyped,
         WorkersTyped, HistoryTyped

THEOREM TypeInvInit == Init => TypeInv
<1> SUFFICES ASSUME Init PROVE TypeInv
  OBVIOUS
<1> USE GatewayAssumption DEF Init
<1>1. HostTyped /\ OrphansTyped
  BY DEF HostTyped, OrphansTyped, IsScene
<1>2. TablesTyped /\ ScenesTyped
  BY DEF TablesTyped, ScenesTyped, NoScene, Empty, IsScene
<1>3. CallsTyped
  BY DEF CallsTyped, IsLocals, Blank, Empty, IsScene
<1>4. WorkersTyped /\ HistoryTyped
  BY DEF WorkersTyped, HistoryTyped, Empty, Tasks
<1> QED BY <1>1, <1>2, <1>3, <1>4 DEF TypeInv

----------------------------------------------------------------------------
(* The operators *)

\* A command turns a scene into a scene.
LEMMA RunKeepsScene ==
  ASSUME HostTyped, NEW op, NEW i \in Ids, Run(op, i)
  PROVE  IsScene(doc') /\ born' \in SUBSET Ids
<1>1. CASE op = "delete"
  BY <1>1 DEF Run, Drop, HostTyped, IsScene
<1>2. CASE op # "delete"
  BY <1>2 DEF Run, Put, HostTyped, IsScene
<1> QED BY <1>1, <1>2

\* The deltas of a receipt are object ids.
LEMMA NewReceiptTyped ==
  ASSUME NEW c \in Calls, NEW p \in Payloads, NEW s \in Statuses,
         NEW x \in SUBSET Ids, NEW y \in SUBSET Ids, NEW z \in SUBSET Ids
  PROVE  NewReceipt(c, p, s, x, y, z) \in Receipt
  BY DEF NewReceipt, Receipt

\* Opening a document gives the saved scene, an export puts the scene in a file.
LEMMA PerformTyped ==
  ASSUME HostTyped, NEW v \in Visits, Perform(v), UNCHANGED edits
  PROVE  HostTyped'
  BY GatewayAssumption DEF HostTyped, Perform, IsScene

LEMMA ReturnKeepsTables ==
  ASSUME TablesTyped, NEW c \in Calls, NEW k \in Keys \cup {None}, NEW r \in Receipt,
         Return(c, k, r), lock' \in Tasks \cup {None}
  PROVE  TablesTyped'
  BY DEF TablesTyped, Return, Put, Drop

LEMMA AbandonKeepsTables ==
  ASSUME TablesTyped, NEW c \in Calls, Abandon(c), lock' \in Tasks \cup {None}
  PROVE  TablesTyped'
  BY DEF TablesTyped, Abandon, Drop

\* The thread of a task that stops waiting becomes an orphan, or is over.
LEMMA StopWaitingTyped ==
  ASSUME CallsTyped, WorkersTyped, OrphansTyped, NEW t \in Calls \cup Visits, StopWaiting(t),
         NEW p, p # "sent", pc' = [pc EXCEPT ![t] = p],
         UNCHANGED req,
         \A c \in Calls : c # t => work'[c] = work[c]
  PROVE  WorkersTyped' /\ OrphansTyped'
<1>1. OrphansTyped'
  BY DEF StopWaiting, OrphansTyped, WorkersTyped, Written
<1>2. WorkersTyped'
  BY DEF StopWaiting, Drop, WorkersTyped, CallsTyped, Tasks, Script
<1> QED BY <1>1, <1>2

\* A task without a thread whose position stays away from "sent".
LEMMA MoveKeepsWorkers ==
  ASSUME CallsTyped, WorkersTyped, NEW t \in Tasks, pc[t] # "sent",
         NEW p, p # "sent", pc' = [pc EXCEPT ![t] = p],
         UNCHANGED wire,
         \A c \in Calls : pc[c] = "sent" => req'[c] = req[c] /\ work'[c] = work[c]
  PROVE  WorkersTyped'
  BY DEF WorkersTyped, CallsTyped, Script

LEMMA TroubleIsLocal ==
  ASSUME NEW l, IsLocals(l), NEW x
  PROVE  IsLocals([l EXCEPT !.trouble = x])
<1>1. "trouble" \in DOMAIN l /\ "before" \in DOMAIN l /\ "done" \in DOMAIN l
  BY DEF IsLocals, Blank
<1> QED BY <1>1 DEF IsLocals

\* What Proceed writes to the wire is a resolved command.
LEMMA ProceedTyped ==
  ASSUME CallsTyped, WorkersTyped, NEW c \in Calls, NEW locals, Proceed(c, locals),
         IsLocals(locals), locals.done <= Len(Script(c)),
         UNCHANGED <<req, future>>
  PROVE  CallsTyped' /\ WorkersTyped'
<1> DEFINE next == Script(c)[locals.done + 1]
<1>0. c \in Tasks /\ Script(c) \in Seq(Command)
  BY GatewayAssumption DEF Tasks, Script, CallsTyped
<1>1. CASE locals.done = Len(Script(c)) \/ ~Resolvable(next.target, locals.aliases)
  <2>1. /\ pc' = [pc EXCEPT ![c] = "after"] /\ wire' = Drop(wire, c)
        /\ \E l : work' = [work EXCEPT ![c] = l] /\ IsLocals(l)
    BY <1>1, TroubleIsLocal DEF Proceed
  <2>2. CallsTyped'
    BY <1>0, <2>1 DEF CallsTyped, Locked
  <2>3. WorkersTyped'
    BY <1>0, <2>1 DEF WorkersTyped, CallsTyped, Drop, Script
  <2> QED BY <2>2, <2>3
<1>2. CASE locals.done # Len(Script(c)) /\ Resolvable(next.target, locals.aliases)
  <2> DEFINE w == [op |-> next.op, target |-> Resolve(next.target, locals.aliases),
                   answer |-> "none", id |-> None]
  <2>1. /\ pc' = [pc EXCEPT ![c] = "sent"] /\ work' = [work EXCEPT ![c] = locals]
        /\ wire' = Put(wire, c, w)
    BY <1>2 DEF Proceed
  <2>2. next \in Command
    BY <1>0, <1>2 DEF IsLocals
  <2>3. Resolve(next.target, locals.aliases) \in Ids \cup {None}
    BY <1>2, <2>2 DEF Resolvable, Resolve, Command
  <2>4. w \in Written
    BY <2>2, <2>3 DEF Written, Command
  <2> HIDE DEF w, next
  <2>5. CallsTyped'
    BY <1>0, <2>1 DEF CallsTyped, Locked
  <2>6. WorkersTyped'
    BY <1>0, <1>2, <2>1, <2>4 DEF WorkersTyped, CallsTyped, IsLocals, Put, Script
  <2> QED BY <2>5, <2>6
<1> QED BY <1>1, <1>2

----------------------------------------------------------------------------
(* The steps *)

LEMMA InvokeKeepsTypes ==
  ASSUME TypeInv, NEW c \in Calls, NEW a \in Arguments(c), Invoke(c, a)
  PROVE  TypeInv'
<1> USE DEF TypeInv
<1>1. /\ a.key \in Keys \cup {None} /\ a.payload \in Payloads /\ c \in Tasks
  BY GatewayAssumption DEF Arguments, Tasks
<1>2. /\ HostTyped' /\ OrphansTyped' /\ ScenesTyped' /\ HistoryTyped'
  BY DEF Invoke, ReplayReceipt, JoinInflight, AnswerWithoutHost, BeginExecution, host, history,
         gateway, HostTyped, OrphansTyped, ScenesTyped, HistoryTyped
<1>3. /\ pc[c] = "idle" /\ req' = [req EXCEPT ![c] = a] /\ UNCHANGED <<work, wire>>
      /\ \E p \in {"locking", "waiting", "returned", "replayed", "conflict"} : pc' = [pc EXCEPT ![c] = p]
      /\ UNCHANGED future \/ \E d \in Calls : future' = Put(future, c, d)
  <2>1. CASE JoinInflight(c, a)
    BY <2>1 DEF JoinInflight, TablesTyped
  <2>2. CASE ReplayReceipt(c, a) \/ AnswerWithoutHost(c, a) \/ BeginExecution(c, a)
    BY <2>2 DEF ReplayReceipt, AnswerWithoutHost, BeginExecution
  <2> QED BY <2>1, <2>2 DEF Invoke
<1>4. CallsTyped'
  BY <1>1, <1>3 DEF CallsTyped, Put, Waiting, Ended
<1>5. WorkersTyped'
  <2>1. PICK p : p # "sent" /\ pc' = [pc EXCEPT ![c] = p]
    BY <1>3
  <2>2. \A d \in Calls : pc[d] = "sent" => req'[d] = req[d] /\ work'[d] = work[d]
    BY <1>3 DEF CallsTyped
  <2> QED BY <1>1, <1>3, <2>1, <2>2, MoveKeepsWorkers
<1>6. TablesTyped'
  <2>1. CASE ReplayReceipt(c, a)
    BY <2>1 DEF ReplayReceipt, TablesTyped, gateway, Put
  <2>2. CASE JoinInflight(c, a)
    BY <2>2 DEF JoinInflight, TablesTyped, gateway
  <2>3. CASE AnswerWithoutHost(c, a)
    <3> DEFINE s == IF a.payload \in Unmapped THEN "blocked" ELSE "validated"
    <3>1. NewReceipt(c, a.payload, s, {}, {}, {}) \in Receipt
      BY <1>1, NewReceiptTyped DEF Statuses
    <3> QED BY <1>1, <2>3, <3>1, ReturnKeepsTables DEF AnswerWithoutHost, TablesTyped
  <2>4. CASE BeginExecution(c, a)
    BY <1>1, <2>4 DEF BeginExecution, TablesTyped, Put
  <2> QED BY <2>1, <2>2, <2>3, <2>4 DEF Invoke
<1> QED BY <1>2, <1>4, <1>5, <1>6

\* The steps of a call that leave Rhino and the tables of receipts alone.
LEMMA QuietStepKeepsTypes ==
  ASSUME TypeInv, NEW c \in Calls,
         \/ AcquireLock(c) \/ ReadCapabilities(c) \/ ReadBefore(c) \/ ReceiveResult(c)
         \/ CommandFails(c) \/ AnswerIsMalformed(c) \/ LoseResponse(c)
  PROVE  TypeInv'
<1> USE DEF TypeInv
<1>0. c \in Tasks
  BY DEF Tasks
<1>1. HostTyped' /\ HistoryTyped'
  BY DEF AcquireLock, ReadCapabilities, ReadBefore, ReceiveResult, CommandFails, AnswerIsMalformed,
         LoseResponse, host, history, HostTyped, HistoryTyped
<1>2. TablesTyped' /\ ScenesTyped'
  <2>1. CASE AcquireLock(c)
    BY <1>0, <2>1 DEF AcquireLock, NoScene, Empty, IsScene, TablesTyped, ScenesTyped
  <2>2. CASE ~AcquireLock(c)
    BY <2>2 DEF ReadCapabilities, ReadBefore, ReceiveResult, CommandFails, AnswerIsMalformed,
                LoseResponse, gateway, TablesTyped, ScenesTyped
  <2> QED BY <2>1, <2>2
<1>3. CASE AcquireLock(c) \/ ReadCapabilities(c)
  <2>1. PICK p \in {"capabilities", "before"} : pc' = [pc EXCEPT ![c] = p]
    BY <1>3 DEF AcquireLock, ReadCapabilities
  <2>2. pc[c] # "sent" /\ UNCHANGED <<req, work, wire, future, orphans>>
    BY <1>3 DEF AcquireLock, ReadCapabilities, host
  <2>3. CallsTyped'
    BY <1>0, <2>1, <2>2 DEF CallsTyped, Locked
  <2>4. WorkersTyped'
    BY <1>0, <2>1, <2>2, MoveKeepsWorkers
  <2>5. OrphansTyped'
    BY <2>2 DEF OrphansTyped
  <2> QED BY <1>1, <1>2, <2>3, <2>4, <2>5
<1>4. CASE ReadBefore(c)
  <2> DEFINE l == [Blank EXCEPT !.before = doc]
  <2>1. IsLocals(l) /\ l.done = 0
    BY DEF IsLocals, Blank, HostTyped
  <2>2. 0 <= Len(Script(c))
    BY GatewayAssumption DEF Script, CallsTyped
  <2>3. Proceed(c, l) /\ UNCHANGED <<req, future, orphans>>
    BY <1>4 DEF ReadBefore, host
  <2> HIDE DEF l
  <2>4. CallsTyped' /\ WorkersTyped'
    BY <2>1, <2>2, <2>3, ProceedTyped
  <2> QED BY <1>1, <1>2, <2>3, <2>4 DEF OrphansTyped
<1>5. CASE ReceiveResult(c)
  <2>1. IsLocals(Learnt(c)) /\ Learnt(c).done = work[c].done + 1
    BY DEF CallsTyped, Learnt, IsLocals, Blank
  <2>2. Learnt(c).done <= Len(Script(c))
    <3>1. Script(c) \in Seq(Command)
      BY GatewayAssumption DEF Script, CallsTyped
    <3> QED BY <1>5, <2>1, <3>1 DEF ReceiveResult, WorkersTyped, CallsTyped, IsLocals
  <2>3. Proceed(c, Learnt(c)) /\ UNCHANGED <<req, future, orphans>>
    BY <1>5 DEF ReceiveResult, host
  <2>4. CallsTyped' /\ WorkersTyped'
    BY <2>1, <2>2, <2>3, ProceedTyped
  <2> QED BY <1>1, <1>2, <2>3, <2>4 DEF OrphansTyped
<1>6. CASE CommandFails(c) \/ AnswerIsMalformed(c) \/ LoseResponse(c)
  <2>1. /\ pc' = [pc EXCEPT ![c] = "after"] /\ UNCHANGED <<req, future>>
        /\ \E x : work' = [work EXCEPT ![c].trouble = x]
    BY <1>6 DEF CommandFails, AnswerIsMalformed, LoseResponse, Interrupt
  <2>2. CallsTyped'
    <3>1. PICK x : work' = [work EXCEPT ![c] = [work[c] EXCEPT !.trouble = x]]
      BY <2>1
    <3>2. IsLocals([work[c] EXCEPT !.trouble = x])
      BY TroubleIsLocal DEF CallsTyped
    <3> QED BY <1>0, <2>1, <3>1, <3>2 DEF CallsTyped, Locked
  <2>3. \A d \in Calls : d # c => work'[d] = work[d]
    BY <2>1 DEF CallsTyped
  <2>4. CASE LoseResponse(c)
    <3>1. StopWaiting(c)
      BY <2>4 DEF LoseResponse
    <3>2. WorkersTyped' /\ OrphansTyped'
      BY <2>1, <2>3, <3>1, StopWaitingTyped
    <3> QED BY <1>1, <1>2, <2>2, <3>2
  <2>5. CASE CommandFails(c) \/ AnswerIsMalformed(c)
    <3>1. wire' = Drop(wire, c) /\ UNCHANGED orphans
      BY <2>5 DEF CommandFails, AnswerIsMalformed, host
    <3>2. WorkersTyped'
      BY <1>0, <2>1, <2>3, <3>1 DEF WorkersTyped, CallsTyped, Drop, Script
    <3> QED BY <1>1, <1>2, <2>2, <3>1, <3>2 DEF OrphansTyped
  <2> QED BY <1>6, <2>4, <2>5
<1> QED BY <1>3, <1>4, <1>5, <1>6

\* The steps of a call that end it, and a waiter's answer.
LEMMA EndingStepKeepsTypes ==
  ASSUME TypeInv, KeyInv, NEW c \in Calls,
         \/ ResumeWaiter(c) \/ RefuseIncompatiblePlugin(c) \/ RefuseStaleRevision(c)
         \/ ReadAfter(c) \/ ReadFails(c) \/ CancelCall(c)
  PROVE  TypeInv'
<1> USE DEF TypeInv
<1>0. c \in Tasks /\ req[c].key \in Keys \cup {None} /\ req[c].payload \in Payloads
  BY DEF Tasks, CallsTyped
<1>1. HostTyped' /\ HistoryTyped'
  BY DEF ResumeWaiter, RefuseIncompatiblePlugin, RefuseStaleRevision, ReadAfter, ReadFails,
         CancelCall, host, history, HostTyped, HistoryTyped
<1>2. ScenesTyped'
  <2>1. CASE ReadAfter(c)
    <3>1. Cardinality(DOMAIN doc) \in Nat
      BY FS_Subset, FS_CardinalityType, GatewayAssumption DEF HostTyped, IsScene
    <3> QED BY <2>1, <3>1 DEF ReadAfter, ScenesTyped, HostTyped
  <2>2. CASE ~ReadAfter(c)
    BY <2>2 DEF ResumeWaiter, RefuseIncompatiblePlugin, RefuseStaleRevision, ReadFails, CancelCall,
                gateway, ScenesTyped
  <2> QED BY <2>1, <2>2
<1>3. /\ UNCHANGED <<req, future>>
      /\ \E p \in Ended : pc' = [pc EXCEPT ![c] = p]
      /\ UNCHANGED work \/ Forget(c)
  BY DEF ResumeWaiter, RefuseIncompatiblePlugin, RefuseStaleRevision, ReadAfter, ReadFails, CancelCall,
         Ended
<1>4. PICK p \in Ended : pc' = [pc EXCEPT ![c] = p]
  BY <1>3
<1>5. /\ DOMAIN work' = Calls /\ \A d \in Calls : IsLocals(work'[d])
      /\ \A d \in Calls : d # c => work'[d] = work[d]
  <2>1. CASE UNCHANGED work
    BY <2>1 DEF CallsTyped
  <2>2. CASE Forget(c)
    <3>1. IsLocals([Blank EXCEPT !.done = work[c].done])
      BY DEF IsLocals, Blank, CallsTyped, IsScene, Empty
    <3> QED BY <2>2, <3>1 DEF Forget, CallsTyped
  <2> QED BY <1>3, <2>1, <2>2
<1>6. CallsTyped'
  BY <1>0, <1>3, <1>4, <1>5 DEF CallsTyped
<1>7. WorkersTyped' /\ OrphansTyped'
  <2>1. p # "sent"
    BY <1>4 DEF Ended
  <2>2. CASE CancelCall(c)
    BY <1>3, <1>4, <1>5, <2>1, <2>2, StopWaitingTyped DEF CancelCall
  <2>3. CASE ~CancelCall(c)
    <3>1. pc[c] # "sent" /\ UNCHANGED <<wire, orphans>>
      BY <2>3 DEF ResumeWaiter, RefuseIncompatiblePlugin, RefuseStaleRevision, ReadAfter, ReadFails, host
    <3>2. \A d \in Calls : pc[d] = "sent" => req'[d] = req[d] /\ work'[d] = work[d]
      BY <1>3, <1>5, <3>1
    <3>3. WorkersTyped'
      BY <1>0, <1>4, <2>1, <3>1, <3>2, MoveKeepsWorkers
    <3> QED BY <3>1, <3>3 DEF OrphansTyped
  <2> QED BY <2>2, <2>3
<1>8. TablesTyped'
  <2>1. CASE ResumeWaiter(c)
    <3>1. future[c] \in Calls /\ (pc[future[c]] = "returned" => future[c] \in DOMAIN result)
      BY <2>1 DEF ResumeWaiter, KeyInv, Waiters, Answers
    <3>2. UNCHANGED gateway /\ (UNCHANGED result \/ result' = Put(result, c, result[future[c]]))
      BY <2>1 DEF ResumeWaiter
    <3>3. result' = Put(result, c, result[future[c]]) => pc[future[c]] = "returned" \/ UNCHANGED result
      BY <2>1 DEF ResumeWaiter
    <3> QED BY <3>1, <3>2, <3>3 DEF TablesTyped, gateway, Put
  <2>2. CASE RefuseIncompatiblePlugin(c) \/ RefuseStaleRevision(c)
    <3>1. BlockedReceipt(c) \in Receipt
      BY <1>0, NewReceiptTyped DEF BlockedReceipt, Statuses
    <3>2. Return(c, req[c].key, BlockedReceipt(c)) /\ lock' \in Tasks \cup {None}
      BY <2>2 DEF RefuseIncompatiblePlugin, RefuseStaleRevision
    <3> QED BY <1>0, <3>1, <3>2, ReturnKeepsTables
  <2>3. CASE ReadAfter(c)
    <3>1. Verdict(c) \in Statuses
      BY DEF Verdict, Statuses
    <3>2. /\ CreatedIds(work[c].before, doc) \in SUBSET Ids
          /\ ModifiedIds(work[c].before, doc) \in SUBSET Ids
          /\ DeletedIds(work[c].before, doc) \in SUBSET Ids
      BY DEF CreatedIds, ModifiedIds, DeletedIds, HostTyped, CallsTyped, IsLocals, IsScene
    <3>3. PICK r \in Receipt : Return(c, req[c].key, r)
      BY <1>0, <2>3, <3>1, <3>2, NewReceiptTyped DEF ReadAfter
    <3> QED BY <1>0, <2>3, <3>3, ReturnKeepsTables DEF ReadAfter
  <2>4. CASE ReadFails(c) \/ CancelCall(c)
    BY <2>4, AbandonKeepsTables DEF ReadFails, CancelCall, TablesTyped
  <2> QED BY <2>1, <2>2, <2>3, <2>4
<1> QED BY <1>1, <1>2, <1>6, <1>7, <1>8

\* Rhino runs a command for a call that waits or has gone, or for somebody else.
LEMMA RhinoKeepsTypes ==
  ASSUME TypeInv,
         \/ \E c \in Calls : RunSentCommand(c)
         \/ \E o \in orphans : RunOrphan(o) \/ RunOrphanVisit(o)
         \/ \E op \in {"create", "update", "delete"}, i \in Ids : EditDocument(op, i)
  PROVE  TypeInv'
<1> USE DEF TypeInv
<1>1. ASSUME NEW c \in Calls, RunSentCommand(c)
      PROVE  TypeInv'
  <2>1. PICK i \in Ids : /\ Run(wire[c].op, i) /\ Credit(c, i)
                         /\ wire' = [wire EXCEPT ![c].answer = "ok", ![c].id = i]
    BY <1>1 DEF RunSentCommand
  <2>2. UNCHANGED <<orphans, edits, active, file, gateway, pc, req, work, future, result, seen>>
    BY <1>1 DEF RunSentCommand
  <2>3. HostTyped'
    BY <2>1, <2>2, RunKeepsScene DEF HostTyped
  <2>4. OrphansTyped' /\ TablesTyped' /\ ScenesTyped' /\ CallsTyped'
    BY <2>2 DEF gateway, OrphansTyped, TablesTyped, ScenesTyped, CallsTyped
  <2>5. HistoryTyped'
    BY <2>1 DEF HistoryTyped, Credit
  <2>6. WorkersTyped'
    <3>1. c \in DOMAIN wire /\ wire[c] \in Written
      BY <1>1 DEF RunSentCommand, WorkersTyped, Tasks
    <3>2. [[wire[c] EXCEPT !.answer = "ok"] EXCEPT !.id = i] \in Written
      BY <3>1 DEF Written
    <3> QED BY <2>1, <2>2, <3>1, <3>2 DEF WorkersTyped, Script
  <2> QED BY <2>3, <2>4, <2>5, <2>6
<1>2. ASSUME NEW o \in orphans, RunOrphan(o)
      PROVE  TypeInv'
  <2>1. PICK i \in Ids : Run(o.op, i) /\ Credit(o.by, i) /\ o.by \in Calls
    BY <1>2 DEF RunOrphan
  <2>2. UNCHANGED <<edits, active, file, gateway, calls>> /\ orphans' \subseteq orphans
    BY <1>2 DEF RunOrphan
  <2>3. HostTyped'
    BY <2>1, <2>2, RunKeepsScene DEF HostTyped
  <2>4. HistoryTyped'
    BY <2>1 DEF HistoryTyped, Credit
  <2>5. OrphansTyped' /\ TablesTyped' /\ ScenesTyped' /\ CallsTyped' /\ WorkersTyped'
    BY <2>2 DEF gateway, calls, OrphansTyped, TablesTyped, ScenesTyped, CallsTyped, WorkersTyped,
                Script
  <2> QED BY <2>3, <2>4, <2>5
<1>3. ASSUME NEW o \in orphans, RunOrphanVisit(o)
      PROVE  TypeInv'
  <2>1. o.by \in Visits /\ Perform(o.by) /\ orphans' \subseteq orphans
        /\ UNCHANGED <<edits, gateway, calls, history>>
    BY <1>3 DEF RunOrphanVisit
  <2>2. HostTyped'
    BY <2>1, PerformTyped
  <2>3. /\ OrphansTyped' /\ TablesTyped' /\ ScenesTyped' /\ CallsTyped' /\ WorkersTyped'
        /\ HistoryTyped'
    BY <2>1 DEF gateway, calls, history, OrphansTyped, TablesTyped, ScenesTyped, CallsTyped,
                WorkersTyped, HistoryTyped, Script
  <2> QED BY <2>2, <2>3
<1>4. ASSUME NEW op, NEW i \in Ids, EditDocument(op, i)
      PROVE  TypeInv'
  <2>1. Run(op, i) /\ edits' = edits + 1 /\ UNCHANGED <<orphans, active, file, gateway, calls, history>>
    BY <1>4 DEF EditDocument
  <2>2. HostTyped'
    BY <2>1, RunKeepsScene DEF HostTyped
  <2>3. /\ OrphansTyped' /\ TablesTyped' /\ ScenesTyped' /\ CallsTyped' /\ WorkersTyped'
        /\ HistoryTyped'
    BY <2>1 DEF gateway, calls, history, OrphansTyped, TablesTyped, ScenesTyped, CallsTyped,
                WorkersTyped, HistoryTyped, Script
  <2> QED BY <2>2, <2>3
<1> QED BY <1>1, <1>2, <1>3, <1>4

\* scene_index.
LEMMA QueryKeepsTypes ==
  ASSUME TypeInv, NEW q \in Queries, StartQuery(q) \/ QueryStep(q)
  PROVE  TypeInv'
<1> USE DEF TypeInv
<1>1. /\ UNCHANGED <<host, receipts, inflight, req, work, wire, future, result, history>>
      /\ \E p \in {"locking", "indexing"} \cup Ended : pc' = [pc EXCEPT ![q] = p]
      /\ lock' \in {lock, q, None} /\ pc[q] \in {"idle", "locking", "indexing"}
  BY DEF StartQuery, QueryStep, AnswerFromCache, LockForIndex, IndexScene, IndexFails, gateway, Ended
<1>2. PICK p \in {"locking", "indexing"} \cup Ended : pc' = [pc EXCEPT ![q] = p]
  BY <1>1
<1>3. q \in Tasks /\ q \notin Calls /\ p # "sent" /\ pc[q] # "sent"
  BY <1>1, <1>2, GatewayAssumption DEF Tasks, Ended
<1>4. HostTyped' /\ OrphansTyped' /\ HistoryTyped'
  BY <1>1 DEF host, history, HostTyped, OrphansTyped, HistoryTyped
<1>5. TablesTyped'
  BY <1>1, <1>3 DEF TablesTyped
<1>6. ScenesTyped'
  <2>1. CASE StartQuery(q) \/ LockForIndex(q) \/ IndexFails(q)
    BY <2>1 DEF StartQuery, LockForIndex, IndexFails, gateway, ScenesTyped
  <2>2. CASE AnswerFromCache(q)
    BY <2>2 DEF AnswerFromCache, gateway, ScenesTyped, Put
  <2>3. CASE IndexScene(q)
    <3>1. cache'.scene = doc /\ cache'.capacity \in Nat /\ seen' = Put(seen, q, doc)
      BY <2>3, GatewayAssumption DEF IndexScene
    <3> QED BY <3>1 DEF ScenesTyped, HostTyped, Put, IsScene
  <2> QED BY <2>1, <2>2, <2>3 DEF QueryStep
<1>7. CallsTyped'
  BY <1>1, <1>2, <1>3 DEF CallsTyped, Waiting, Locked
<1>8. WorkersTyped'
  BY <1>1, <1>2, <1>3, MoveKeepsWorkers
<1> QED BY <1>4, <1>5, <1>6, <1>7, <1>8

\* The visits.
LEMMA VisitKeepsTypes ==
  ASSUME TypeInv, NEW v \in Visits, StartVisit(v) \/ VisitStep(v) \/ CancelVisit(v)
  PROVE  TypeInv'
<1> USE DEF TypeInv
<1>0. v \in Tasks /\ v \notin Calls /\ KindOf[v] \in VisitKinds
  BY GatewayAssumption DEF Tasks
<1>1. /\ UNCHANGED <<edits, receipts, inflight, req, work, future, result, seen, history>>
      /\ lock' \in {lock, v, None} /\ cache' \in {cache, NoScene}
      /\ \E p \in {"locking"} \cup Locked \cup Ended : pc' = [pc EXCEPT ![v] = p]
  <2>1. CASE StartVisit(v) \/ LockForVisit(v) \/ AskRhino(v)
    BY <2>1 DEF StartVisit, LockForVisit, AskRhino, host, gateway, Locked, Ended
  <2>2. CASE RunVisit(v)
    <3>1. pc' = [pc EXCEPT ![v] = "sent"]
      BY <1>0, <2>2 DEF RunVisit, CallsTyped
    <3> QED BY <2>2, <3>1 DEF RunVisit, gateway, Locked
  <2>3. CASE ReceiveVisit(v) \/ CheckOpened(v) \/ VisitFails(v)
    BY <2>3 DEF ReceiveVisit, CheckOpened, VisitFails, LeaveVisit, host, Ended
  <2>4. CASE LoseVisit(v) \/ CancelVisit(v)
    BY <2>4 DEF LoseVisit, CancelVisit, LeaveVisit, Locked, Ended
  <2> QED BY <2>1, <2>2, <2>3, <2>4 DEF VisitStep
<1>2. PICK p \in {"locking"} \cup Locked \cup Ended : pc' = [pc EXCEPT ![v] = p]
  BY <1>1
<1>3. TablesTyped' /\ HistoryTyped'
  BY <1>0, <1>1 DEF TablesTyped, HistoryTyped, history
<1>4. ScenesTyped'
  <2>1. IsScene(NoScene.scene) /\ NoScene.capacity \in Nat
    BY DEF NoScene, Empty, IsScene
  <2>2. IsScene(cache'.scene) /\ cache'.capacity \in Nat
    BY <1>1, <2>1 DEF ScenesTyped
  <2> QED BY <1>1, <2>2 DEF ScenesTyped, IsScene
<1>5. CallsTyped'
  BY <1>0, <1>1, <1>2 DEF CallsTyped, Waiting
<1>6. HostTyped'
  <2>1. CASE RunVisit(v)
    BY <2>1, PerformTyped DEF RunVisit
  <2>2. CASE ~RunVisit(v)
    BY <2>2 DEF StartVisit, VisitStep, CancelVisit, LockForVisit, AskRhino, ReceiveVisit, LoseVisit,
                CheckOpened, VisitFails, host, HostTyped
  <2> QED BY <2>1, <2>2
<1>7. WorkersTyped' /\ OrphansTyped'
  <2>0. \A c \in Calls : c # v => work'[c] = work[c]
    BY <1>1
  <2>1. CASE StartVisit(v) \/ LockForVisit(v) \/ CheckOpened(v)
    <3>1. pc[v] # "sent" /\ UNCHANGED <<wire, orphans>>
      BY <2>1 DEF StartVisit, LockForVisit, CheckOpened, host
    <3>2. \E x : x # "sent" /\ pc' = [pc EXCEPT ![v] = x]
      BY <2>1 DEF StartVisit, LockForVisit, CheckOpened, LeaveVisit
    <3> QED BY <1>0, <1>1, <3>1, <3>2, MoveKeepsWorkers DEF OrphansTyped
  <2>2. CASE AskRhino(v)
    <3> DEFINE w == [op |-> KindOf[v], target |-> None, answer |-> "none", id |-> None]
    <3>1. w \in Written
      BY <1>0 DEF Written
    <3>2. pc' = [pc EXCEPT ![v] = "sent"] /\ wire' = Put(wire, v, w) /\ UNCHANGED orphans
      BY <2>2 DEF AskRhino, host
    <3> HIDE DEF w
    <3> QED BY <1>0, <1>1, <3>1, <3>2 DEF WorkersTyped, OrphansTyped, CallsTyped, Put, Script
  <2>3. CASE RunVisit(v)
    <3>1. v \in DOMAIN wire /\ wire[v] \in Written
      BY <1>0, <2>3 DEF RunVisit, WorkersTyped
    <3>2. [wire[v] EXCEPT !.answer = "ok"] \in Written
      BY <3>1 DEF Written
    <3> QED BY <1>1, <2>3, <3>1, <3>2 DEF RunVisit, WorkersTyped, OrphansTyped, Script
  <2>4. CASE ReceiveVisit(v) \/ VisitFails(v)
    <3>1. /\ \E x \in Ended : pc' = [pc EXCEPT ![v] = x]
          /\ wire' = Drop(wire, v) /\ UNCHANGED orphans
      BY <2>4 DEF ReceiveVisit, VisitFails, LeaveVisit, host, Ended
    <3> QED BY <1>0, <1>1, <3>1 DEF WorkersTyped, OrphansTyped, CallsTyped, Drop, Script, Ended
  <2>5. CASE LoseVisit(v) \/ CancelVisit(v)
    <3>1. StopWaiting(v) /\ \E x : x # "sent" /\ pc' = [pc EXCEPT ![v] = x]
      BY <2>5 DEF LoseVisit, CancelVisit, LeaveVisit
    <3> QED BY <1>1, <2>0, <3>1, StopWaitingTyped
  <2> QED BY <2>1, <2>2, <2>3, <2>4, <2>5 DEF StartVisit, VisitStep, CancelVisit
<1> QED BY <1>3, <1>4, <1>5, <1>6, <1>7

THEOREM TypeInvStep == TypeInv /\ KeyInv /\ [Next]_vars => TypeInv'
<1> SUFFICES ASSUME TypeInv, KeyInv, [Next]_vars PROVE TypeInv'
  OBVIOUS
<1>1. ASSUME NEW c \in Calls, CallStep(c) \/ CancelCall(c)
      PROVE  TypeInv'
  BY <1>1, QuietStepKeepsTypes, EndingStepKeepsTypes, RhinoKeepsTypes DEF CallStep
<1>2. CASE UNCHANGED vars
  BY <1>2 DEF vars, calls, gateway, history, host, TypeInv, HostTyped, OrphansTyped, TablesTyped,
              ScenesTyped, CallsTyped, WorkersTyped, HistoryTyped, Script
<1>3. CASE \E c \in Calls : \E a \in Arguments(c) : Invoke(c, a)
  BY <1>3, InvokeKeepsTypes
<1>4. CASE \E q \in Queries : StartQuery(q) \/ QueryStep(q)
  BY <1>4, QueryKeepsTypes
<1>5. CASE \E v \in Visits : StartVisit(v) \/ VisitStep(v) \/ CancelVisit(v)
  BY <1>5, VisitKeepsTypes
<1> QED BY <1>1, <1>2, <1>3, <1>4, <1>5, RhinoKeepsTypes DEF Next, AllEnded

THEOREM TypeInvariant == Spec => []TypeInv
<1> QED BY TypeInvInit, TypeInvStep, KeyInvariant, PTL DEF Spec

\* Every variable of the gateway keeps its type: in particular a receipt never
\* holds anything but one of the six statuses and sets of object ids, and no
\* table is ever filled under the empty key.
THEOREM TypeCorrect == Spec => []TypeOK
<1> QED BY TypeInvariant, TypeInvIsTyped, PTL

=============================================================================
