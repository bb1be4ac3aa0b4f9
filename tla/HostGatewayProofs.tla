-------------------------- MODULE HostGatewayProofs --------------------------
(***************************************************************************)
(* Theorems about HostGateway for every set of calls, keys, payloads and   *)
(* scripts, both values of Rollback and ChecksAnswers and every combination *)
(* of faults, checked by TLAPS.                                            *)
(***************************************************************************)
EXTENDS HostGateway, TLAPS

----------------------------------------------------------------------------
(* The inductive invariant *)

Typed ==
    /\ scene \subseteq Edit
    /\ DOMAIN files \subseteq Files /\ \A f \in DOMAIN files : files[f] \in Calls
    /\ orphans \subseteq Calls
    /\ DOMAIN receipts \subseteq Keys /\ \A k \in DOMAIN receipts : receipts[k] \in Receipt
    /\ pc \in [Tasks -> {"idle", "locking"} \cup Locked \cup Ended]
    /\ req \in [Calls -> [payload : Payloads, dry_run : BOOLEAN,
                          revision : {None} \cup SUBSET Edit]]
    /\ before \in [Calls -> SUBSET Edit]
    /\ answer \in [Calls -> {None} \cup HostAnswers]
    /\ DOMAIN result \subseteq Calls /\ \A c \in DOMAIN result : result[c] \in Receipt
    /\ ran \in [Calls -> Nat]

\* A query keeps the lock only while it has attempts left.
Attempts ==
    /\ tries \in [Queries -> 0..ReadAttempts]
    /\ \A q \in Queries : pc[q] \in {"idle", "locking", "reading"} => tries[q] < ReadAttempts

LockHeld ==
    /\ lock \in Tasks \cup {None}
    /\ \A t \in Tasks : pc[t] \in Locked <=> lock = t

\* A call inside the lock has an unbound key; who was answered was given the
\* receipt of its key, and a receipt names the call that made it.
Bound ==
    /\ \A c \in Calls : pc[c] \in Locked => KeyOf[c] \notin DOMAIN receipts
    /\ \A c \in Calls : c \in DOMAIN result <=> pc[c] \in {"returned", "replayed", "conflict"}
    /\ \A c \in DOMAIN result :
          /\ KeyOf[c] \in DOMAIN receipts /\ result[c] = receipts[KeyOf[c]]
          /\ pc[c] = "returned" => result[c].by = c
          /\ pc[c] = "replayed" => result[c].payload = req[c].payload
          /\ pc[c] = "conflict" => result[c].payload # req[c].payload
    /\ \A k \in DOMAIN receipts :
          LET b == receipts[k].by IN pc[b] = "returned" /\ b \in DOMAIN result /\ KeyOf[b] = k

\* How far the host is with the script of each call.
Progress ==
    /\ \A c \in Calls : ran[c] > 0 => pc[c] \in {"sent", "after", "returned", "cancelled"}
    /\ \A c \in Calls : pc[c] \in {"idle", "locking", "before"} => answer[c] = None
    /\ \A c \in Calls : pc[c] = "sent" /\ answer[c] = None => ran[c] = 0
    /\ \A c \in orphans :
          /\ ran[c] = 0
          /\ pc[c] = "cancelled" \/ (pc[c] = "returned" /\ result[c].status = "unknown")
    /\ \A c \in Calls :
          /\ answer[c] = "textError" => "textError" \in Faults
          /\ pc[c] = "sent" /\ answer[c] = "ok" => ran[c] = Len(Script(c))
          /\ pc[c] = "after" /\ TellsErrors => ran[c] = Len(Script(c))
          /\ pc[c] = "returned" /\ result[c].status = "completed" /\ TellsErrors
             => ran[c] = Len(Script(c))

\* Whose edits a scene read, a delta and the files of the host can hold.
Serial ==
    /\ \A e \in scene : e[1] = None \/ (e[1] \in Calls /\ ran[e[1]] > 0)
    /\ \A f \in DOMAIN files : ran[files[f]] > 0
    /\ \A c \in Calls : pc[c] \in {"sent", "after"} =>
          /\ before[c] \subseteq scene
          /\ \A e \in before[c] : e[1] # c
          /\ \A e \in scene \ before[c] : e[1] = c \/ Stray(e)
          /\ req[c].revision # None => before[c] = req[c].revision
    /\ \A k \in DOMAIN receipts : receipts[k].status = "completed" =>
          /\ {e \in scene : e[1] = receipts[k].by} \subseteq receipts[k].delta
          /\ \A e \in receipts[k].delta : e[1] = receipts[k].by \/ Stray(e)

HostInv == Typed /\ Attempts /\ LockHeld /\ Bound /\ Progress /\ Serial

LEMMA NoneIsNothing == None \notin Calls /\ None \notin HostAnswers
  BY HostAssumption DEF Tasks

THEOREM HostInvInit == Init => HostInv
<1> SUFFICES ASSUME Init PROVE HostInv
  OBVIOUS
<1> USE HostAssumption DEF Init, Empty
<1>1. Typed
  BY DEF Typed
<1>2. Attempts /\ LockHeld /\ Bound
  BY DEF Attempts, LockHeld, Bound, Tasks, Locked
<1>3. Progress /\ Serial
  BY DEF Progress, Serial, Tasks, HostAnswers
<1> QED BY <1>1, <1>2, <1>3 DEF HostInv

----------------------------------------------------------------------------
(* Steps of a call *)

\* An edit nobody serialises stays one: calls that ended do not change again.
LEMMA StrayLasts ==
  ASSUME NEW e, Stray(e),
         \A c \in Calls : pc[c] \in {"cancelled", "returned"} => pc'[c] = pc[c],
         \A c \in Calls : pc[c] = "returned" => result'[c] = result[c]
  PROVE  Stray(e)'
  BY DEF Stray

\* A step of a call that leaves the host and the receipts as they are, and does
\* not take the call to a state with a scene read.
LEMMA QuietStep ==
  ASSUME HostInv, NEW c \in Calls,
         pc[c] \in {"idle", "locking", "before"},
         NEW p, p \in {"locking", "before", "refused", "validated", "blocked"},
         pc' = [pc EXCEPT ![c] = p],
         ran[c] = 0,
         lock' \in {lock, c, None},
         p = "before" => lock \in {None, c} /\ lock' = c /\ KeyOf[c] \notin DOMAIN receipts,
         p # "before" => lock' = IF lock = c THEN None ELSE lock,
         req' \in [Calls -> [payload : Payloads, dry_run : BOOLEAN,
                             revision : {None} \cup SUBSET Edit]],
         \A d \in Calls : d # c => req'[d] = req[d],
         UNCHANGED <<host, receipts, before, answer, result, tries>>
  PROVE  HostInv'
<1> USE DEF HostInv, host
<1>1. Typed'
  BY DEF Typed, Locked, Ended, Tasks
<1>2. Attempts'
  BY HostAssumption DEF Typed, Attempts, Tasks
<1>3. LockHeld'
  BY HostAssumption DEF Typed, LockHeld, Tasks, Locked, Ended
<1>4. Bound'
  BY DEF Typed, Bound, Tasks, Locked, Ended
<1>5. Progress'
  BY DEF Typed, Progress, Tasks, Ended, Script, TellsErrors
<1>6. \A e : Stray(e) => Stray(e)'
  BY StrayLasts DEF Typed, Tasks, Locked
<1>7. Serial'
  BY <1>6 DEF Typed, Serial, Tasks, Locked, Ended
<1> QED BY <1>1, <1>2, <1>3, <1>4, <1>5, <1>7

\* A call that is answered with the receipt of its key.
LEMMA AnsweredStep ==
  ASSUME HostInv, NEW c \in Calls, pc[c] \in {"idle", "locking"},
         NEW a \in [payload : Payloads, dry_run : BOOLEAN, revision : {None} \cup SUBSET Edit],
         Known(c), AnswerKnown(c, a.payload),
         req' = [req EXCEPT ![c] = a],
         UNCHANGED <<host, gateway, before, answer, tries>>
  PROVE  HostInv'
<1> USE DEF HostInv, host, gateway, AnswerKnown, Known
<1>0. PICK p \in {"replayed", "conflict"} : pc' = [pc EXCEPT ![c] = p]
  OBVIOUS
<1>a. /\ DOMAIN result' = DOMAIN result \cup {c}
      /\ result'[c] = receipts[KeyOf[c]]
      /\ \A d \in DOMAIN result : d # c => result'[d] = result[d]
  BY DEF Put
<1>1. Typed'
  BY <1>0, <1>a DEF Typed, Ended
<1>2. Attempts'
  BY <1>0, HostAssumption DEF Typed, Attempts, Tasks
<1>3. LockHeld'
  BY <1>0, HostAssumption DEF Typed, LockHeld, Tasks, Locked
<1>4. Bound'
  BY <1>0, <1>a DEF Typed, Bound, Tasks, Locked
<1>5. Progress'
  BY <1>0, <1>a DEF Typed, Progress, Bound, Tasks, Locked, Script
<1>6. \A e : Stray(e) => Stray(e)'
  BY <1>0, <1>a, StrayLasts DEF Typed, Tasks, Bound
<1>7. Serial'
  BY <1>0, <1>6 DEF Typed, Serial, Tasks, Locked
<1> QED BY <1>1, <1>2, <1>3, <1>4, <1>5, <1>7

LEMMA InvokeKeepsInv ==
  ASSUME HostInv, NEW c \in Calls, NEW a \in Arguments, Invoke(c, a)
  PROVE  HostInv'
<1>0. a \in [payload : Payloads, dry_run : BOOLEAN, revision : {None} \cup SUBSET Edit]
  BY DEF Arguments, HostInv, Typed
<1>1. CASE Replay(c, a)
  BY <1>0, <1>1, AnsweredStep DEF Replay
<1>2. CASE Refuse(c, a) \/ Begin(c, a)
  <2>1. \E p \in {"locking", "refused", "validated"} : pc' = [pc EXCEPT ![c] = p]
    BY <1>2 DEF Refuse, Begin
  <2>2. PICK p \in {"locking", "refused", "validated"} : pc' = [pc EXCEPT ![c] = p]
    BY <2>1
  <2>3. /\ pc[c] = "idle" /\ req' = [req EXCEPT ![c] = a]
        /\ UNCHANGED <<host, gateway, before, answer, result, tries>>
    BY <1>2 DEF Refuse, Begin
  <2>4. lock # c /\ ran[c] = 0
    BY <2>3 DEF HostInv, Typed, LockHeld, Progress, Tasks, Locked
  <2>5. /\ req' \in [Calls -> [payload : Payloads, dry_run : BOOLEAN,
                               revision : {None} \cup SUBSET Edit]]
        /\ \A d \in Calls : d # c => req'[d] = req[d]
    BY <1>0, <2>3 DEF HostInv, Typed
  <2> QED BY <2>2, <2>3, <2>4, <2>5, QuietStep DEF gateway
<1> QED BY <1>1, <1>2 DEF Invoke

LEMMA ReplayAfterWaitKeepsInv ==
  ASSUME HostInv, NEW c \in Calls, ReplayAfterWait(c)
  PROVE  HostInv'
<1>1. /\ req[c] \in [payload : Payloads, dry_run : BOOLEAN, revision : {None} \cup SUBSET Edit]
      /\ req' = [req EXCEPT ![c] = req[c]]
  BY DEF ReplayAfterWait, HostInv, Typed
<1> QED BY <1>1, AnsweredStep DEF ReplayAfterWait

LEMMA EnterKeepsInv ==
  ASSUME HostInv, NEW c \in Calls, Enter(c)
  PROVE  HostInv'
<1>1. ran[c] = 0
  BY DEF HostInv, Typed, Progress, Enter
<1>2. req' \in [Calls -> [payload : Payloads, dry_run : BOOLEAN,
                          revision : {None} \cup SUBSET Edit]]
  BY DEF HostInv, Typed, Enter
<1>3. pc[c] = "locking" /\ KeyOf[c] \notin DOMAIN receipts
  BY DEF Enter, Known
<1> QED BY <1>1, <1>2, <1>3, QuietStep DEF Enter

LEMMA RefuseStaleRevisionKeepsInv ==
  ASSUME HostInv, NEW c \in Calls, RefuseStaleRevision(c)
  PROVE  HostInv'
<1>1. ran[c] = 0 /\ lock = c
  BY DEF HostInv, Typed, Progress, LockHeld, RefuseStaleRevision, Locked, Tasks
<1>2. req' \in [Calls -> [payload : Payloads, dry_run : BOOLEAN,
                          revision : {None} \cup SUBSET Edit]]
  BY DEF HostInv, Typed, RefuseStaleRevision
<1> QED BY <1>1, <1>2, QuietStep DEF RefuseStaleRevision, Locked

LEMMA ReadBeforeKeepsInv ==
  ASSUME HostInv, NEW c \in Calls, ReadBefore(c)
  PROVE  HostInv'
<1> USE DEF HostInv, host, gateway, ReadBefore
<1>0. ran[c] = 0
  BY DEF Typed, Progress
<1>1. Typed'
  BY DEF Typed, Locked
<1>2. Attempts'
  BY HostAssumption DEF Typed, Attempts, Tasks
<1>3. LockHeld'
  BY DEF Typed, LockHeld, Tasks, Locked
<1>4. Bound'
  BY DEF Typed, Bound, Tasks, Locked
<1>5. Progress'
  <2>1. answer[c] = None
    BY DEF Progress
  <2> QED BY <1>0, <2>1, NoneIsNothing DEF Typed, Progress, Tasks, Script, TellsErrors, HostAnswers
<1>6. \A e : Stray(e) => Stray(e)'
  BY StrayLasts DEF Typed, Tasks
<1>7. Serial'
  BY <1>0, <1>6, NoneIsNothing DEF Typed, Serial, Tasks, RevisionMatches
<1> QED BY <1>1, <1>2, <1>3, <1>4, <1>5, <1>7

\* The host runs a script, whoever waits for it: the steps of one call, once.
LEMMA PerformKeepsTypes ==
  ASSUME Typed, Serial, NEW c \in Calls, NEW n \in Extents(c), Perform(c, n), ran[c] = 0
  PROVE  /\ n \in Nat /\ scene' \subseteq Edit
         /\ DOMAIN files' \subseteq Files /\ \A f \in DOMAIN files' : files'[f] \in Calls
         /\ ran' \in [Calls -> Nat] /\ ran'[c] = n /\ \A d \in Calls : d # c => ran'[d] = ran[d]
         /\ \A e \in scene' \ scene : e[1] = c /\ n > 0
         /\ scene \subseteq scene'
         /\ \A f \in DOMAIN files' : ran'[files'[f]] > 0
<1>1. Script(c) \in Seq({"edit"} \cup Files)
  BY HostAssumption DEF Script, Typed
<1>2. n \in Nat
  BY <1>1 DEF Extents
<1>3. /\ ran' \in [Calls -> Nat] /\ ran'[c] = n /\ \A d \in Calls : d # c => ran'[d] = ran[d]
  BY <1>2 DEF Perform, Typed
<1>4. \A e \in scene' \ scene : e \in {c} \X (1..n)
  BY DEF Perform
<1>5. \A e \in {c} \X (1..n) : e \in Edit /\ e[1] = c /\ n > 0
  BY <1>2 DEF Edit
<1>6. scene' \subseteq Edit /\ scene \subseteq scene'
  BY <1>4, <1>5 DEF Typed, Perform
<1>7. ASSUME NEW f \in DOMAIN files'
      PROVE  f \in Files /\ files'[f] \in Calls /\ ran'[files'[f]] > 0
  <2>1. CASE \E m \in 1..n : Script(c)[m] = f
    BY <1>2, <1>3, <2>1 DEF Perform, Typed
  <2>2. CASE ~ \E m \in 1..n : Script(c)[m] = f
    <3>1. f \in DOMAIN files /\ files'[f] = files[f]
      BY <2>2 DEF Perform
    <3> QED BY <1>3, <3>1 DEF Typed, Serial
  <2> QED BY <2>1, <2>2
<1> QED BY <1>2, <1>3, <1>4, <1>5, <1>6, <1>7

LEMMA RunScriptKeepsInv ==
  ASSUME HostInv, NEW c \in Calls, RunScript(c)
  PROVE  HostInv'
<1> USE DEF HostInv, gateway
<1>0. pc[c] = "sent" /\ answer[c] = None /\ ran[c] = 0 /\ lock = c
  BY DEF RunScript, Progress, LockHeld, Locked, Tasks
<1>1. PICK n \in Extents(c) :
        /\ Perform(c, n)
        /\ \E said \in IF n = Len(Script(c)) THEN {"ok"} ELSE {"error"} \cup (Faults \cap {"textError"}) :
              answer' = [answer EXCEPT ![c] = said]
  BY DEF RunScript
<1>2. PICK said \in IF n = Len(Script(c)) THEN {"ok"} ELSE {"error"} \cup (Faults \cap {"textError"}) :
        answer' = [answer EXCEPT ![c] = said]
  BY <1>1
<1>3. UNCHANGED <<orphans, lock, receipts, pc, req, before, result, tries>>
  BY DEF RunScript
<1>4. /\ n \in Nat /\ scene' \subseteq Edit
      /\ DOMAIN files' \subseteq Files /\ \A f \in DOMAIN files' : files'[f] \in Calls
      /\ ran' \in [Calls -> Nat] /\ ran'[c] = n /\ \A d \in Calls : d # c => ran'[d] = ran[d]
      /\ \A e \in scene' \ scene : e[1] = c /\ n > 0
      /\ scene \subseteq scene'
      /\ \A f \in DOMAIN files' : ran'[files'[f]] > 0
  BY <1>0, <1>1, PerformKeepsTypes
<1>5. said \in HostAnswers
  BY <1>2 DEF HostAnswers
<1>6. Typed'
  BY <1>2, <1>3, <1>4, <1>5 DEF Typed
<1>7. Attempts' /\ LockHeld' /\ Bound'
  BY <1>3 DEF Attempts, LockHeld, Bound
<1>8. Progress'
  <2>1. /\ said # None
        /\ said = "textError" => "textError" \in Faults
        /\ said = "ok" => n = Len(Script(c))
    BY <1>2, <1>5, NoneIsNothing
  <2>2. answer'[c] = said /\ \A d \in Calls : d # c => answer'[d] = answer[d]
    BY <1>2 DEF Typed
  <2>3. c \notin orphans
    BY <1>0 DEF Progress
  <2>4. /\ \A d \in Calls : Script(d)' = Script(d)
        /\ TellsErrors' = TellsErrors
        /\ \A d \in Calls : pc'[d] = pc[d] /\ (d # c => ran'[d] = ran[d])
    BY <1>3, <1>4 DEF Script, TellsErrors
  <2>5. /\ \A d \in Calls : ran'[d] > 0 => pc'[d] \in {"sent", "after", "returned", "cancelled"}
        /\ \A d \in Calls : pc'[d] \in {"idle", "locking", "before"} => answer'[d] = None
        /\ \A d \in Calls : pc'[d] = "sent" /\ answer'[d] = None => ran'[d] = 0
    BY <1>0, <2>1, <2>2, <2>4 DEF Progress
  <2>6. \A d \in orphans' :
          /\ ran'[d] = 0
          /\ pc'[d] = "cancelled" \/ (pc'[d] = "returned" /\ result'[d].status = "unknown")
    BY <1>3, <2>3, <2>4 DEF Progress, Typed
  <2>7. ASSUME NEW d \in Calls
        PROVE  /\ answer'[d] = "textError" => "textError" \in Faults
               /\ pc'[d] = "sent" /\ answer'[d] = "ok" => ran'[d] = Len(Script(d)')
               /\ pc'[d] = "after" /\ TellsErrors' => ran'[d] = Len(Script(d)')
               /\ pc'[d] = "returned" /\ result'[d].status = "completed" /\ TellsErrors'
                  => ran'[d] = Len(Script(d)')
    <3>1. CASE d = c
      BY <1>0, <1>4, <2>1, <2>2, <2>4, <3>1
    <3>2. CASE d # c
      BY <1>3, <2>2, <2>4, <3>2 DEF Progress
    <3> QED BY <3>1, <3>2
  <2> QED BY <2>5, <2>6, <2>7 DEF Progress
<1>9. \A e : Stray(e) => Stray(e)'
  BY <1>3 DEF Stray
<1>10. Serial'
  <2>1. \A e \in scene' : e[1] = None \/ (e[1] \in Calls /\ ran'[e[1]] > 0)
    BY <1>0, <1>4 DEF Serial
  <2>2. ASSUME NEW d \in Calls, pc[d] \in {"sent", "after"}
        PROVE  d = c
    BY <1>0, <2>2 DEF LockHeld, Locked, Tasks
  <2>3. \A k \in DOMAIN receipts : receipts[k].by # c
    BY <1>0 DEF Bound
  <2> QED BY <1>3, <1>4, <1>9, <2>1, <2>2, <2>3 DEF Serial
<1> QED BY <1>6, <1>7, <1>8, <1>10

LEMMA RunOrphanKeepsInv ==
  ASSUME HostInv, NEW c \in Calls, RunOrphan(c)
  PROVE  HostInv'
<1> USE DEF HostInv, gateway, calls
<1>0. /\ c \in orphans /\ ran[c] = 0
      /\ pc[c] = "cancelled" \/ (pc[c] = "returned" /\ result[c].status = "unknown")
  BY DEF RunOrphan, Progress
<1>1. PICK n \in Extents(c) : Perform(c, n)
  BY DEF RunOrphan
<1>2. /\ UNCHANGED <<lock, receipts, pc, req, before, answer, result, tries>>
      /\ orphans' = orphans \ {c}
  BY DEF RunOrphan
<1>3. /\ n \in Nat /\ scene' \subseteq Edit
      /\ DOMAIN files' \subseteq Files /\ \A f \in DOMAIN files' : files'[f] \in Calls
      /\ ran' \in [Calls -> Nat] /\ ran'[c] = n /\ \A d \in Calls : d # c => ran'[d] = ran[d]
      /\ \A e \in scene' \ scene : e[1] = c /\ n > 0
      /\ scene \subseteq scene'
      /\ \A f \in DOMAIN files' : ran'[files'[f]] > 0
  BY <1>0, <1>1, PerformKeepsTypes
<1>4. Typed'
  BY <1>2, <1>3 DEF Typed
<1>5. Attempts' /\ LockHeld' /\ Bound'
  BY <1>2 DEF Attempts, LockHeld, Bound
<1>6. Progress'
  BY <1>0, <1>2, <1>3 DEF Typed, Progress, Script, TellsErrors
<1>7. \A e : Stray(e) <=> Stray(e)'
  BY <1>2 DEF Stray
<1>8. Serial'
  <2>1. \A e \in scene' : e[1] = None \/ (e[1] \in Calls /\ ran'[e[1]] > 0)
    BY <1>0, <1>3 DEF Serial
  <2>2. \A e \in scene' \ scene : Stray(e)
    BY <1>0, <1>3 DEF Stray
  <2>3. ASSUME NEW k \in DOMAIN receipts, receipts[k].status = "completed"
        PROVE  receipts[k].by # c
    BY <1>0, <2>3 DEF Bound, Progress
  <2> QED BY <1>2, <1>3, <1>7, <2>1, <2>2, <2>3 DEF Serial
<1> QED BY <1>4, <1>5, <1>6, <1>8

LEMMA EditSceneKeepsInv ==
  ASSUME HostInv, NEW n \in 1..MaxEdits, EditScene(n)
  PROVE  HostInv'
<1> USE DEF HostInv, EditScene, gateway, calls
<1>1. Typed'
  BY HostAssumption DEF Typed, Edit
<1>2. Attempts' /\ LockHeld' /\ Bound' /\ Progress'
  BY DEF Attempts, LockHeld, Bound, Progress, Script
<1>3. Serial'
  <2>1. Stray(<<None, n>>)
    BY DEF Stray
  <2>2. \A e : Stray(e) <=> Stray(e)'
    BY DEF Stray
  <2>3. \A k \in DOMAIN receipts : receipts[k].by # None
    BY NoneIsNothing DEF Typed, Receipt
  <2> QED BY <2>1, <2>2, <2>3, NoneIsNothing DEF Serial
<1> QED BY <1>1, <1>2, <1>3

LEMMA ReceiveAnswerKeepsInv ==
  ASSUME HostInv, NEW c \in Calls, ReceiveAnswer(c)
  PROVE  HostInv'
<1> USE DEF HostInv, host, gateway, ReceiveAnswer
<1>1. Typed'
  BY DEF Typed, Locked
<1>2. Attempts' /\ LockHeld' /\ Bound'
  BY HostAssumption DEF Typed, Attempts, LockHeld, Bound, Tasks, Locked
<1>3. Progress'
  <2>1. TellsErrors => ran[c] = Len(Script(c))
    BY DEF Typed, Progress, ReportsError, TellsErrors, HostAnswers
  <2> QED BY <2>1 DEF Typed, Progress, Tasks, Script, TellsErrors
<1>4. \A e : Stray(e) => Stray(e)'
  BY StrayLasts DEF Typed, Tasks
<1>5. Serial'
  BY <1>4 DEF Typed, Serial, Tasks
<1> QED BY <1>1, <1>2, <1>3, <1>5

\* A call that leaves the lock with a receipt of its own.
LEMMA BindStep ==
  ASSUME HostInv, NEW c \in Calls, pc[c] \in {"before", "sent", "after"},
         NEW r \in Receipt, r.by = c, r.payload = req[c].payload,
         Bind(c, r), StopWaiting(c) \/ UNCHANGED orphans, Forget(c),
         r.status = "completed" => pc[c] = "after" /\ r.delta = scene \ before[c],
         UNCHANGED <<scene, files, ran, req, tries>>
  PROVE  HostInv'
<1> USE DEF HostInv, Bind, Forget
<1>0. KeyOf[c] \in Keys /\ KeyOf[c] \notin DOMAIN receipts /\ c \notin DOMAIN result /\ lock = c
  BY HostAssumption DEF Bound, LockHeld, Locked, Tasks
<1>a. /\ DOMAIN result' = DOMAIN result \cup {c}
      /\ result'[c] = r
      /\ \A d \in DOMAIN result : result'[d] = result[d]
      /\ DOMAIN receipts' = DOMAIN receipts \cup {KeyOf[c]}
      /\ receipts'[KeyOf[c]] = r
      /\ \A k \in DOMAIN receipts : receipts'[k] = receipts[k]
  BY <1>0 DEF Put
<1>b. orphans' = orphans \/ (orphans' = orphans \cup {c} /\ pc[c] = "sent" /\ answer[c] = None)
  BY DEF StopWaiting
<1>c. c \notin orphans
  BY DEF Progress
<1>1. Typed'
  BY <1>0, <1>a, <1>b DEF Typed, Ended
<1>2. Attempts'
  BY HostAssumption DEF Typed, Attempts, Tasks
<1>3. LockHeld'
  BY <1>0, HostAssumption DEF Typed, LockHeld, Tasks, Locked
<1>4. Bound'
  BY <1>0, <1>a DEF Typed, Bound, LockHeld, Tasks, Locked
<1>5. Progress'
  <2>1. r.status = "completed" /\ TellsErrors => ran[c] = Len(Script(c))
    BY DEF Progress
  <2>2. orphans' # orphans => ran[c] = 0 /\ r.status = "unknown"
    BY <1>b DEF Progress, Receipt
  <2> QED BY <1>a, <1>b, <1>c, <2>1, <2>2, NoneIsNothing
          DEF Typed, Progress, Bound, Tasks, Script, TellsErrors, HostAnswers
<1>6. \A e : Stray(e) => Stray(e)'
  BY <1>a, StrayLasts DEF Typed, Bound, Tasks
<1>7. Serial'
  <2>1. ASSUME NEW k \in DOMAIN receipts', receipts'[k].status = "completed"
        PROVE  /\ {e \in scene : e[1] = receipts'[k].by} \subseteq receipts'[k].delta
               /\ \A e \in receipts'[k].delta : e[1] = receipts'[k].by \/ Stray(e)'
    <3>1. CASE k = KeyOf[c]
      BY <1>6, <1>a, <2>1, <3>1 DEF Serial
    <3>2. CASE k # KeyOf[c]
      BY <1>6, <1>a, <2>1, <3>2 DEF Serial
    <3> QED BY <3>1, <3>2
  <2> QED BY <1>6, <2>1 DEF Typed, Serial, Tasks
<1> QED BY <1>1, <1>2, <1>3, <1>4, <1>5, <1>7

LEMMA FailKeepsInv ==
  ASSUME HostInv, NEW c \in Calls, Fail(c)
  PROVE  HostInv'
<1> DEFINE r == NewReceipt(c, "unknown", {})
<1>1. r \in Receipt /\ r.by = c /\ r.payload = req[c].payload /\ r.status # "completed"
  BY DEF HostInv, Typed, NewReceipt, Receipt
<1>2. /\ pc[c] \in {"before", "sent", "after"} /\ Bind(c, r) /\ StopWaiting(c) /\ Forget(c)
      /\ UNCHANGED <<scene, files, ran, req, tries>>
  BY DEF Fail
<1> HIDE DEF r
<1> QED BY <1>1, <1>2, BindStep

LEMMA ReadAfterKeepsInv ==
  ASSUME HostInv, NEW c \in Calls, ReadAfter(c)
  PROVE  HostInv'
<1> DEFINE r == NewReceipt(c, "completed", scene \ before[c])
<1>1. /\ r \in Receipt /\ r.by = c /\ r.payload = req[c].payload
      /\ r.delta = scene \ before[c]
  BY DEF HostInv, Typed, NewReceipt, Receipt
<1>2. /\ pc[c] = "after" /\ Bind(c, r) /\ UNCHANGED orphans /\ Forget(c)
      /\ UNCHANGED <<scene, files, ran, req, tries>>
  BY DEF ReadAfter, host
<1> HIDE DEF r
<1> QED BY <1>1, <1>2, BindStep

LEMMA CancelKeepsInv ==
  ASSUME HostInv, NEW c \in Calls, Cancel(c)
  PROVE  HostInv'
<1> USE DEF HostInv, Cancel, Forget
<1>0. c \notin DOMAIN result /\ c \notin orphans
  BY DEF Bound, Progress, Locked
<1>1. Typed'
  BY DEF Typed, Ended, StopWaiting
<1>2. Attempts'
  BY HostAssumption DEF Typed, Attempts, Tasks
<1>3. LockHeld'
  BY HostAssumption DEF Typed, LockHeld, Tasks, Locked
<1>4. Bound'
  BY DEF Typed, Bound, Tasks, Locked
<1>5. Progress'
  BY <1>0, NoneIsNothing
     DEF Typed, Progress, StopWaiting, Tasks, Script, TellsErrors, HostAnswers
<1>6. \A e : Stray(e) => Stray(e)'
  BY StrayLasts DEF Typed, Tasks, Locked
<1>7. Serial'
  BY <1>6 DEF Typed, Serial, Tasks
<1> QED BY <1>1, <1>2, <1>3, <1>4, <1>5, <1>7

----------------------------------------------------------------------------
(* Queries *)

LEMMA QueryKeepsInv ==
  ASSUME HostInv, NEW q \in Queries, StartQuery(q) \/ QueryStep(q) \/ CancelQuery(q)
  PROVE  HostInv'
<1> USE DEF HostInv, host, StartQuery, QueryStep, LockForQuery, ReadScene, AttemptFails, CancelQuery,
            EndQuery
<1>0. q \in Tasks /\ q \notin Calls
  BY HostAssumption DEF Tasks
<1>1. UNCHANGED <<host, receipts, req, before, answer, result>>
  BY DEF gateway
<1>2. /\ pc' = [pc EXCEPT ![q] = pc'[q]]
      /\ pc'[q] \in {"locking", "reading", "returned", "raised", "cancelled"}
  <2>1. CASE StartQuery(q) \/ LockForQuery(q) \/ ReadScene(q) \/ CancelQuery(q)
    BY <1>0, <2>1 DEF Typed
  <2>2. CASE AttemptFails(q)
    BY <1>0, <2>2 DEF Typed
  <2> QED BY <2>1, <2>2
<1>3. \A c \in Calls : pc'[c] = pc[c]
  BY <1>0, <1>2 DEF Typed, Tasks
<1>4. Typed'
  BY <1>0, <1>1, <1>2 DEF Typed, Locked, Ended
<1>5. Attempts'
  <2>1. CASE StartQuery(q) \/ LockForQuery(q) \/ ReadScene(q) \/ CancelQuery(q)
    BY <1>0, <2>1 DEF Typed, Attempts, Tasks
  <2>2. CASE AttemptFails(q)
    <3>1. tries[q] \in Nat /\ tries[q] < ReadAttempts /\ ReadAttempts \in Nat
      BY <2>2, HostAssumption DEF Attempts
    <3> QED BY <1>0, <2>2, <3>1 DEF Typed, Attempts, Tasks
  <2> QED BY <2>1, <2>2
<1>6. LockHeld'
  <2>1. \/ lock' = lock /\ (pc'[q] \in Locked <=> pc[q] \in Locked)
        \/ lock' = q /\ lock = None /\ pc'[q] \in Locked
        \/ lock' = None /\ lock = q /\ pc'[q] \notin Locked
    BY <1>0 DEF Typed, LockHeld, Locked, gateway
  <2> QED BY <1>0, <1>2, <2>1, HostAssumption DEF Typed, LockHeld, Tasks
<1>7. Bound' /\ Progress'
  BY <1>3, <1>1 DEF Typed, Bound, Progress, Script, TellsErrors
<1>8. \A e : Stray(e) <=> Stray(e)'
  BY <1>3, <1>1 DEF Stray
<1>9. Serial'
  BY <1>3, <1>1, <1>8 DEF Serial
<1> QED BY <1>4, <1>5, <1>6, <1>7, <1>9

----------------------------------------------------------------------------
(* The invariant and what follows from it *)

LEMMA NextKeepsInv == HostInv /\ [Next]_vars => HostInv'
<1> SUFFICES ASSUME HostInv, [Next]_vars PROVE HostInv'
  OBVIOUS
<1>1. ASSUME NEW c \in Calls, NEW a \in Arguments, Invoke(c, a) PROVE HostInv'
  BY <1>1, InvokeKeepsInv
<1>2. ASSUME NEW c \in Calls, CallStep(c) PROVE HostInv'
  BY <1>2, ReplayAfterWaitKeepsInv, EnterKeepsInv, ReadBeforeKeepsInv, RefuseStaleRevisionKeepsInv,
     RunScriptKeepsInv, ReceiveAnswerKeepsInv, FailKeepsInv, ReadAfterKeepsInv
     DEF CallStep
<1>3. ASSUME NEW c \in Calls, Cancel(c) \/ RunOrphan(c) PROVE HostInv'
  BY <1>3, CancelKeepsInv, RunOrphanKeepsInv
<1>4. ASSUME NEW q \in Queries, StartQuery(q) \/ QueryStep(q) \/ CancelQuery(q) PROVE HostInv'
  BY <1>4, QueryKeepsInv
<1>5. ASSUME NEW n \in 1..MaxEdits, EditScene(n) PROVE HostInv'
  BY <1>5, EditSceneKeepsInv
<1>6. CASE UNCHANGED vars \/ AllEnded
  <2>1. UNCHANGED vars
    BY <1>6 DEF AllEnded
  <2> QED BY <2>1 DEF vars, host, gateway, calls, HostInv, Typed, Attempts, LockHeld, Bound,
                      Progress, Serial, Script, TellsErrors, Stray
<1> QED BY <1>1, <1>2, <1>3, <1>4, <1>5, <1>6 DEF Next

\* HostInv is an invariant of the gateways.
THEOREM HostInvariant == Spec => []HostInv
  BY HostInvInit, NextKeepsInv, PTL DEF Spec

\* Every variable keeps its type.
THEOREM HostTypeCorrect == Spec => []TypeOK
<1>1. HostInv => TypeOK
  BY DEF HostInv, Typed, Attempts, LockHeld, TypeOK
<1> QED BY <1>1, HostInvariant, PTL

\* Every caller of a key that gets an answer gets the one receipt of the key.
THEOREM HostCallersAgree == Spec => []CallersOfAKeyAgree
<1>1. HostInv => CallersOfAKeyAgree
  BY DEF HostInv, Bound, CallersOfAKeyAgree
<1> QED BY <1>1, HostInvariant, PTL

\* The host runs two scripts of one key only if one of the calls was cancelled:
\* of two calls that ran, one is not inside the lock, so it returned and bound
\* the key, and a key is bound by one call and never worked under again.
THEOREM HostRepeatsOnlyAfterCancel == Spec => []RepeatOnlyAfterCancel
<1>1. ASSUME HostInv, NEW c \in Calls, NEW d \in Calls,
             c # d, KeyOf[c] = KeyOf[d], ran[c] > 0, ran[d] > 0
      PROVE  "cancelled" \in {pc[c], pc[d]}
  <2>1. /\ pc[c] \in {"sent", "after", "returned", "cancelled"}
        /\ pc[d] \in {"sent", "after", "returned", "cancelled"}
    BY <1>1 DEF HostInv, Progress
  <2>2. ~ (pc[c] \in Locked /\ pc[d] \in Locked)
    BY <1>1 DEF HostInv, LockHeld, Tasks
  <2>3. ~ (pc[c] \in Locked /\ pc[d] = "returned") /\ ~ (pc[d] \in Locked /\ pc[c] = "returned")
    BY <1>1 DEF HostInv, Bound
  <2>4. ~ (pc[c] = "returned" /\ pc[d] = "returned")
    BY <1>1 DEF HostInv, Bound
  <2> QED BY <2>1, <2>2, <2>3, <2>4 DEF Locked
<1>2. HostInv => RepeatOnlyAfterCancel
  BY <1>1 DEF RepeatOnlyAfterCancel
<1> QED BY <1>2, HostInvariant, PTL

\* What ran is covered by a receipt or by a cancellation, and a completed
\* receipt means that the whole script ran.
THEOREM HostStatusTells == Spec => []StatusTellsWhatRan
<1>1. HostInv => StatusTellsWhatRan
  BY DEF HostInv, Typed, Bound, Progress, StatusTellsWhatRan
<1> QED BY <1>1, HostInvariant, PTL

\* A completed receipt has every edit of its call and only stray ones of others.
THEOREM HostDeltaIsOwn == Spec => []DeltaIsOwn
<1>1. HostInv => DeltaIsOwn
  BY DEF HostInv, Bound, Serial, DeltaIsOwn
<1> QED BY <1>1, HostInvariant, PTL

\* The script of a call that names a revision runs on that revision.
THEOREM HostRunsOnItsRevision == Spec => RunsOnItsRevision
<1>1. ASSUME HostInv, [Next]_vars, NEW c \in Calls,
             pc[c] = "sent", ran'[c] # ran[c], req[c].revision # None
      PROVE  before[c] = req[c].revision /\ \A e \in scene \ before[c] : Stray(e)
  <2>1. \A e \in scene \ before[c] : e[1] = c \/ Stray(e)
    BY <1>1 DEF HostInv, Serial
  <2>2. before[c] = req[c].revision
    BY <1>1 DEF HostInv, Serial
  <2>3. ran[c] = 0
    <3>1. ASSUME answer[c] # None
          PROVE  UNCHANGED ran \/ \E d \in Calls : d # c /\ (RunScript(d) \/ RunOrphan(d))
      <4>1. c \notin orphans
        BY <1>1 DEF HostInv, Progress
      <4>2. ~RunScript(c) /\ ~RunOrphan(c)
        BY <3>1, <4>1 DEF RunScript, RunOrphan
      <4> QED BY <1>1, <4>2
              DEF Next, vars, host, Invoke, Replay, Refuse, Begin, CallStep, ReplayAfterWait, Enter, ReadBefore,
                  RefuseStaleRevision, ReceiveAnswer, Fail, ReadAfter, Cancel, StartQuery, QueryStep,
                  LockForQuery, ReadScene, AttemptFails, CancelQuery, EditScene, AllEnded
    <3>2. ASSUME NEW d \in Calls, d # c, RunScript(d) \/ RunOrphan(d) PROVE ran'[c] = ran[c]
      BY <1>1, <3>2 DEF RunScript, RunOrphan, Perform, HostInv, Typed
    <3> QED BY <1>1, <3>1, <3>2 DEF HostInv, Progress
  <2>4. \A e \in scene : e[1] # c
    BY <1>1, <2>3, NoneIsNothing DEF HostInv, Serial
  <2> QED BY <2>1, <2>2, <2>4
<1>2. HostInv /\ [Next]_vars
      => [\A c \in Calls :
             pc[c] = "sent" /\ ran'[c] # ran[c] /\ req[c].revision # None
             => before[c] = req[c].revision /\ \A e \in scene \ before[c] : Stray(e)]_vars
  BY <1>1
<1>3. Spec => [][\A c \in Calls :
                   pc[c] = "sent" /\ ran'[c] # ran[c] /\ req[c].revision # None
                   => before[c] = req[c].revision /\ \A e \in scene \ before[c] : Stray(e)]_vars
  BY <1>2, HostInvariant, PTL DEF Spec
<1> QED BY <1>3 DEF RunsOnItsRevision

\* A call is refused for an output of its own key only while the call that
\* wrote it is at work or after that call was cancelled.
THEOREM HostRefusesOthersOutput == Spec => RefusedForOthersOutput
<1>1. ASSUME HostInv, [Next]_vars, NEW c \in Calls, pc[c] = "idle", pc'[c] = "refused"
      PROVE  \E f \in DOMAIN files : \/ KeyOf[files[f]] # KeyOf[c]
                                     \/ pc[files[f]] \in {"sent", "after", "cancelled"}
  <2>1. \E a \in Arguments : Refuse(c, a)
    <3>1. ASSUME NEW d \in Calls, NEW a \in Arguments, Invoke(d, a) PROVE Refuse(c, a)
      BY <1>1, <3>1 DEF HostInv, Typed, Tasks, Invoke, Replay, AnswerKnown, Refuse, Begin
    <3>2. ASSUME NEW d \in Calls, CallStep(d) \/ Cancel(d) \/ RunOrphan(d) PROVE FALSE
      BY <1>1, <3>2
         DEF HostInv, Typed, Tasks, CallStep, ReplayAfterWait, AnswerKnown, Enter, ReadBefore,
             RefuseStaleRevision, RunScript, ReceiveAnswer, Fail, Bind, ReadAfter, Cancel,
             RunOrphan, calls, Locked
    <3>3. ASSUME NEW q \in Queries, StartQuery(q) \/ QueryStep(q) \/ CancelQuery(q) PROVE FALSE
      <4>1. q # c
        BY HostAssumption
      <4> QED BY <1>1, <3>3, <4>1
                 DEF HostInv, Typed, Tasks, StartQuery, QueryStep, LockForQuery, ReadScene,
                     AttemptFails, CancelQuery, EndQuery
    <3>4. ~ UNCHANGED pc
      BY <1>1
    <3> QED BY <1>1, <3>1, <3>2, <3>3, <3>4 DEF Next, EditScene, AllEnded, vars, calls
  <2>2. PICK f \in DOMAIN files : ~Known(c)
    BY <2>1 DEF Refuse
  <2>3. /\ files[f] \in Calls
        /\ pc[files[f]] \in {"sent", "after", "returned", "cancelled"}
    BY <1>1 DEF HostInv, Typed, Serial, Progress
  <2>4. pc[files[f]] = "returned" => KeyOf[files[f]] \in DOMAIN receipts
    BY <1>1, <2>3 DEF HostInv, Bound
  <2> QED BY <2>2, <2>3, <2>4 DEF Known
<1>2. HostInv /\ [Next]_vars
      => [\A c \in Calls : pc[c] = "idle" /\ pc'[c] = "refused" =>
             \E f \in DOMAIN files : \/ KeyOf[files[f]] # KeyOf[c]
                                     \/ pc[files[f]] \in {"sent", "after", "cancelled"}]_vars
  BY <1>1
<1>3. Spec => [][\A c \in Calls : pc[c] = "idle" /\ pc'[c] = "refused" =>
                   \E f \in DOMAIN files : \/ KeyOf[files[f]] # KeyOf[c]
                                           \/ pc[files[f]] \in {"sent", "after", "cancelled"}]_vars
  BY <1>2, HostInvariant, PTL DEF Spec
<1> QED BY <1>3 DEF RefusedForOthersOutput

----------------------------------------------------------------------------
(* The gateways implement the ledger *)

AbstractLedger == [k \in DOMAIN receipts |-> Outcome(receipts[k])]
AbstractAnswer == [c \in DOMAIN result |-> Outcome(result[c])]
NoOutcome == {"refused", "validated", "blocked", "cancelled"}
AbstractGone == {c \in Calls : pc[c] \in NoOutcome}

LEMMA LedgerInit == Init => Ledger!Init
  BY DEF Init, Ledger!Init, Empty, Tasks

LEMMA BindSettles ==
  ASSUME HostInv, NEW c \in Calls, pc[c] \in {"before", "sent", "after"},
         NEW r \in Receipt, Bind(c, r)
  PROVE  Ledger!Next
<1>1. c \notin DOMAIN result /\ pc[c] \notin NoOutcome /\ KeyOf[c] \notin DOMAIN receipts
  BY DEF HostInv, Bound, Locked, NoOutcome
<1>2. KeyOf[c] # None
  BY HostAssumption
<1>3. AbstractLedger' = Ledger!Extend(AbstractLedger, KeyOf[c], Outcome(r))
  BY DEF AbstractLedger, Bind, Put, Ledger!Extend
<1>4. AbstractAnswer' = Ledger!Extend(AbstractAnswer, c, Outcome(r))
  BY DEF AbstractAnswer, Bind, Put, Ledger!Extend
<1>5. AbstractGone' = AbstractGone
  BY <1>1 DEF AbstractGone, HostInv, Typed, Tasks, Bind, NoOutcome
<1>6. Outcome(r) \in [payload : Payloads, status : {"completed", "unknown"}]
  BY DEF Outcome, Receipt
<1>7. Ledger!Settle(c, Outcome(r))
  BY <1>1, <1>2, <1>3, <1>4, <1>5
     DEF Ledger!Settle, Ledger!Pending, AbstractLedger, AbstractAnswer, AbstractGone, NoOutcome
<1> QED BY <1>6, <1>7 DEF Ledger!Next

LEMMA AnswerRepeats ==
  ASSUME HostInv, NEW c \in Calls, pc[c] \in {"idle", "locking"}, NEW p,
         Known(c), AnswerKnown(c, p), UNCHANGED receipts
  PROVE  Ledger!Next
<1>1. c \notin DOMAIN result /\ pc[c] \notin NoOutcome
  BY DEF HostInv, Bound, NoOutcome
<1>2. /\ KeyOf[c] \in DOMAIN AbstractLedger /\ AbstractLedger' = AbstractLedger
      /\ AbstractAnswer' = Ledger!Extend(AbstractAnswer, c, AbstractLedger[KeyOf[c]])
  BY DEF AbstractAnswer, AbstractLedger, AnswerKnown, Known, Put, Ledger!Extend
<1>3. AbstractGone' = AbstractGone
  BY <1>1 DEF AbstractGone, HostInv, Typed, Tasks, AnswerKnown, NoOutcome
<1>4. Ledger!Repeat(c)
  BY <1>1, <1>2, <1>3
     DEF Ledger!Repeat, Ledger!Pending, AbstractLedger, AbstractAnswer, AbstractGone, NoOutcome
<1> QED BY <1>4 DEF Ledger!Next

LEMMA EndLeaves ==
  ASSUME HostInv, NEW c \in Calls, pc[c] \in {"idle", "locking"} \cup Locked,
         NEW p \in NoOutcome, pc' = [pc EXCEPT ![c] = p],
         UNCHANGED <<receipts, result>>
  PROVE  Ledger!Next
<1>1. c \notin DOMAIN result /\ pc[c] \notin NoOutcome
  BY DEF HostInv, Bound, Locked, NoOutcome
<1>2. AbstractGone' = AbstractGone \cup {c}
  BY DEF AbstractGone, HostInv, Typed, Tasks
<1>3. AbstractAnswer' = AbstractAnswer /\ AbstractLedger' = AbstractLedger
  BY DEF AbstractAnswer, AbstractLedger
<1>4. Ledger!Leave(c)
  BY <1>1, <1>2, <1>3
     DEF Ledger!Leave, Ledger!Pending, AbstractLedger, AbstractAnswer, AbstractGone, NoOutcome
<1> QED BY <1>4 DEF Ledger!Next

LEMMA MoveStutters ==
  ASSUME UNCHANGED <<receipts, result>>,
         \A c \in Calls : pc'[c] \in NoOutcome <=> pc[c] \in NoOutcome
  PROVE  UNCHANGED Ledger!vars
  BY DEF Ledger!vars, NoOutcome

LEMMA CallImplements ==
  ASSUME HostInv, NEW c \in Calls,
         CallStep(c) \/ Cancel(c) \/ \E a \in Arguments : Invoke(c, a)
  PROVE  Ledger!Next \/ UNCHANGED Ledger!vars
<1>1. CASE Fail(c) \/ ReadAfter(c)
  <2>1. PICK r \in Receipt : pc[c] \in {"before", "sent", "after"} /\ Bind(c, r)
    <3>1. NewReceipt(c, "unknown", {}) \in Receipt
      BY DEF HostInv, Typed, NewReceipt, Receipt
    <3>2. NewReceipt(c, "completed", scene \ before[c]) \in Receipt
      BY DEF HostInv, Typed, NewReceipt, Receipt
    <3> QED BY <1>1, <3>1, <3>2 DEF Fail, ReadAfter
  <2> QED BY <2>1, BindSettles
<1>2. CASE ReplayAfterWait(c) \/ \E a \in Arguments : Replay(c, a)
  BY <1>2, AnswerRepeats DEF ReplayAfterWait, Replay, gateway
<1>3. CASE RefuseStaleRevision(c) \/ Cancel(c) \/ \E a \in Arguments : Refuse(c, a)
  BY <1>3, EndLeaves DEF RefuseStaleRevision, Cancel, Refuse, Locked, gateway, NoOutcome
<1>4. ASSUME NEW a \in Arguments, Begin(c, a)
      PROVE  Ledger!Next \/ UNCHANGED Ledger!vars
  <2>1. CASE a.dry_run
    BY <1>4, <2>1, EndLeaves DEF Begin, gateway, NoOutcome
  <2>2. CASE ~a.dry_run
    BY <1>4, <2>2, MoveStutters DEF Begin, gateway, NoOutcome, HostInv, Typed, Tasks
  <2> QED BY <2>1, <2>2
<1>5. CASE Enter(c) \/ ReadBefore(c) \/ RunScript(c) \/ ReceiveAnswer(c)
  BY <1>5, MoveStutters
     DEF Enter, ReadBefore, RunScript, ReceiveAnswer, gateway, NoOutcome, HostInv, Typed, Tasks
<1> QED BY <1>1, <1>2, <1>3, <1>4, <1>5 DEF CallStep, Invoke

LEMMA StepImplements == HostInv /\ [Next]_vars => [Ledger!Next]_(Ledger!vars)
<1> SUFFICES ASSUME HostInv, [Next]_vars PROVE Ledger!Next \/ UNCHANGED Ledger!vars
  OBVIOUS
<1>1. ASSUME NEW c \in Calls, CallStep(c) \/ Cancel(c) \/ \E a \in Arguments : Invoke(c, a)
      PROVE  Ledger!Next \/ UNCHANGED Ledger!vars
  BY <1>1, CallImplements
<1>2. ASSUME NEW q \in Queries, StartQuery(q) \/ QueryStep(q) \/ CancelQuery(q)
      PROVE  UNCHANGED Ledger!vars
  <2>1. UNCHANGED <<receipts, result>> /\ \A c \in Calls : pc'[c] = pc[c]
    BY <1>2, HostAssumption
       DEF HostInv, Typed, Tasks, StartQuery, QueryStep, LockForQuery, ReadScene, AttemptFails,
           CancelQuery, EndQuery, gateway
  <2> QED BY <2>1, MoveStutters
<1>3. CASE \/ \E c \in Calls : RunOrphan(c)
           \/ \E n \in 1..MaxEdits : EditScene(n)
           \/ AllEnded \/ UNCHANGED vars
  BY <1>3, MoveStutters DEF RunOrphan, EditScene, AllEnded, vars, gateway, calls
<1> QED BY <1>1, <1>2, <1>3 DEF Next

\* Seen through their receipts, the gateways are an idempotent ledger.
THEOREM HostImplementsLedger == Spec => ImplementsLedger
<1>1. Spec => Ledger!Spec
  BY LedgerInit, StepImplements, HostInvariant, PTL DEF Spec, Ledger!Spec
<1> QED BY <1>1 DEF ImplementsLedger

----------------------------------------------------------------------------
(* The gateways serialise the document *)

AbstractEvidence ==
    [c \in Saying("completed") |-> [revision |-> req[c].revision, changes |-> result[c].delta]]
AbstractSilent == Saying("unknown") \cup {c \in Calls : pc[c] = "cancelled"}

\* A script nobody waits for is left behind only by the faults that disturb.
Undisturbed == ~Disturbed => orphans = {}

LEMMA NextKeepsUndisturbed == HostInv /\ Undisturbed /\ [Next]_vars => Undisturbed'
<1> SUFFICES ASSUME HostInv, Undisturbed, [Next]_vars, ~Disturbed PROVE orphans' = {}
  BY DEF Undisturbed, Disturbed
<1>1. orphans = {} /\ Faults \cap {"cancel", "loss", "external"} = {}
  BY DEF Undisturbed, Disturbed
<1>2. ASSUME NEW c \in Calls, Fail(c) PROVE orphans' = {}
  BY <1>1, <1>2, NoneIsNothing DEF Fail, StopWaiting, ReportsError, HostAnswers
<1>3. ASSUME NEW c \in Calls, ~Fail(c), CallStep(c) \/ Cancel(c) \/ RunOrphan(c) PROVE orphans' = {}
  BY <1>1, <1>3
     DEF CallStep, ReplayAfterWait, Enter, ReadBefore, RefuseStaleRevision, RunScript,
         ReceiveAnswer, ReadAfter, Cancel, RunOrphan, host
<1>4. ASSUME NEW c \in Calls, NEW a \in Arguments, Invoke(c, a) PROVE orphans' = {}
  BY <1>1, <1>4 DEF Invoke, Replay, Refuse, Begin, host
<1>5. ASSUME NEW q \in Queries, StartQuery(q) \/ QueryStep(q) \/ CancelQuery(q) PROVE orphans' = {}
  BY <1>1, <1>5 DEF StartQuery, QueryStep, LockForQuery, ReadScene, AttemptFails, CancelQuery, host
<1>6. CASE (\E n \in 1..MaxEdits : EditScene(n)) \/ AllEnded \/ UNCHANGED vars
  BY <1>1, <1>6 DEF EditScene, AllEnded, vars, host
<1> QED BY <1>2, <1>3, <1>4, <1>5, <1>6 DEF Next

LEMMA DocumentInit == Init => Document!Init /\ Undisturbed
<1> SUFFICES ASSUME Init PROVE Document!Init /\ Undisturbed
  OBVIOUS
<1>1. Saying("completed") = {} /\ AbstractSilent = {}
  BY DEF Init, Saying, AbstractSilent, Tasks
<1>2. Committed = {}
  BY HostAssumption DEF Init, Committed, Tasks
<1> QED BY <1>1, <1>2 DEF Document!Init, Init, Undisturbed, AbstractSilent, Empty

\* What has been said stays as it is, whoever moves.
LEMMA SaidStays ==
  ASSUME HostInv, NEW c \in Calls, NEW p, p \notin {"returned", "cancelled"},
         pc[c] \in {"idle", "locking"} \cup Locked,
         pc' = [pc EXCEPT ![c] = p],
         \A d \in Calls : d # c => req'[d] = req[d],
         \A d \in DOMAIN result : result'[d] = result[d]
  PROVE  AbstractEvidence' = AbstractEvidence /\ AbstractSilent' = AbstractSilent
<1>1. \A d \in Calls : /\ pc[d] = "returned" <=> pc'[d] = "returned"
                       /\ pc[d] = "cancelled" <=> pc'[d] = "cancelled"
  BY DEF HostInv, Typed, Tasks, Locked
<1>2. \A d \in Calls : pc[d] = "returned" => d # c /\ result'[d] = result[d] /\ req'[d] = req[d]
  BY DEF HostInv, Bound, Locked
<1>3. \A s : Saying(s)' = Saying(s)
  BY <1>1, <1>2 DEF Saying
<1>4. \A d \in Saying("completed") : d \in Calls /\ pc[d] = "returned"
  BY DEF Saying
<1> QED BY <1>1, <1>2, <1>3, <1>4 DEF AbstractEvidence, AbstractSilent

\* A step of a call between its start and its end is no step of the document.
LEMMA WorkIsInvisible ==
  ASSUME HostInv, NEW c \in Calls,
         Enter(c) \/ ReadBefore(c) \/ RefuseStaleRevision(c) \/ RunScript(c) \/ ReceiveAnswer(c)
  PROVE  UNCHANGED Document!vars
<1>1. PICK p \in {"before", "sent", "blocked", "after"} : pc' = [pc EXCEPT ![c] = p]
  <2>1. CASE RunScript(c)
    BY <2>1 DEF RunScript, HostInv, Typed
  <2> QED BY <2>1 DEF Enter, ReadBefore, RefuseStaleRevision, ReceiveAnswer
<1>2. AbstractEvidence' = AbstractEvidence /\ AbstractSilent' = AbstractSilent
  BY <1>1, SaidStays
     DEF Enter, ReadBefore, RefuseStaleRevision, RunScript, ReceiveAnswer, Locked
<1>3. Committed' = Committed
  <2>1. CASE Enter(c) \/ RefuseStaleRevision(c)
    BY <2>1, NoneIsNothing
       DEF HostInv, Typed, LockHeld, Locked, Tasks, Enter, RefuseStaleRevision, Committed, host
  <2>2. CASE ReadBefore(c)
    BY <2>2 DEF HostInv, Typed, LockHeld, Locked, Tasks, ReadBefore, Committed, host, gateway
  <2>3. CASE RunScript(c) \/ ReceiveAnswer(c)
    BY <2>3 DEF HostInv, Typed, LockHeld, Locked, Tasks, RunScript, ReceiveAnswer, Committed, host, gateway
  <2> QED BY <2>1, <2>2, <2>3
<1> QED BY <1>2, <1>3 DEF Document!vars, AbstractEvidence, AbstractSilent

\* Nor is an answer of the ledger, or the end of a call that did not start.
LEMMA AnswerIsInvisible ==
  ASSUME HostInv, NEW c \in Calls,
         ReplayAfterWait(c) \/ \E a \in Arguments : Invoke(c, a)
  PROVE  UNCHANGED Document!vars
<1>1. PICK p \in {"replayed", "conflict", "refused", "validated", "locking"} :
        pc' = [pc EXCEPT ![c] = p]
  BY DEF ReplayAfterWait, Invoke, Replay, Refuse, Begin, AnswerKnown
<1>2. pc[c] \in {"idle", "locking"} /\ c \notin DOMAIN result
  BY DEF ReplayAfterWait, Invoke, Replay, Refuse, Begin, HostInv, Bound
<1>3. \A d \in DOMAIN result : result'[d] = result[d]
  BY <1>2 DEF ReplayAfterWait, Invoke, Replay, Refuse, Begin, AnswerKnown, Put
<1>4. \A d \in Calls : d # c => req'[d] = req[d]
  BY DEF ReplayAfterWait, Invoke, Replay, Refuse, Begin, HostInv, Typed
<1>5. AbstractEvidence' = AbstractEvidence /\ AbstractSilent' = AbstractSilent
  BY <1>1, <1>2, <1>3, <1>4, SaidStays
<1>6. UNCHANGED <<scene, lock, before>>
  BY DEF ReplayAfterWait, Invoke, Replay, Refuse, Begin, host, gateway
<1>7. Committed' = Committed
  BY <1>1, <1>2, <1>6 DEF HostInv, Typed, Tasks, Committed
<1> QED BY <1>5, <1>7 DEF Document!vars, AbstractEvidence, AbstractSilent

\* A batch whose second read succeeds happens at that moment, to the revision
\* it names, and its delta is the difference.
LEMMA ReadAfterReports ==
  ASSUME HostInv, NEW c \in Calls, ReadAfter(c)
  PROVE  Document!Report(c)
<1>1. pc[c] = "after" /\ c \notin DOMAIN result /\ lock = c
  BY DEF ReadAfter, HostInv, Bound, LockHeld, Locked, Tasks
<1>2. /\ pc' = [pc EXCEPT ![c] = "returned"] /\ lock' = None
      /\ result' = Put(result, c, NewReceipt(c, "completed", scene \ before[c]))
      /\ UNCHANGED <<scene, req>>
  BY DEF ReadAfter, Bind, host
<1>3. /\ result'[c] = NewReceipt(c, "completed", scene \ before[c])
      /\ \A d \in DOMAIN result : result'[d] = result[d]
  BY <1>1, <1>2 DEF Put
<1>4. /\ result'[c].status = "completed" /\ result'[c].delta = scene \ before[c]
  BY <1>3 DEF NewReceipt
<1>5. \A d \in Calls : d # c => pc'[d] = pc[d]
  BY <1>2 DEF HostInv, Typed, Tasks
<1>6. \A d \in Calls : pc[d] = "returned" => d \in DOMAIN result
  BY DEF HostInv, Bound
<1>7. pc'[c] = "returned"
  BY <1>2 DEF HostInv, Typed, Tasks
<1>8. /\ Saying("completed")' = Saying("completed") \cup {c}
      /\ Saying("unknown")' = Saying("unknown")
  BY <1>1, <1>3, <1>4, <1>5, <1>6, <1>7 DEF Saying
<1>9. AbstractSilent' = AbstractSilent
  BY <1>1, <1>5, <1>7, <1>8 DEF AbstractSilent
<1>10. c \notin Saying("completed") /\ c \notin AbstractSilent
  BY <1>1 DEF Saying, AbstractSilent
<1>11. /\ DOMAIN AbstractEvidence' = DOMAIN AbstractEvidence \cup {c}
       /\ \A d \in DOMAIN AbstractEvidence : AbstractEvidence'[d] = AbstractEvidence[d]
       /\ AbstractEvidence'[c] = [revision |-> req[c].revision, changes |-> scene \ before[c]]
  <2>1. \A d \in Saying("completed") : d \in DOMAIN result
    BY <1>6 DEF Saying
  <2> QED BY <1>2, <1>3, <1>4, <1>8, <2>1 DEF AbstractEvidence
<1>12. Committed = before[c] /\ Committed' = scene
  BY <1>1, <1>2, NoneIsNothing DEF Committed
<1>13. req[c].revision \in {None, before[c]}
  BY <1>1 DEF HostInv, Serial
<1> QED BY <1>9, <1>10, <1>11, <1>12, <1>13
        DEF Document!Report, Document!Running, AbstractEvidence, AbstractSilent, Added

\* A call that fails or is cancelled says nothing about its batch.
LEMMA EndsSilently ==
  ASSUME HostInv, NEW c \in Calls, Fail(c) \/ Cancel(c)
  PROVE  Document!EndSilently(c)
<1>1. pc[c] \in {"locking"} \cup Locked /\ c \notin DOMAIN result
  BY DEF Fail, Cancel, HostInv, Bound, Locked
<1>2. \A d \in Calls : d # c => pc'[d] = pc[d] /\ pc'[c] \in {"returned", "cancelled"}
  BY DEF Fail, Bind, Cancel, HostInv, Typed, Tasks
<1>3. /\ \A d \in DOMAIN result : result'[d] = result[d]
      /\ pc'[c] = "cancelled" \/ (pc'[c] = "returned" /\ result'[c].status = "unknown")
      /\ UNCHANGED req
  BY <1>1 DEF Fail, Bind, Put, NewReceipt, Cancel, HostInv, Typed, Tasks
<1>4. \A d \in Calls : pc[d] = "returned" => d \in DOMAIN result
  BY DEF HostInv, Bound
<1>5. pc[c] \notin {"returned", "cancelled"}
  BY <1>1 DEF Locked
<1>6. Saying("completed")' = Saying("completed")
  BY <1>2, <1>3, <1>4, <1>5 DEF Saying
<1>7. AbstractSilent' = AbstractSilent \cup {c}
  BY <1>2, <1>3, <1>4, <1>5 DEF Saying, AbstractSilent
<1>8. AbstractEvidence' = AbstractEvidence
  <2>1. \A d \in Saying("completed") : d \in DOMAIN result
    BY <1>4 DEF Saying
  <2> QED BY <1>3, <1>6, <2>1 DEF AbstractEvidence
<1>9. c \notin Saying("completed") /\ c \notin AbstractSilent
  BY <1>5 DEF Saying, AbstractSilent
<1> QED BY <1>7, <1>8, <1>9
        DEF Document!EndSilently, Document!Running, AbstractEvidence, AbstractSilent

\* Reading the scene does not touch the document.
LEMMA QueryIsInvisible ==
  ASSUME HostInv, NEW q \in Queries, StartQuery(q) \/ QueryStep(q) \/ CancelQuery(q)
  PROVE  UNCHANGED Document!vars
<1>1. /\ UNCHANGED <<scene, result, req, before>> /\ \A c \in Calls : pc'[c] = pc[c]
      /\ lock' = lock \/ (lock \in {None, q} /\ lock' \in {None, q})
  BY HostAssumption
     DEF HostInv, Typed, Tasks, StartQuery, QueryStep, LockForQuery, ReadScene, AttemptFails,
         CancelQuery, EndQuery, gateway, host
<1>2. q \notin Calls
  BY HostAssumption
<1>3. Committed' = Committed
  BY <1>1, <1>2, NoneIsNothing DEF Committed
<1>4. \A s : Saying(s)' = Saying(s)
  BY <1>1 DEF Saying
<1>5. AbstractEvidence' = AbstractEvidence /\ AbstractSilent' = AbstractSilent
  BY <1>1, <1>4 DEF AbstractEvidence, AbstractSilent
<1> QED BY <1>3, <1>5 DEF Document!vars, AbstractEvidence, AbstractSilent

LEMMA StepSerialises == HostInv /\ Undisturbed /\ [Next]_vars => [Document!Next]_(Document!vars)
<1> SUFFICES ASSUME HostInv, Undisturbed, [Next]_vars
             PROVE  Document!Next \/ UNCHANGED Document!vars
  OBVIOUS
<1>1. ASSUME NEW c \in Calls, CallStep(c) \/ Cancel(c) PROVE Document!Next \/ UNCHANGED Document!vars
  BY <1>1, WorkIsInvisible, AnswerIsInvisible, ReadAfterReports, EndsSilently
     DEF CallStep, Document!Next
<1>2. ASSUME NEW c \in Calls, NEW a \in Arguments, Invoke(c, a) PROVE UNCHANGED Document!vars
  BY <1>2, AnswerIsInvisible
<1>3. ASSUME NEW q \in Queries, StartQuery(q) \/ QueryStep(q) \/ CancelQuery(q)
      PROVE  UNCHANGED Document!vars
  BY <1>3, QueryIsInvisible
<1>4. CASE (\E c \in Calls : RunOrphan(c)) \/ (\E n \in 1..MaxEdits : EditScene(n))
  <2>1. Disturbed
    BY <1>4 DEF Undisturbed, RunOrphan, EditScene, Disturbed
  <2>2. UNCHANGED <<pc, result, req>>
    BY <1>4 DEF RunOrphan, EditScene, calls
  <2>3. AbstractEvidence' = AbstractEvidence /\ AbstractSilent' = AbstractSilent
    BY <2>2 DEF AbstractEvidence, AbstractSilent, Saying
  <2> QED BY <2>1, <2>3 DEF Document!Next, Document!Disturb, AbstractEvidence, AbstractSilent
<1>5. CASE AllEnded \/ UNCHANGED vars
  BY <1>5 DEF AllEnded, vars, host, gateway, calls, Document!vars, Committed, Saying
<1> QED BY <1>1, <1>2, <1>3, <1>4, <1>5 DEF Next

\* Seen through their scenes and receipts, the gateways make one batch at a time.
THEOREM HostImplementsSerialDocument == Spec => ImplementsSerialDocument
<1>1. Spec => Document!Spec
  BY DocumentInit, HostInvInit, StepSerialises, NextKeepsUndisturbed, NextKeepsInv, PTL
     DEF Spec, Document!Spec
<1> QED BY <1>1 DEF ImplementsSerialDocument
----------------------------------------------------------------------------
(* Why every coroutine can end: what liveness rests on without fairness *)

Live(t) == pc[t] \notin {"idle"} \cup Ended

\* What a coroutine awaits is there: the next step of its code can be taken.
CanStep(t) == pc[t] \in Locked \/ (pc[t] = "locking" /\ lock = None)

\* A coroutine that started can go on, or waits for a lock whose holder can.
NobodyIsStuck ==
    \A t \in Tasks : Live(t) => CanStep(t) \/ (lock \in Tasks /\ Live(lock) /\ CanStep(lock))

\* The steps a coroutine has left at most.
CallStepsLeft(c) ==
    CASE pc[c] = "locking" -> 5
      [] pc[c] = "before" -> 4
      [] pc[c] = "sent" /\ answer[c] = None -> 3
      [] pc[c] = "sent" /\ answer[c] # None -> 2
      [] pc[c] = "after" -> 1
      [] OTHER -> 0

QueryStepsLeft(q) ==
    IF pc[q] = "locking" THEN ReadAttempts - tries[q] + 1
    ELSE IF pc[q] = "reading" THEN ReadAttempts - tries[q]
    ELSE 0

Shrinks(left, after, steps) ==
    /\ left \in Nat /\ after \in Nat
    /\ after <= left
    /\ steps => after < left

\* A started coroutine has finitely many steps left.  Each of its own steps
\* makes them fewer, nothing anybody else does makes them more, and none of
\* them starts again.
EachStepIsNearer ==
    [][/\ \A c \in Calls : pc[c] # "idle" =>
             pc'[c] # "idle" /\ Shrinks(CallStepsLeft(c), CallStepsLeft(c)', CallStep(c))
       /\ \A q \in Queries : pc[q] # "idle" =>
             pc'[q] # "idle" /\ Shrinks(QueryStepsLeft(q), QueryStepsLeft(q)', QueryStep(q))]_vars

\* Calls and queries have places of their own inside the lock.
Places ==
    /\ \A c \in Calls : pc[c] # "reading"
    /\ \A q \in Queries : pc[q] \in {"idle", "locking", "reading"} \cup Ended

LEMMA CallMoves ==
  ASSUME HostInv, NEW c \in Calls, pc[c] # "reading", CallStep(c) \/ Cancel(c)
  PROVE  /\ pc'[c] \notin {"idle", "reading"}
         /\ CallStepsLeft(c) \in Nat /\ CallStepsLeft(c)' \in Nat /\ CallStepsLeft(c)' < CallStepsLeft(c)
         /\ \A t \in Tasks : t # c => pc'[t] = pc[t]
         /\ \A d \in Calls : d # c => answer'[d] = answer[d]
         /\ tries' = tries
<1> USE NoneIsNothing DEF HostInv, Typed, Tasks, CallStepsLeft
<1>1. CASE ReplayAfterWait(c) \/ Enter(c)
  BY <1>1 DEF ReplayAfterWait, Enter, AnswerKnown, Progress
<1>2. CASE ReadBefore(c) \/ RefuseStaleRevision(c)
  BY <1>2 DEF ReadBefore, RefuseStaleRevision, Progress
<1>3. CASE RunScript(c)
  BY <1>3 DEF RunScript, HostAnswers
<1>4. CASE ReceiveAnswer(c)
  BY <1>4 DEF ReceiveAnswer
<1>5. CASE Fail(c) \/ ReadAfter(c)
  BY <1>5 DEF Fail, ReadAfter, Bind, Forget
<1>6. CASE Cancel(c)
  BY <1>6 DEF Cancel, Forget, Locked
<1> QED BY <1>1, <1>2, <1>3, <1>4, <1>5, <1>6 DEF CallStep

LEMMA QueryMoves ==
  ASSUME HostInv, NEW q \in Queries, pc[q] # "idle", QueryStep(q) \/ CancelQuery(q)
  PROVE  /\ pc'[q] \in {"reading"} \cup Ended
         /\ QueryStepsLeft(q) \in Nat /\ QueryStepsLeft(q)' \in Nat /\ QueryStepsLeft(q)' < QueryStepsLeft(q)
         /\ \A t \in Tasks : t # q => pc'[t] = pc[t]
         /\ \A r \in Queries : r # q => tries'[r] = tries[r]
         /\ answer' = answer
<1> USE HostAssumption DEF HostInv, Typed, Attempts, Tasks, QueryStepsLeft, Ended
<1>1. CASE LockForQuery(q)
  BY <1>1 DEF LockForQuery
<1>2. CASE ReadScene(q)
  BY <1>2 DEF ReadScene, EndQuery
<1>3. CASE AttemptFails(q)
  BY <1>3 DEF AttemptFails, EndQuery
<1>4. CASE CancelQuery(q)
  BY <1>4 DEF CancelQuery, EndQuery
<1> QED BY <1>1, <1>2, <1>3, <1>4 DEF QueryStep

\* A start, a script nobody waits for, somebody's edit: no task that has
\* started moves.
LEMMA OthersStayPut ==
  ASSUME HostInv, [Next]_vars, ~\E c \in Calls : CallStep(c) \/ Cancel(c),
         ~\E q \in Queries : QueryStep(q) \/ CancelQuery(q)
  PROVE  /\ \A t \in Tasks : pc[t] # "idle" => pc'[t] = pc[t]
         /\ \A c \in Calls : pc[c] = "idle" => pc'[c] # "reading"
         /\ \A q \in Queries : pc[q] = "idle" => pc'[q] \in {"idle", "locking"}
         /\ answer' = answer /\ tries' = tries
<1> USE HostAssumption DEF HostInv, Typed, Tasks
<1>1. ASSUME NEW c \in Calls, NEW a \in Arguments, Invoke(c, a)
      PROVE  /\ pc[c] = "idle" /\ \E p \in {"replayed", "conflict", "refused", "validated", "locking"} :
                                    pc' = [pc EXCEPT ![c] = p]
             /\ answer' = answer /\ tries' = tries
  BY <1>1 DEF Invoke, Replay, Refuse, Begin, AnswerKnown
<1>2. ASSUME NEW q \in Queries, StartQuery(q)
      PROVE  pc[q] = "idle" /\ pc' = [pc EXCEPT ![q] = "locking"] /\ answer' = answer /\ tries' = tries
  BY <1>2 DEF StartQuery
<1>3. CASE \/ \E c \in Calls : RunOrphan(c)
           \/ \E n \in 1..MaxEdits : EditScene(n)
           \/ AllEnded \/ UNCHANGED vars
  BY <1>3 DEF RunOrphan, EditScene, AllEnded, vars, calls
<1>4. CASE \E c \in Calls : \E a \in Arguments : Invoke(c, a)
  <2>1. PICK c \in Calls, a \in Arguments : Invoke(c, a)
    BY <1>4
  <2> QED BY <1>1, <2>1
<1>5. CASE \E q \in Queries : StartQuery(q)
  <2>1. PICK q \in Queries : StartQuery(q)
    BY <1>5
  <2> QED BY <1>2, <2>1
<1> QED BY <1>3, <1>4, <1>5 DEF Next

LEMMA PlacesInvariant == Spec => []Places
<1>1. Init => Places
  BY DEF Init, Places, Tasks
<1>2. HostInv /\ Places /\ [Next]_vars => Places'
  <2> SUFFICES ASSUME HostInv, Places, [Next]_vars PROVE Places'
    OBVIOUS
  <2> USE HostAssumption DEF Places, Tasks
  <2>1. ASSUME NEW c \in Calls, CallStep(c) \/ Cancel(c) PROVE Places'
    BY <2>1, CallMoves
  <2>2. ASSUME NEW q \in Queries, QueryStep(q) \/ CancelQuery(q) PROVE Places'
    <3>1. pc[q] # "idle"
      BY <2>2 DEF QueryStep, LockForQuery, ReadScene, AttemptFails, CancelQuery
    <3> QED BY <2>2, <3>1, QueryMoves
  <2>3. CASE /\ ~\E c \in Calls : CallStep(c) \/ Cancel(c)
             /\ ~\E q \in Queries : QueryStep(q) \/ CancelQuery(q)
    BY <2>3, OthersStayPut
  <2> QED BY <2>1, <2>2, <2>3
<1> QED BY <1>1, <1>2, HostInvariant, PTL DEF Spec

\* No deadlock, for any number of calls and queries: the lock is held by a task
\* that can go on, with the host's answer or without it.
THEOREM HostNobodyIsStuck == Spec => []NobodyIsStuck
<1>1. HostInv => NobodyIsStuck
  <2> SUFFICES ASSUME HostInv, NEW t \in Tasks, Live(t), lock # None
               PROVE  lock \in Tasks /\ Live(lock) /\ CanStep(lock)
    BY DEF NobodyIsStuck, Live, CanStep, HostInv, Typed
  <2>1. lock \in Tasks /\ pc[lock] \in Locked
    BY DEF HostInv, LockHeld
  <2> QED BY <2>1 DEF Live, CanStep, Locked, Ended
<1> QED BY <1>1, HostInvariant, PTL

\* Together with the fairness of the scheduler this is why EveryTaskEnds holds,
\* whatever fails, is lost or cancelled and however often queries are retried.
THEOREM HostStepsAreNearer == Spec => EachStepIsNearer
<1> DEFINE CallNearer(c) == pc[c] # "idle" =>
               pc'[c] # "idle" /\ Shrinks(CallStepsLeft(c), CallStepsLeft(c)', CallStep(c))
           QueryNearer(q) == pc[q] # "idle" =>
               pc'[q] # "idle" /\ Shrinks(QueryStepsLeft(q), QueryStepsLeft(q)', QueryStep(q))
<1>1. ASSUME HostInv, NEW c \in Calls PROVE CallStepsLeft(c) \in Nat
  BY DEF CallStepsLeft
<1>2. ASSUME HostInv, NEW q \in Queries PROVE QueryStepsLeft(q) \in Nat
  BY <1>2, HostAssumption DEF QueryStepsLeft, HostInv, Attempts
<1>3. ASSUME HostInv, Places, Next, NEW c \in Calls PROVE CallNearer(c)
  <2>1. CASE CallStep(c) \/ Cancel(c)
    BY <1>3, <2>1, CallMoves DEF Shrinks, Places
  <2>2. CASE ~CallStep(c) /\ ~Cancel(c) /\ pc[c] # "idle"
    <3>1. pc'[c] = pc[c] /\ answer'[c] = answer[c]
      <4>1. CASE \E d \in Calls : CallStep(d) \/ Cancel(d)
        BY <1>3, <2>2, <4>1, CallMoves DEF Places, Tasks
      <4>2. CASE \E q \in Queries : QueryStep(q) \/ CancelQuery(q)
        <5>1. PICK q \in Queries : pc[q] # "idle" /\ (QueryStep(q) \/ CancelQuery(q))
          BY <4>2 DEF QueryStep, LockForQuery, ReadScene, AttemptFails, CancelQuery
        <5> QED BY <1>3, <2>2, <5>1, QueryMoves, HostAssumption DEF Tasks
      <4> QED BY <1>3, <2>2, <4>1, <4>2, OthersStayPut DEF Tasks
    <3> QED BY <1>1, <1>3, <2>2, <3>1 DEF Shrinks, CallStepsLeft
  <2> QED BY <2>1, <2>2
<1>4. ASSUME HostInv, Places, Next, NEW q \in Queries PROVE QueryNearer(q)
  <2>1. CASE pc[q] # "idle" /\ (QueryStep(q) \/ CancelQuery(q))
    BY <1>4, <2>1, QueryMoves DEF Shrinks, Ended
  <2>2. CASE ~QueryStep(q) /\ ~CancelQuery(q) /\ pc[q] # "idle"
    <3>1. pc'[q] = pc[q] /\ tries'[q] = tries[q]
      <4>1. CASE \E d \in Calls : CallStep(d) \/ Cancel(d)
        BY <1>4, <2>2, <4>1, CallMoves, HostAssumption DEF Places, Tasks
      <4>2. CASE \E r \in Queries : QueryStep(r) \/ CancelQuery(r)
        <5>1. PICK r \in Queries : pc[r] # "idle" /\ (QueryStep(r) \/ CancelQuery(r))
          BY <4>2 DEF QueryStep, LockForQuery, ReadScene, AttemptFails, CancelQuery
        <5> QED BY <1>4, <2>2, <5>1, QueryMoves DEF Tasks
      <4> QED BY <1>4, <2>2, <4>1, <4>2, OthersStayPut DEF Tasks
    <3>2. QueryStepsLeft(q)' = QueryStepsLeft(q)
      BY <3>1 DEF QueryStepsLeft
    <3> QED BY <1>2, <1>4, <2>2, <3>1, <3>2 DEF Shrinks
  <2> QED BY <2>1, <2>2
<1>5. HostInv /\ Places /\ [Next]_vars =>
        [(\A c \in Calls : CallNearer(c)) /\ (\A q \in Queries : QueryNearer(q))]_vars
  BY <1>3, <1>4
<1> QED BY <1>5, HostInvariant, PlacesInvariant, PTL DEF Spec, EachStepIsNearer
=============================================================================
