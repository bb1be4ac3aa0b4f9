---------------------------- MODULE ComfyUIProofs ----------------------------
(***************************************************************************)
(* Theorems about ComfyUI for every set of calls, keys, payloads and       *)
(* outputs and every combination of faults, checked by TLAPS.              *)
(***************************************************************************)
EXTENDS ComfyUI, TLAPS

----------------------------------------------------------------------------
(* The inductive invariant *)

\* A call that executes, as opposed to one that reconciles.
Executing(c) == pc[c] \in AtWork /\ prior[c] = None

\* Who executes holds the lock and has an unbound key.
LockHeld == \A c \in Calls : Executing(c) => lock = c /\ ~Known(c)

\* A receipt under reconciliation: the key's receipt has not changed since,
\* except for its status and output.
Reconciled ==
    /\ \A c \in Calls : pc[c] \in {"reconciling", "resuming"} => prior[c] # None
    /\ \A c \in Calls : prior[c] # None =>
          /\ pc[c] \in Reconciling
          /\ prior[c].status = "unknown" /\ prior[c].prompt \in Calls
          /\ Known(c)
          /\ receipts[KeyOf[c]].payload = prior[c].payload
          /\ receipts[KeyOf[c]].prompt = prior[c].prompt

\* What a coroutine is about to act on is still so.
Answered ==
    \A c \in Calls :
        /\ pc[c] = "resuming" /\ entry[c] \in {"done", "error"} => jobs[prior[c].prompt] = entry[c]
        /\ pc[c] = "fetching" => jobs[PromptOf(c)] = "done"

\* A receipt names the call that queued its prompt, for the payload it asked for.
Sound(r) ==
    /\ r.prompt # None => pc[r.prompt] = "returned" /\ req[r.prompt] = r.payload
    /\ HasItsPicture(r)
    /\ r.status = "completed" => r.prompt # None
    /\ r.status = "failed" => r.prompt = None \/ jobs[r.prompt] = "error"
ReceiptsSound ==
    /\ \A k \in DOMAIN receipts : Sound(receipts[k])
    /\ \A c \in DOMAIN result : Sound(result[c])

\* A call that may have made ComfyUI work, or still may, is cancelled, executes
\* or has bound its key; of one key only one such call is not cancelled.
Begun(c) == jobs[c] # "none" \/ c \in late \/ Executing(c)
Prompted ==
    /\ \A c \in late : jobs[c] = "none" /\ pc[c] \in {"cancelled", "returned"}
    /\ \A c \in Calls : Begun(c) =>
          pc[c] = "cancelled" \/ Executing(c) \/ (pc[c] = "returned" /\ Known(c))
    /\ \A c, d \in Calls : c # d /\ KeyOf[c] = KeyOf[d] /\ Begun(c) /\ Begun(d)
          => "cancelled" \in {pc[c], pc[d]}

ComfyInv == TypeOK /\ LockHeld /\ Reconciled /\ Answered /\ ReceiptsSound /\ Prompted

LEMMA NoneIsNothing == None \notin Calls /\ None \notin Receipt
  BY ComfyAssumption

THEOREM ComfyInvInit == Init => ComfyInv
<1> SUFFICES ASSUME Init PROVE ComfyInv
  OBVIOUS
<1>1. TypeOK
  BY ComfyAssumption DEF Init, TypeOK, JobStates, Empty
<1>2. LockHeld /\ Reconciled /\ Answered /\ ReceiptsSound /\ Prompted
  BY DEF Init, Empty, LockHeld, Reconciled, Answered, ReceiptsSound, Prompted, Begun, Executing, AtWork
<1> QED BY <1>1, <1>2 DEF ComfyInv

----------------------------------------------------------------------------
(* Steps of one call *)

\* A step of a call between its own states: no receipt, file, or prompt changes.
LEMMA QuietStep ==
  ASSUME ComfyInv, NEW c \in Calls, NEW p,
         pc' = [pc EXCEPT ![c] = p],
         pc[c] \notin {"returned", "cancelled"}, p \in {"conflict", "refused", "locking", "preparing", "queueing", "polling", "fetching", "raised"},
         req' \in [Calls -> Payloads], \A d \in Calls : d # c => req'[d] = req[d],
         lock' \in {lock, c, None}, \A d \in Calls \ {c} : lock' # lock => lock # d,
         prior' = [prior EXCEPT ![c] = IF p = "fetching" THEN prior[c] ELSE None],
         entry' \in [Calls -> JobStates], \A d \in Calls : d # c => entry'[d] = entry[d],
         p = "preparing" => lock = None /\ lock' = c /\ ~Known(c),
         p \in {"queueing", "polling"} => Executing(c) /\ lock' = lock,
         p = "fetching" => pc[c] \in {"polling", "resuming"} /\ jobs[PromptOf(c)] = "done" /\ lock' = lock,
         Executing(c) => p \in {"queueing", "polling", "fetching"},
         UNCHANGED <<comfy, files, receipts, result>>
  PROVE  ComfyInv'
<1> USE DEF ComfyInv, comfy
<1>1. TypeOK'
  BY NoneIsNothing DEF TypeOK, Ended, AtWork, Reconciling
<1>2. LockHeld'
  BY NoneIsNothing DEF TypeOK, LockHeld, Executing, AtWork, Known, Reconciled
<1>3. Reconciled'
  BY NoneIsNothing DEF TypeOK, Reconciled, Reconciling, Known
<1>4. Answered'
  BY DEF TypeOK, Answered, PromptOf
<1>5. ReceiptsSound'
  BY DEF TypeOK, ReceiptsSound, Sound, HasItsPicture, Receipt
<1>6. Prompted'
  <2>0. /\ \A d \in Calls : d # c => pc'[d] = pc[d] /\ Executing(d)' = Executing(d)
        /\ \A d \in Calls : Known(d)' = Known(d)
    BY DEF TypeOK, Executing, Known
  <2>1. p = "preparing" => \A d \in Calls : ~Executing(d)
    BY NoneIsNothing DEF LockHeld
  <2>2. Executing(c)' => Executing(c) \/ (p = "preparing" /\ ~Known(c))
    BY DEF TypeOK, Executing, AtWork, Reconciled
  <2>3. Executing(c) => Executing(c)'
    BY DEF TypeOK, Executing, AtWork
  <2>4. \A d \in Calls : Begun(d)' => Begun(d) \/ (d = c /\ p = "preparing" /\ ~Known(c))
    BY <2>0, <2>2 DEF Begun
  <2>5. \A d \in late : d # c
    BY DEF Prompted
  <2>6. \A d \in Calls : Begun(d)' =>
           pc'[d] = "cancelled" \/ Executing(d)' \/ (pc'[d] = "returned" /\ Known(d)')
    BY <2>0, <2>3, <2>4 DEF Prompted, TypeOK, Executing, AtWork
  <2>7. \A d, e \in Calls : d # e /\ KeyOf[d] = KeyOf[e] /\ Begun(d)' /\ Begun(e)'
           => "cancelled" \in {pc'[d], pc'[e]}
    BY <2>0, <2>1, <2>4 DEF Prompted, Known, TypeOK
  <2> QED BY <2>0, <2>5, <2>6, <2>7 DEF Prompted, TypeOK
<1> QED BY <1>1, <1>2, <1>3, <1>4, <1>5, <1>6

\* A call is answered with the receipt of its key.
LEMMA AnsweredStep ==
  ASSUME ComfyInv, NEW c \in Calls, pc[c] \in {"idle", "locking"}, Known(c),
         pc' = [pc EXCEPT ![c] = "replayed"],
         req' \in [Calls -> Payloads], \A d \in Calls : d # c => req'[d] = req[d],
         result' = Put(result, c, receipts[KeyOf[c]]),
         UNCHANGED <<comfy, files, gateway, prior, entry>>
  PROVE  ComfyInv'
<1> USE DEF ComfyInv, comfy, gateway
<1>0. /\ DOMAIN result' = DOMAIN result \cup {c}
      /\ result'[c] = receipts[KeyOf[c]]
      /\ \A d \in DOMAIN result : d # c => result'[d] = result[d]
  BY DEF Put
<1>1. TypeOK'
  BY <1>0, ComfyAssumption DEF TypeOK, Ended, Known
<1>2. LockHeld' /\ Reconciled' /\ Answered'
  BY DEF TypeOK, LockHeld, Executing, AtWork, Known, Reconciled, Answered, PromptOf, Reconciling
<1>3. ReceiptsSound'
  BY <1>0 DEF TypeOK, ReceiptsSound, Sound, HasItsPicture, Receipt, Known
<1>4. Prompted'
  BY DEF TypeOK, Prompted, Begun, Executing, AtWork, Known
<1> QED BY <1>1, <1>2, <1>3, <1>4

\* A call begins to reconcile the receipt of its key.
LEMMA ReconcilingStep ==
  ASSUME ComfyInv, NEW c \in Calls, pc[c] \in {"idle", "locking"}, Known(c),
         ~Settled(receipts[KeyOf[c]]),
         pc' = [pc EXCEPT ![c] = "reconciling"],
         req' \in [Calls -> Payloads], \A d \in Calls : d # c => req'[d] = req[d],
         prior' = [prior EXCEPT ![c] = receipts[KeyOf[c]]],
         lock' = lock \/ (lock = None /\ lock' = c),
         UNCHANGED <<comfy, files, receipts, entry, result>>
  PROVE  ComfyInv'
<1> USE DEF ComfyInv, comfy
<1>0. /\ receipts[KeyOf[c]] \in Receipt /\ receipts[KeyOf[c]] # None
      /\ receipts[KeyOf[c]].status = "unknown" /\ receipts[KeyOf[c]].prompt \in Calls
  BY NoneIsNothing DEF TypeOK, Known, Settled, Receipt
<1>1. TypeOK'
  BY <1>0 DEF TypeOK, Reconciling
<1>2. LockHeld'
  BY NoneIsNothing, <1>0 DEF TypeOK, LockHeld, Executing, AtWork, Known
<1>3. Reconciled'
  BY <1>0 DEF TypeOK, Reconciled, Reconciling, Known
<1>4. Answered'
  BY DEF TypeOK, Answered, PromptOf
<1>5. ReceiptsSound'
  BY DEF TypeOK, ReceiptsSound, Sound, HasItsPicture, Receipt
<1>6. Prompted'
  BY DEF TypeOK, Prompted, Begun, Executing, AtWork, Known
<1> QED BY <1>1, <1>2, <1>3, <1>4, <1>5, <1>6

\* A call stores the receipt it leaves with.
LEMMA StoreStep ==
  ASSUME ComfyInv, NEW c \in Calls, NEW r \in Receipt, NEW o \in {"returned", "replayed"},
         Store(c, r), Leave(c, o),
         \/ Executing(c) /\ o = "returned" /\ r.payload = req[c] /\ r.prompt \in {None, c}
         \/ prior[c] # None /\ o = "replayed" /\ r.payload = prior[c].payload /\ r.prompt = prior[c].prompt,
         r.status = "completed" => /\ r.prompt # None /\ jobs[r.prompt] = "done"
                                   /\ r.output \in DOMAIN files' /\ files'[r.output] = r.payload,
         r.status = "failed" => r.prompt = None \/ jobs[r.prompt] = "error",
         DOMAIN files' \subseteq Files, \A f \in DOMAIN files' : files'[f] \in Payloads,
         \A f \in DOMAIN files : f \in DOMAIN files' /\ files'[f] = files[f],
         late' = late \/ (late' = late \cup {c} /\ jobs[c] = "none" /\ Executing(c)),
         UNCHANGED <<jobs, req>>
  PROVE  ComfyInv'
<1> USE DEF ComfyInv, Store, Leave
<1>0. KeyOf[c] \in Keys
  BY ComfyAssumption
<1>1. /\ DOMAIN result' = DOMAIN result \cup {c} /\ result'[c] = r
      /\ \A d \in DOMAIN result : d # c => result'[d] = result[d]
      /\ DOMAIN receipts' = DOMAIN receipts \cup {KeyOf[c]} /\ receipts'[KeyOf[c]] = r
      /\ \A k \in DOMAIN receipts : k # KeyOf[c] => receipts'[k] = receipts[k]
  BY DEF Put
<1>2. /\ \A d \in Calls : d # c => pc'[d] = pc[d] /\ prior'[d] = prior[d] /\ entry'[d] = entry[d]
      /\ pc'[c] = o /\ prior'[c] = None
  BY DEF TypeOK
<1>3. \A d \in Calls : d # c /\ Executing(d) => KeyOf[d] # KeyOf[c] /\ lock # c
  BY DEF LockHeld, Reconciled, Known
<1>4. \A d \in Calls : Executing(d)' => d # c /\ Executing(d)
  BY <1>2 DEF Executing, AtWork
<1>5. TypeOK'
  BY <1>0, <1>1 DEF TypeOK, Ended, JobStates
<1>6. LockHeld'
  BY <1>1, <1>3, <1>4 DEF LockHeld, Known
<1>7. Reconciled'
  BY <1>1, <1>2 DEF Reconciled, Known, LockHeld
<1>8. Answered'
  BY <1>2 DEF Answered, PromptOf
<1>9. \A q \in Receipt : Sound(q) => Sound(q)'
  BY <1>2 DEF Sound, HasItsPicture, Reconciled, Reconciling, Executing, AtWork, Receipt
<1>10. Sound(r)'
  <2>1. CASE Executing(c) /\ o = "returned" /\ r.payload = req[c] /\ r.prompt \in {None, c}
    BY <1>2, <2>1 DEF Sound, HasItsPicture
  <2>2. CASE prior[c] # None /\ o = "replayed" /\ r.payload = prior[c].payload /\ r.prompt = prior[c].prompt
    <3>1. Sound(receipts[KeyOf[c]]) /\ r.payload = receipts[KeyOf[c]].payload
          /\ r.prompt = receipts[KeyOf[c]].prompt /\ r.prompt \in Calls /\ pc[c] \in Reconciling
      BY <2>2 DEF Reconciled, ReceiptsSound, Known
    <3>2. pc[r.prompt] = "returned" /\ req[r.prompt] = r.payload /\ r.prompt # c
      BY <3>1, NoneIsNothing DEF Sound, Reconciling
    <3> QED BY <1>2, <3>1, <3>2 DEF Sound, HasItsPicture
  <2> QED BY <2>1, <2>2
<1>11. ReceiptsSound'
  BY <1>1, <1>9, <1>10 DEF ReceiptsSound, TypeOK, Sound, HasItsPicture
<1>12. Prompted'
  <2>1. \A d \in Calls : Begun(d)' => Begun(d)
    BY <1>4 DEF Begun
  <2>2. \A d \in late' : jobs'[d] = "none" /\ pc'[d] \in {"cancelled", "returned"}
    BY <1>2 DEF Prompted, Reconciled, Reconciling, Executing, AtWork
  <2>3. \A d \in Calls : Begun(d)' =>
          pc'[d] = "cancelled" \/ Executing(d)' \/ (pc'[d] = "returned" /\ Known(d)')
    BY <1>1, <1>2, <2>1 DEF Prompted, Known, Executing, Reconciled, Reconciling
  <2>4. \A d, e \in Calls : d # e /\ KeyOf[d] = KeyOf[e] /\ Begun(d)' /\ Begun(e)'
          => "cancelled" \in {pc'[d], pc'[e]}
    BY <1>2, <2>1 DEF Prompted, Executing, AtWork, Reconciled, Reconciling
  <2> QED BY <2>2, <2>3, <2>4 DEF Prompted
<1> QED BY <1>5, <1>6, <1>7, <1>8, <1>11, <1>12

\* ComfyUI accepts a prompt or is done with one.
LEMMA JobStep ==
  ASSUME ComfyInv, NEW c \in Calls, NEW s \in JobStates \ {"none"},
         \/ jobs[c] = "none" /\ (pc[c] = "queueing" \/ c \in late)
         \/ jobs[c] = "running",
         jobs' = [jobs EXCEPT ![c] = s], late' = late \ {c} \/ (late' = late /\ c \notin late),
         UNCHANGED <<files, gateway, calls>>
  PROVE  ComfyInv'
<1> USE DEF ComfyInv, gateway, calls
<1>1. TypeOK'
  BY DEF TypeOK
<1>2. LockHeld' /\ Reconciled'
  BY DEF LockHeld, Executing, Known, Reconciled
<1>3. Answered'
  BY DEF TypeOK, Answered, PromptOf
<1>4. ReceiptsSound'
  BY DEF TypeOK, ReceiptsSound, Sound, HasItsPicture, Receipt
<1>5. Begun(c)
  BY DEF Begun, Executing, AtWork, Reconciled, Reconciling
<1>6. Prompted'
  BY <1>5 DEF TypeOK, Prompted, Begun, Executing, Known
<1> QED BY <1>1, <1>2, <1>3, <1>4, <1>6

LEMMA CancelStep ==
  ASSUME ComfyInv, NEW c \in Calls, Cancel(c)
  PROVE  ComfyInv'
<1> USE DEF ComfyInv, Cancel, Leave, StopWaiting
<1>1. TypeOK'
  BY DEF TypeOK, Ended, JobStates
<1>2. /\ pc'[c] = "cancelled" /\ prior'[c] = None
      /\ \A d \in Calls : d # c => pc'[d] = pc[d] /\ prior'[d] = prior[d] /\ entry'[d] = entry[d]
  BY DEF TypeOK
<1>3. LockHeld'
  BY <1>2 DEF LockHeld, Executing, AtWork, Known
<1>4. Reconciled' /\ Answered'
  BY <1>2 DEF Reconciled, Answered, PromptOf, Known
<1>5. ReceiptsSound'
  BY <1>2 DEF TypeOK, ReceiptsSound, Sound, HasItsPicture, Receipt, AtWork, Reconciling
<1>6. Prompted'
  <2>1. \A d \in Calls : Begun(d)' => Begun(d)
    BY <1>2 DEF Begun, Executing, AtWork, Reconciled, Reconciling
  <2> QED BY <1>2, <2>1 DEF Prompted, Executing, Known, AtWork, Reconciling
<1> QED BY <1>1, <1>3, <1>4, <1>5, <1>6

----------------------------------------------------------------------------
(* The invariant of the specification *)

LEMMA InvokeKeeps ==
  ASSUME ComfyInv, NEW c \in Calls, NEW p \in Payloads, Invoke(c, p)
  PROVE  ComfyInv'
<1>1. TypeOK /\ Reconciled
  BY DEF ComfyInv
<1>2. pc[c] = "idle" /\ prior[c] = None /\ ~Executing(c)
  BY <1>1 DEF Invoke, Conflict, ReplayBeforeLock, Refuse, Begin, Reconciled, Reconciling, Executing, AtWork
<1>3. req' \in [Calls -> Payloads] /\ \A d \in Calls : d # c => req'[d] = req[d]
  BY <1>1 DEF Invoke, Conflict, ReplayBeforeLock, Refuse, Begin, TypeOK
<1>4. CASE Conflict(c, p)
  BY <1>1, <1>2, <1>3, <1>4, QuietStep DEF Conflict, TypeOK, gateway
<1>5. CASE ReplayBeforeLock(c, p)
  BY <1>2, <1>3, <1>5, AnsweredStep, ReconcilingStep DEF ReplayBeforeLock, gateway
<1>6. CASE Refuse(c, p)
  BY <1>1, <1>2, <1>3, <1>6, QuietStep DEF Refuse, TypeOK, gateway
<1>7. CASE Begin(c, p)
  BY <1>1, <1>2, <1>3, <1>7, QuietStep DEF Begin, TypeOK, gateway
<1> QED BY <1>4, <1>5, <1>6, <1>7 DEF Invoke

\* An execution ends in an exception: its receipt is failed without a prompt, or
\* unknown with its own.
LEMMA TroubleKeeps ==
  ASSUME ComfyInv, NEW c \in Calls, Executing(c), Trouble(c),
         late' = late \/ (late' = late \cup {c} /\ jobs[c] = "none"),
         UNCHANGED <<jobs, files, req>>
  PROVE  ComfyInv'
<1> DEFINE prompt == IF pc[c] \in {"polling", "fetching"} THEN c ELSE None
           r == [status |-> IF prompt = None THEN "failed" ELSE "unknown",
                 payload |-> req[c], prompt |-> prompt, output |-> OutputOf[req[c]]]
<1>1. TypeOK
  BY DEF ComfyInv
<1>2. r \in Receipt
  BY <1>1, ComfyAssumption DEF TypeOK, Receipt
<1>3. Store(c, r) /\ Leave(c, "returned")
  BY DEF Trouble
<1>4. /\ r.payload = req[c] /\ r.prompt \in {None, c} /\ r.status # "completed"
      /\ r.status = "failed" => r.prompt = None
  OBVIOUS
<1> HIDE DEF r
<1> QED BY <1>1, <1>2, <1>3, <1>4, StoreStep DEF TypeOK

\* A reconciliation ends in an exception and stores nothing.
LEMMA RaisedStep ==
  ASSUME ComfyInv, NEW c \in Calls, pc[c] \in Reconciling, ~Executing(c), Leave(c, "raised"),
         UNCHANGED <<comfy, files, receipts, req, result>>
  PROVE  ComfyInv'
<1>1. TypeOK
  BY DEF ComfyInv
<1>2. /\ pc[c] \notin {"returned", "cancelled"} /\ pc' = [pc EXCEPT ![c] = "raised"]
      /\ prior' = [prior EXCEPT ![c] = None]
      /\ lock' \in {lock, c, None} /\ \A d \in Calls \ {c} : lock' # lock => lock # d
      /\ entry' \in [Calls -> JobStates] /\ \A d \in Calls : d # c => entry'[d] = entry[d]
  BY <1>1 DEF Leave, TypeOK, Reconciling, JobStates
<1>3. req' \in [Calls -> Payloads] /\ \A d \in Calls : d # c => req'[d] = req[d]
  BY <1>1 DEF TypeOK
<1> QED BY <1>2, <1>3, QuietStep

\* The history answer is what the prompt is now, and what it still is when it
\* is acted on, if it ended.
LEMMA AskKeeps ==
  ASSUME ComfyInv, NEW c \in Calls, AskHistory(c)
  PROVE  ComfyInv'
<1> USE DEF ComfyInv, AskHistory, comfy, gateway
<1>0. prior[c] # None /\ prior[c].prompt \in Calls
  BY DEF Reconciled
<1>1. TypeOK'
  BY <1>0 DEF TypeOK, Reconciling
<1>2. LockHeld' /\ Reconciled'
  BY DEF TypeOK, LockHeld, Executing, AtWork, Known, Reconciled, Reconciling
<1>3. Answered'
  BY <1>0 DEF TypeOK, Answered, PromptOf
<1>4. ReceiptsSound'
  BY DEF TypeOK, ReceiptsSound, Sound, HasItsPicture, Receipt
<1>5. Prompted'
  BY DEF TypeOK, Prompted, Begun, Executing, AtWork, Known
<1> QED BY <1>1, <1>2, <1>3, <1>4, <1>5

\* The picture of the receipt's own payload is moved to the output, where there
\* is nothing or the same picture.
LEMMA MaterializeKeeps ==
  ASSUME ComfyInv, NEW c \in Calls, Materialize(c)
  PROVE  ComfyInv'
<1> DEFINE r == [status |-> "completed", output |-> Destination(c), prompt |-> PromptOf(c),
                 payload |-> IF prior[c] = None THEN req[c] ELSE prior[c].payload]
           o == IF prior[c] = None THEN "returned" ELSE "replayed"
<1>1. TypeOK /\ Reconciled /\ Answered /\ ReceiptsSound
  BY DEF ComfyInv
<1>2. PromptOf(c) \in Calls /\ jobs[PromptOf(c)] = "done"
  BY <1>1 DEF Materialize, Answered, Reconciled, PromptOf
<1>3. Destination(c) \in Files /\ PictureOf(c) \in Payloads
  BY <1>1, <1>2, ComfyAssumption DEF TypeOK, Destination, PictureOf
<1>4. prior[c] # None => PictureOf(c) = prior[c].payload /\ prior[c] \in Receipt
  BY <1>1, <1>2, NoneIsNothing DEF PictureOf, PromptOf, Reconciled, ReceiptsSound, Sound, Known, TypeOK
<1>5. r.payload = PictureOf(c) /\ r.prompt = PromptOf(c) /\ r.output = Destination(c) /\ r.status = "completed"
  BY <1>4 DEF PictureOf, PromptOf
<1>6. r \in Receipt
  BY <1>2, <1>3, <1>5 DEF Receipt
<1>7. /\ DOMAIN files' = DOMAIN files \cup {Destination(c)} /\ files'[Destination(c)] = PictureOf(c)
      /\ \A f \in DOMAIN files : files'[f] = files[f]
  BY DEF Materialize, Clashes, Put
<1>8. DOMAIN files' \subseteq Files /\ \A f \in DOMAIN files' : files'[f] \in Payloads
  BY <1>1, <1>3, <1>7 DEF TypeOK
<1>9. /\ Store(c, r) /\ Leave(c, o) /\ o \in {"returned", "replayed"}
      /\ UNCHANGED <<jobs, late, req>>
  BY DEF Materialize, comfy
<1>10. \/ Executing(c) /\ o = "returned" /\ r.payload = req[c] /\ r.prompt \in {None, c}
       \/ prior[c] # None /\ o = "replayed" /\ r.payload = prior[c].payload /\ r.prompt = prior[c].prompt
  BY DEF Materialize, Executing, AtWork, PromptOf
<1>11. r.prompt # None
  BY <1>2, <1>5, NoneIsNothing
<1> HIDE DEF r, o
<1> QED BY <1>2, <1>5, <1>6, <1>7, <1>8, <1>9, <1>10, <1>11, StoreStep

LEMMA CallStepKeeps ==
  ASSUME ComfyInv, NEW c \in Calls, CallStep(c)
  PROVE  ComfyInv'
<1>1. TypeOK /\ LockHeld /\ Reconciled /\ Answered /\ ReceiptsSound
  BY DEF ComfyInv
<1>2. pc[c] \in {"locking", "preparing", "queueing", "polling"} => prior[c] = None
  BY <1>1 DEF Reconciled, Reconciling
<1>3. CASE ReplayInsideLock(c)
  BY <1>3, AnsweredStep, ReconcilingStep, <1>1 DEF ReplayInsideLock, TypeOK, gateway
<1>4. CASE Enter(c)
  BY <1>1, <1>2, <1>4, NoneIsNothing, QuietStep DEF Enter, TypeOK, Executing, AtWork
<1>5. CASE Prepare(c) \/ ReceivePromptId(c) \/ SeeCompletion(c)
  BY <1>1, <1>2, <1>5, QuietStep
     DEF Prepare, ReceivePromptId, SeeCompletion, TypeOK, Executing, AtWork, LockHeld, gateway, PromptOf
<1>6. CASE AcceptPrompt(c)
  <2>1. c \notin late
    BY <1>6 DEF ComfyInv, Prompted, AcceptPrompt
  <2> QED BY <1>6, <2>1, JobStep DEF AcceptPrompt, JobStates
<1>7. CASE Reject(c) \/ LoseAnswer(c) \/ PollingEnds(c)
  BY <1>1, <1>2, <1>7, TroubleKeeps
     DEF Reject, LoseAnswer, PollingEnds, StopWaiting, Executing, AtWork, comfy
<1>8. CASE AskHistory(c)
  BY <1>8, AskKeeps
<1>9. CASE KeepOrFail(c)
  <2> DEFINE r == IF entry[c] = "error" THEN [prior[c] EXCEPT !.status = "failed"] ELSE prior[c]
  <2>1. prior[c] \in Receipt /\ prior[c] # None /\ prior[c].status = "unknown"
    BY <1>1, <1>9 DEF KeepOrFail, TypeOK, Reconciled
  <2>2. /\ r \in Receipt /\ r.payload = prior[c].payload /\ r.prompt = prior[c].prompt
        /\ r.status # "completed"
        /\ r.status = "failed" => entry[c] = "error"
    BY <2>1 DEF Receipt
  <2>3. r.status = "failed" => jobs[r.prompt] = "error"
    BY <1>1, <1>9, <2>2 DEF KeepOrFail, Answered
  <2>4. Store(c, r) /\ Leave(c, "replayed") /\ UNCHANGED <<comfy, files, req>>
    BY <1>9 DEF KeepOrFail
  <2>5. /\ late' = late /\ UNCHANGED <<jobs, req>> /\ files' = files
        /\ DOMAIN files \subseteq Files /\ \A f \in DOMAIN files : files[f] \in Payloads
    BY <1>1, <2>4 DEF TypeOK, comfy
  <2> HIDE DEF r
  <2> QED BY <2>1, <2>2, <2>3, <2>4, <2>5, StoreStep
<1>10. CASE FetchAgain(c)
  BY <1>1, <1>10, QuietStep DEF FetchAgain, TypeOK, Executing, AtWork, Reconciled, Answered, gateway, PromptOf
<1>11. CASE ReconcileFails(c)
  <2>1. pc[c] \in Reconciling /\ ~Executing(c)
    BY <1>1, <1>11 DEF ReconcileFails, Reconciled, Executing
  <2>2. Leave(c, "raised") /\ UNCHANGED <<comfy, files, receipts, req, result>>
    BY <1>11 DEF ReconcileFails
  <2> QED BY <1>1, <2>1, <2>2, RaisedStep
<1>12. CASE Materialize(c)
  BY <1>12, MaterializeKeeps
<1>13. CASE RefuseOverwrite(c)
  <2>1. CASE prior[c] = None
    BY <1>1, <1>13, <2>1, TroubleKeeps DEF RefuseOverwrite, Executing, AtWork, comfy
  <2>2. CASE prior[c] # None
    BY <1>13, <2>2, RaisedStep DEF RefuseOverwrite, Executing, Reconciling
  <2> QED BY <2>1, <2>2
<1> QED BY <1>3, <1>4, <1>5, <1>6, <1>7, <1>8, <1>9, <1>10, <1>11, <1>12, <1>13 DEF CallStep

LEMMA UnchangedKeeps == ComfyInv /\ UNCHANGED vars => ComfyInv'
  BY DEF ComfyInv, vars, comfy, gateway, calls, TypeOK, LockHeld, Executing, Known, Reconciled, Answered,
         PromptOf, ReceiptsSound, Sound, HasItsPicture, Prompted, Begun

THEOREM ComfyInvariant == Spec => []ComfyInv
<1>1. ASSUME ComfyInv, Next PROVE ComfyInv'
  <2>1. ASSUME NEW c \in Calls, NEW p \in Payloads, Invoke(c, p) PROVE ComfyInv'
    BY <1>1, <2>1, InvokeKeeps
  <2>2. ASSUME NEW c \in Calls, CallStep(c) \/ Cancel(c) PROVE ComfyInv'
    BY <1>1, <2>2, CallStepKeeps, CancelStep
  <2>3. ASSUME NEW c \in Calls, AcceptLate(c) PROVE ComfyInv'
    <3>1. jobs[c] = "none"
      BY <1>1, <2>3 DEF ComfyInv, Prompted, AcceptLate
    <3> QED BY <1>1, <2>3, <3>1, JobStep DEF AcceptLate, JobStates
  <2>4. ASSUME NEW c \in Calls, JobEnds(c) PROVE ComfyInv'
    <3>1. c \notin late
      BY <1>1, <2>4 DEF ComfyInv, Prompted, JobEnds
    <3> QED BY <1>1, <2>4, <3>1, JobStep DEF JobEnds, JobStates
  <2>5. CASE UNCHANGED vars
    BY <1>1, <2>5, UnchangedKeeps
  <2> QED BY <1>1, <2>1, <2>2, <2>3, <2>4, <2>5 DEF Next, AllEnded
<1>2. ComfyInv /\ [Next]_vars => ComfyInv'
  BY <1>1, UnchangedKeeps
<1> QED BY <1>2, ComfyInvInit, PTL DEF Spec

----------------------------------------------------------------------------
(* What the invariant says of the program *)

\* Every variable of the gateway keeps its type, whatever fails.
THEOREM ComfyTypeCorrect == Spec => []TypeOK
<1>1. ComfyInv => TypeOK
  BY DEF ComfyInv
<1> QED BY <1>1, ComfyInvariant, PTL

\* For any number of calls, ComfyUI works twice for one key only if one of the
\* two calls was cancelled.
THEOREM ComfyOnePrompt == Spec => []OnePromptPerKey
<1>1. ComfyInv => OnePromptPerKey
  BY DEF ComfyInv, Prompted, Begun, OnePromptPerKey
<1> QED BY <1>1, ComfyInvariant, PTL

\* A completed receipt, a key's or a caller's, has its own picture at its output.
THEOREM ComfyHasItsPicture == Spec => []CompletedHasItsPicture
<1>1. ComfyInv => CompletedHasItsPicture
  BY DEF ComfyInv, ReceiptsSound, Sound, CompletedHasItsPicture
<1> QED BY <1>1, ComfyInvariant, PTL

\* No caller is told to start over while its prompt may still succeed.
THEOREM ComfyFailedIsHopeless == Spec => []FailedIsHopeless
<1>1. ComfyInv => FailedIsHopeless
  BY DEF ComfyInv, ReceiptsSound, Sound, FailedIsHopeless
<1> QED BY <1>1, ComfyInvariant, PTL

\* Reconciliations that overtake each other change a key's status and output,
\* never its payload or its prompt.
THEOREM ComfyKeyKeepsItsPrompt == Spec => KeyKeepsItsPrompt
<1> DEFINE Kept(k) == /\ k \in DOMAIN receipts'
                      /\ receipts'[k].payload = receipts[k].payload
                      /\ receipts'[k].prompt = receipts[k].prompt
                      /\ receipts[k].prompt = None => receipts'[k] = receipts[k]
<1>1. ASSUME ComfyInv, NEW c \in Calls, NEW r, Store(c, r),
             ~Known(c) \/ (prior[c] # None /\ r.payload = prior[c].payload /\ r.prompt = prior[c].prompt),
             NEW k \in DOMAIN receipts
      PROVE  Kept(k)
  BY <1>1, NoneIsNothing DEF ComfyInv, Store, Put, Known, Reconciled
<1>2. ASSUME ComfyInv, NEW c \in Calls, Executing(c), Trouble(c), NEW k \in DOMAIN receipts
      PROVE  Kept(k)
  <2>1. ~Known(c)
    BY <1>2 DEF ComfyInv, LockHeld
  <2> QED BY <1>2, <2>1, <1>1 DEF Trouble
<1>3. ASSUME ComfyInv, NEW c \in Calls, CallStep(c), NEW k \in DOMAIN receipts
      PROVE  Kept(k)
  <2>1. CASE Reject(c) \/ LoseAnswer(c) \/ PollingEnds(c)
    <3>1. Executing(c)
      BY <1>3, <2>1 DEF Reject, LoseAnswer, PollingEnds, Executing, AtWork, ComfyInv, Reconciled, Reconciling
    <3> QED BY <1>2, <1>3, <2>1, <3>1 DEF Reject, LoseAnswer, PollingEnds
  <2>2. CASE KeepOrFail(c)
    <3> DEFINE r == IF entry[c] = "error" THEN [prior[c] EXCEPT !.status = "failed"] ELSE prior[c]
    <3>1. prior[c] # None /\ prior[c] \in Receipt
      BY <1>3, <2>2 DEF KeepOrFail, ComfyInv, TypeOK, Reconciled
    <3>2. r.payload = prior[c].payload /\ r.prompt = prior[c].prompt
      BY <3>1 DEF Receipt
    <3>3. Store(c, r)
      BY <2>2 DEF KeepOrFail
    <3> HIDE DEF r
    <3> QED BY <1>1, <1>3, <3>1, <3>2, <3>3
  <2>3. CASE Materialize(c)
    <3> DEFINE r == [status |-> "completed", output |-> Destination(c), prompt |-> PromptOf(c),
                     payload |-> IF prior[c] = None THEN req[c] ELSE prior[c].payload]
    <3>1. Store(c, r)
      BY <2>3 DEF Materialize
    <3>2. prior[c] = None => ~Known(c)
      BY <1>3, <2>3 DEF ComfyInv, LockHeld, Materialize, Executing, AtWork
    <3>3. prior[c] # None => r.payload = prior[c].payload /\ r.prompt = prior[c].prompt
      BY DEF PromptOf
    <3> HIDE DEF r
    <3> QED BY <1>1, <1>3, <3>1, <3>2, <3>3
  <2>4. CASE RefuseOverwrite(c)
    BY <1>2, <1>3, <2>4 DEF RefuseOverwrite, Executing, AtWork
  <2> QED BY <1>3, <2>1, <2>2, <2>3, <2>4
          DEF CallStep, ReplayInsideLock, Enter, Prepare, AcceptPrompt, ReceivePromptId, SeeCompletion,
              AskHistory, FetchAgain, ReconcileFails, gateway
<1>4. ComfyInv /\ [Next]_vars => [\A k \in DOMAIN receipts : Kept(k)]_vars
  BY <1>3 DEF Next, Invoke, Conflict, ReplayBeforeLock, Refuse, Begin, Cancel, AcceptLate, JobEnds,
              AllEnded, vars, gateway
<1>5. Spec => [][\A k \in DOMAIN receipts : Kept(k)]_vars
  BY <1>4, ComfyInvariant, PTL DEF Spec
<1> QED BY <1>5 DEF KeyKeepsItsPrompt
----------------------------------------------------------------------------
(* The gateway implements the ledger *)

\* A call has a receipt once it returned one, and not before.
Given == \A c \in Calls : c \in DOMAIN result <=> pc[c] \in {"returned", "replayed"}

LEMMA GivenInit == Init => Given
  BY DEF Init, Given, Empty

LEMMA ExecutesAtWork ==
  ASSUME ComfyInv, NEW c \in Calls, Reject(c) \/ LoseAnswer(c) \/ PollingEnds(c)
                                    \/ (RefuseOverwrite(c) /\ prior[c] = None)
  PROVE  Executing(c) /\ Trouble(c)
  BY DEF Reject, LoseAnswer, PollingEnds, RefuseOverwrite, Executing, AtWork, ComfyInv, Reconciled, Reconciling

LEMMA NextKeepsGiven ==
  ASSUME ComfyInv, Given, [Next]_vars
  PROVE  Given'
<1>1. pc \in [Calls -> {"idle", "locking"} \cup AtWork \cup Reconciling \cup Ended]
  BY DEF ComfyInv, TypeOK
<1>2. ASSUME NEW c \in Calls, NEW r, NEW o \in {"returned", "replayed"}, Store(c, r), Leave(c, o)
      PROVE  Given'
  BY <1>1, <1>2 DEF Given, Store, Leave, Put
<1>3. ASSUME NEW c \in Calls, NEW p \in Payloads, Invoke(c, p) PROVE Given'
  BY <1>1, <1>3 DEF Given, Invoke, Conflict, ReplayBeforeLock, Refuse, Begin, Put
<1>4. ASSUME NEW c \in Calls, CallStep(c) PROVE Given'
  <2>1. CASE KeepOrFail(c) \/ Materialize(c)
    BY <1>2, <2>1 DEF KeepOrFail, Materialize
  <2>2. CASE Reject(c) \/ LoseAnswer(c) \/ PollingEnds(c) \/ (RefuseOverwrite(c) /\ prior[c] = None)
    BY <1>2, <2>2 DEF Reject, LoseAnswer, PollingEnds, RefuseOverwrite, Trouble
  <2>3. CASE ReconcileFails(c) \/ (RefuseOverwrite(c) /\ prior[c] # None)
    BY <1>1, <2>3
       DEF Given, ReconcileFails, RefuseOverwrite, Leave, ComfyInv, Reconciled, Reconciling
  <2>4. CASE ReplayInsideLock(c)
    BY <1>1, <2>4 DEF Given, ReplayInsideLock, Put
  <2>5. CASE \/ Enter(c) \/ Prepare(c) \/ AcceptPrompt(c) \/ ReceivePromptId(c) \/ SeeCompletion(c)
             \/ AskHistory(c) \/ FetchAgain(c)
    BY <1>1, <2>5
       DEF Given, Enter, Prepare, AcceptPrompt, ReceivePromptId, SeeCompletion, AskHistory, FetchAgain, calls
  <2> QED BY <1>4, <2>1, <2>2, <2>3, <2>4, <2>5 DEF CallStep
<1>5. ASSUME NEW c \in Calls, Cancel(c) PROVE Given'
  BY <1>1, <1>5 DEF Given, Cancel, Leave, AtWork, Reconciling
<1>6. CASE (\E c \in Calls : AcceptLate(c) \/ JobEnds(c)) \/ UNCHANGED vars
  BY <1>6 DEF Given, AcceptLate, JobEnds, vars, calls
<1> QED BY <1>3, <1>4, <1>5, <1>6 DEF Next, AllEnded

LEMMA LedgerInvariant == Spec => [](ComfyInv /\ Given)
  BY GivenInit, NextKeepsGiven, ComfyInvariant, PTL DEF Spec

AbstractLedger == [k \in DOMAIN receipts |-> Lasting(receipts[k])]
AbstractAnswer == [c \in DOMAIN result |-> Lasting(result[c])]
NoReceipt == {"conflict", "refused", "raised", "cancelled"}
AbstractGone == {c \in Calls : pc[c] \in NoReceipt}

LEMMA LedgerInit == Init => Ledger!Init
  BY DEF Init, Ledger!Init, Empty

LEMMA LastingType ==
  ASSUME NEW r \in Receipt
  PROVE  Lasting(r) \in Receipt
  BY ComfyAssumption DEF Lasting, Receipt

\* Two receipts of one payload and prompt fix the same.
LEMMA LastingSame ==
  ASSUME NEW r \in Receipt, NEW q \in Receipt, r.payload = q.payload, r.prompt = q.prompt,
         r.prompt # None
  PROVE  Lasting(r) = Lasting(q)
  BY DEF Lasting, Receipt

\* The receipt of an execution binds its key.
LEMMA ExecutionSettles ==
  ASSUME ComfyInv, Given, NEW c \in Calls, Executing(c), NEW r \in Receipt,
         Store(c, r), Leave(c, "returned")
  PROVE  Ledger!Next
<1>1. c \notin DOMAIN result /\ pc[c] \notin NoReceipt /\ KeyOf[c] \notin DOMAIN receipts
  BY DEF ComfyInv, LockHeld, Executing, AtWork, Given, NoReceipt, Known
<1>2. KeyOf[c] # None
  BY ComfyAssumption
<1>3. AbstractLedger' = Ledger!Extend(AbstractLedger, KeyOf[c], Lasting(r))
  BY DEF AbstractLedger, Store, Put, Ledger!Extend
<1>4. AbstractAnswer' = Ledger!Extend(AbstractAnswer, c, Lasting(r))
  BY DEF AbstractAnswer, Store, Put, Ledger!Extend
<1>5. AbstractGone' = AbstractGone
  BY <1>1 DEF AbstractGone, ComfyInv, TypeOK, Leave, NoReceipt
<1>6. Ledger!Settle(c, Lasting(r))
  BY <1>1, <1>2, <1>3, <1>4, <1>5
     DEF Ledger!Settle, Ledger!Pending, AbstractLedger, AbstractAnswer, AbstractGone, NoReceipt
<1> QED BY <1>6, LastingType DEF Ledger!Next

\* A call that is given what its key fixed already.
LEMMA AnswerRepeats ==
  ASSUME ComfyInv, Given, NEW c \in Calls, pc[c] \notin Ended, Known(c),
         pc' = [pc EXCEPT ![c] = "replayed"], NEW r, result' = Put(result, c, r),
         Lasting(r) = Lasting(receipts[KeyOf[c]]), AbstractLedger' = AbstractLedger
  PROVE  Ledger!Next
<1>1. c \notin DOMAIN result /\ pc[c] \notin NoReceipt
  BY DEF Given, Ended, NoReceipt
<1>2. /\ KeyOf[c] \in DOMAIN AbstractLedger
      /\ AbstractAnswer' = Ledger!Extend(AbstractAnswer, c, AbstractLedger[KeyOf[c]])
  BY DEF AbstractAnswer, AbstractLedger, Known, Put, Ledger!Extend
<1>3. AbstractGone' = AbstractGone
  BY <1>1 DEF AbstractGone, ComfyInv, TypeOK, NoReceipt
<1>4. Ledger!Repeat(c)
  BY <1>1, <1>2, <1>3
     DEF Ledger!Repeat, Ledger!Pending, AbstractLedger, AbstractAnswer, AbstractGone, NoReceipt
<1> QED BY <1>4 DEF Ledger!Next

\* A reconciliation stores a receipt that fixes what the key's receipt of this
\* moment fixes, whichever receipt it started from.
LEMMA ReconciliationRepeats ==
  ASSUME ComfyInv, Given, NEW c \in Calls, prior[c] # None, NEW r \in Receipt,
         r.payload = prior[c].payload, r.prompt = prior[c].prompt,
         Store(c, r), Leave(c, "replayed")
  PROVE  Ledger!Next
<1>1. /\ pc[c] \notin Ended /\ Known(c) /\ r.prompt # None
      /\ receipts[KeyOf[c]].payload = r.payload /\ receipts[KeyOf[c]].prompt = r.prompt
      /\ receipts[KeyOf[c]] \in Receipt
  BY NoneIsNothing DEF ComfyInv, TypeOK, Reconciled, Reconciling, Ended, Known
<1>2. Lasting(r) = Lasting(receipts[KeyOf[c]])
  BY <1>1, LastingSame
<1>3. AbstractLedger' = AbstractLedger
  BY <1>1, <1>2 DEF AbstractLedger, Store, Put, Known
<1> QED BY <1>1, <1>2, <1>3, AnswerRepeats DEF Store, Leave

LEMMA EndLeaves ==
  ASSUME ComfyInv, Given, NEW c \in Calls, pc[c] \notin Ended,
         NEW p \in NoReceipt, pc' = [pc EXCEPT ![c] = p],
         UNCHANGED <<receipts, result>>
  PROVE  Ledger!Next
<1>1. c \notin DOMAIN result /\ pc[c] \notin NoReceipt
  BY DEF Given, Ended, NoReceipt
<1>2. AbstractGone' = AbstractGone \cup {c}
  BY DEF AbstractGone, ComfyInv, TypeOK
<1>3. AbstractAnswer' = AbstractAnswer /\ AbstractLedger' = AbstractLedger
  BY DEF AbstractAnswer, AbstractLedger
<1>4. Ledger!Leave(c)
  BY <1>1, <1>2, <1>3
     DEF Ledger!Leave, Ledger!Pending, AbstractLedger, AbstractAnswer, AbstractGone, NoReceipt
<1> QED BY <1>4 DEF Ledger!Next

LEMMA MoveStutters ==
  ASSUME UNCHANGED <<receipts, result>>,
         \A c \in Calls : pc'[c] \in NoReceipt <=> pc[c] \in NoReceipt
  PROVE  UNCHANGED Ledger!vars
  BY DEF Ledger!vars, NoReceipt

LEMMA TroubleSettles ==
  ASSUME ComfyInv, Given, NEW c \in Calls, Executing(c), Trouble(c)
  PROVE  Ledger!Next
<1> DEFINE prompt == IF pc[c] \in {"polling", "fetching"} THEN c ELSE None
           r == [status |-> IF prompt = None THEN "failed" ELSE "unknown",
                 payload |-> req[c], prompt |-> prompt, output |-> OutputOf[req[c]]]
<1>1. r \in Receipt
  BY ComfyAssumption DEF ComfyInv, TypeOK, Receipt
<1>2. Store(c, r) /\ Leave(c, "returned")
  BY DEF Trouble
<1> HIDE DEF r
<1> QED BY <1>1, <1>2, ExecutionSettles

LEMMA MaterializeImplements ==
  ASSUME ComfyInv, Given, NEW c \in Calls, Materialize(c)
  PROVE  Ledger!Next
<1> DEFINE r == [status |-> "completed", output |-> Destination(c), prompt |-> PromptOf(c),
                 payload |-> IF prior[c] = None THEN req[c] ELSE prior[c].payload]
<1>1. PromptOf(c) \in Calls
  BY DEF ComfyInv, Reconciled, PromptOf
<1>2. r \in Receipt
  BY <1>1, ComfyAssumption DEF ComfyInv, TypeOK, Receipt, Destination
<1>3. Store(c, r)
  BY DEF Materialize
<1>4. prior[c] = None => Executing(c) /\ Leave(c, "returned")
  BY DEF Materialize, Executing, AtWork
<1>5. prior[c] # None => /\ Leave(c, "replayed")
                         /\ r.payload = prior[c].payload /\ r.prompt = prior[c].prompt
  BY DEF Materialize, PromptOf
<1> HIDE DEF r
<1> QED BY <1>2, <1>3, <1>4, <1>5, ExecutionSettles, ReconciliationRepeats

LEMMA KeepOrFailImplements ==
  ASSUME ComfyInv, Given, NEW c \in Calls, KeepOrFail(c)
  PROVE  Ledger!Next
<1> DEFINE r == IF entry[c] = "error" THEN [prior[c] EXCEPT !.status = "failed"] ELSE prior[c]
<1>1. prior[c] \in Receipt /\ prior[c] # None
  BY DEF ComfyInv, TypeOK, Reconciled, KeepOrFail
<1>2. r \in Receipt /\ r.payload = prior[c].payload /\ r.prompt = prior[c].prompt
  BY <1>1 DEF Receipt
<1>3. Store(c, r) /\ Leave(c, "replayed")
  BY DEF KeepOrFail
<1> HIDE DEF r
<1> QED BY <1>1, <1>2, <1>3, ReconciliationRepeats

LEMMA CallImplements ==
  ASSUME ComfyInv, Given, NEW c \in Calls,
         CallStep(c) \/ Cancel(c) \/ \E p \in Payloads : Invoke(c, p)
  PROVE  Ledger!Next \/ UNCHANGED Ledger!vars
<1>1. pc \in [Calls -> {"idle", "locking"} \cup AtWork \cup Reconciling \cup Ended]
  BY DEF ComfyInv, TypeOK
<1>2. CASE Reject(c) \/ LoseAnswer(c) \/ PollingEnds(c) \/ (RefuseOverwrite(c) /\ prior[c] = None)
  BY <1>2, ExecutesAtWork, TroubleSettles
<1>3. CASE Materialize(c) \/ KeepOrFail(c)
  BY <1>3, MaterializeImplements, KeepOrFailImplements
<1>4. ASSUME NEW p \in Payloads, ReplayBeforeLock(c, p)
      PROVE  Ledger!Next \/ UNCHANGED Ledger!vars
  <2>1. CASE Settled(receipts[KeyOf[c]])
    <3>1. /\ Known(c) /\ pc[c] \notin Ended /\ AbstractLedger' = AbstractLedger
          /\ pc' = [pc EXCEPT ![c] = "replayed"] /\ result' = Put(result, c, receipts[KeyOf[c]])
      BY <1>4, <2>1 DEF ReplayBeforeLock, Ended, AbstractLedger, gateway
    <3> QED BY <3>1, AnswerRepeats
  <2>2. CASE ~Settled(receipts[KeyOf[c]])
    BY <1>1, <1>4, <2>2, MoveStutters DEF ReplayBeforeLock, gateway, NoReceipt
  <2> QED BY <2>1, <2>2
<1>5. CASE ReplayInsideLock(c)
  <2>1. CASE Settled(receipts[KeyOf[c]])
    <3>1. /\ Known(c) /\ pc[c] \notin Ended /\ AbstractLedger' = AbstractLedger
          /\ pc' = [pc EXCEPT ![c] = "replayed"] /\ result' = Put(result, c, receipts[KeyOf[c]])
      BY <1>5, <2>1 DEF ReplayInsideLock, Ended, AbstractLedger
    <3> QED BY <3>1, AnswerRepeats
  <2>2. CASE ~Settled(receipts[KeyOf[c]])
    BY <1>1, <1>5, <2>2, MoveStutters DEF ReplayInsideLock, NoReceipt
  <2> QED BY <2>1, <2>2
<1>6. CASE ReconcileFails(c) \/ (RefuseOverwrite(c) /\ prior[c] # None) \/ Cancel(c)
  <2>1. pc[c] \notin Ended
    BY <1>6 DEF ReconcileFails, RefuseOverwrite, Cancel, ComfyInv, Reconciled, AtWork, Reconciling, Ended
  <2>2. \E p \in NoReceipt : pc' = [pc EXCEPT ![c] = p]
    BY <1>6 DEF ReconcileFails, RefuseOverwrite, Cancel, Leave, NoReceipt
  <2>3. UNCHANGED <<receipts, result>>
    BY <1>6 DEF ReconcileFails, RefuseOverwrite, Cancel
  <2> QED BY <2>1, <2>2, <2>3, EndLeaves
<1>7. CASE \E p \in Payloads : Conflict(c, p) \/ Refuse(c, p)
  BY <1>7, EndLeaves DEF Conflict, Refuse, gateway, NoReceipt, Ended
<1>8. CASE \/ Enter(c) \/ Prepare(c) \/ AcceptPrompt(c) \/ ReceivePromptId(c) \/ SeeCompletion(c)
           \/ AskHistory(c) \/ FetchAgain(c) \/ \E p \in Payloads : Begin(c, p)
  BY <1>1, <1>8, MoveStutters
     DEF Enter, Prepare, AcceptPrompt, ReceivePromptId, SeeCompletion, AskHistory, FetchAgain, Begin,
         gateway, calls, NoReceipt
<1> QED BY <1>2, <1>3, <1>4, <1>5, <1>6, <1>7, <1>8 DEF CallStep, Invoke

LEMMA StepImplements == ComfyInv /\ Given /\ [Next]_vars => [Ledger!Next]_(Ledger!vars)
<1> SUFFICES ASSUME ComfyInv, Given, [Next]_vars PROVE Ledger!Next \/ UNCHANGED Ledger!vars
  OBVIOUS
<1>1. ASSUME NEW c \in Calls, CallStep(c) \/ Cancel(c) \/ \E p \in Payloads : Invoke(c, p)
      PROVE  Ledger!Next \/ UNCHANGED Ledger!vars
  BY <1>1, CallImplements
<1>2. CASE (\E c \in Calls : AcceptLate(c) \/ JobEnds(c)) \/ AllEnded \/ UNCHANGED vars
  BY <1>2, MoveStutters DEF AcceptLate, JobEnds, AllEnded, vars, gateway, calls
<1> QED BY <1>1, <1>2 DEF Next

\* Whatever fails, restarts or overtakes, the gateway is an idempotent ledger of
\* prompts: a key's first receipt decides its payload and its prompt for good,
\* and every caller who is given a receipt is given one of them.
THEOREM ComfyImplementsLedger == Spec => ImplementsLedger
<1>1. Spec => Ledger!Spec
  BY LedgerInit, StepImplements, LedgerInvariant, PTL DEF Spec, Ledger!Spec
<1> QED BY <1>1 DEF ImplementsLedger
----------------------------------------------------------------------------
(* Why every call can end: what liveness rests on without fairness *)

Live(c) == pc[c] \notin {"idle"} \cup Ended

\* What a coroutine awaits is there: the next step of its code can be taken.
CanStep(c) == pc[c] \in AtWork \cup Reconciling \/ (pc[c] = "locking" /\ lock = None)

\* A call that started can go on, or waits for a lock whose holder can.
NobodyIsStuck ==
    \A c \in Calls : Live(c) => CanStep(c) \/ (lock \in Calls /\ Live(lock) /\ CanStep(lock))

\* The steps a call has left at most; polls that bring nothing new are none.
StepsLeft(c) ==
    CASE pc[c] = "locking" -> 7
      [] pc[c] = "preparing" -> 6
      [] pc[c] = "queueing" /\ jobs[c] = "none" -> 5
      [] pc[c] = "queueing" /\ jobs[c] # "none" -> 4
      [] pc[c] \in {"polling", "reconciling"} -> 3
      [] pc[c] = "resuming" -> 2
      [] pc[c] = "fetching" -> 1
      [] OTHER -> 0

\* A started call has finitely many steps left.  Each of its own steps makes
\* them fewer, nothing anybody else does makes them more, and it never starts
\* again.
EachStepIsNearer ==
    [][\A c \in Calls : pc[c] # "idle" =>
          /\ pc'[c] # "idle"
          /\ StepsLeft(c) \in Nat /\ StepsLeft(c)' \in Nat
          /\ StepsLeft(c)' <= StepsLeft(c)
          /\ CallStep(c) => StepsLeft(c)' < StepsLeft(c)]_vars

\* The lock is held by a call inside it, executing or reconciling.
Holding == lock # None => pc[lock] \in AtWork \cup Reconciling

\* Where a call's own step leads: never back, and to no more steps than before.
LEMMA OwnStep ==
  ASSUME ComfyInv, Holding, NEW c \in Calls, CallStep(c) \/ Cancel(c)
  PROVE  /\ pc[c] # "idle" /\ pc'[c] # "idle"
         /\ StepsLeft(c) \in Nat /\ StepsLeft(c)' \in Nat /\ StepsLeft(c)' < StepsLeft(c)
         /\ \A d \in Calls : d # c => pc'[d] = pc[d] /\ jobs'[d] = jobs[d]
         /\ Holding'
<1> USE NoneIsNothing DEF ComfyInv, TypeOK, StepsLeft, AtWork, Reconciling, Ended, Holding
<1>1. CASE ReplayInsideLock(c) \/ Enter(c)
  BY <1>1 DEF ReplayInsideLock, Enter, comfy
<1>2. CASE Prepare(c) \/ ReceivePromptId(c) \/ SeeCompletion(c) \/ AskHistory(c) \/ FetchAgain(c)
  BY <1>2 DEF Prepare, ReceivePromptId, SeeCompletion, AskHistory, FetchAgain, comfy, gateway
<1>3. CASE AcceptPrompt(c)
  BY <1>3 DEF AcceptPrompt, gateway, calls
<1>4. CASE Reject(c) \/ LoseAnswer(c) \/ PollingEnds(c)
  BY <1>4 DEF Reject, LoseAnswer, PollingEnds, Trouble, Leave, StopWaiting, comfy
<1>5. CASE KeepOrFail(c) \/ Materialize(c) \/ RefuseOverwrite(c)
  BY <1>5 DEF KeepOrFail, Materialize, RefuseOverwrite, Trouble, Leave, comfy
<1>6. CASE ReconcileFails(c)
  <2>1. pc[c] \in Reconciling
    BY <1>6 DEF ReconcileFails, Reconciled
  <2> QED BY <1>6, <2>1 DEF ReconcileFails, Leave, comfy
<1>7. CASE Cancel(c)
  BY <1>7 DEF Cancel, Leave, StopWaiting
<1> QED BY <1>1, <1>2, <1>3, <1>4, <1>5, <1>6, <1>7 DEF CallStep

\* A start, a prompt accepted late, a prompt that ends: no call that has
\* started moves, and none that queues learns of a prompt it did not have.
LEMMA OthersStep ==
  ASSUME ComfyInv, Holding, [Next]_vars, ~\E c \in Calls : CallStep(c) \/ Cancel(c)
  PROVE  /\ \A c \in Calls : pc[c] # "idle" =>
               /\ pc'[c] = pc[c]
               /\ pc[c] = "queueing" => (jobs'[c] = "none" <=> jobs[c] = "none")
         /\ Holding'
<1> USE DEF ComfyInv, TypeOK, Holding
<1>1. ASSUME NEW c \in Calls, NEW p \in Payloads, Invoke(c, p)
      PROVE  pc[c] = "idle" /\ (\A d \in Calls : d # c => pc'[d] = pc[d]) /\ jobs' = jobs /\ lock' = lock
  BY <1>1 DEF Invoke, Conflict, ReplayBeforeLock, Refuse, Begin, comfy, gateway
<1>2. CASE \E c \in Calls : \E p \in Payloads : Invoke(c, p)
  BY <1>1, <1>2 DEF AtWork, Reconciling
<1>3. ASSUME NEW c \in Calls, AcceptLate(c)
      PROVE  /\ pc[c] # "queueing" /\ \A d \in Calls : d # c => jobs'[d] = jobs[d]
             /\ pc' = pc /\ lock' = lock
  BY <1>3 DEF AcceptLate, Prompted, gateway, calls
<1>4. ASSUME NEW c \in Calls, JobEnds(c)
      PROVE  /\ jobs[c] # "none" /\ jobs'[c] # "none" /\ \A d \in Calls : d # c => jobs'[d] = jobs[d]
             /\ pc' = pc /\ lock' = lock
  BY <1>4 DEF JobEnds, gateway, calls
<1>5. CASE \E c \in Calls : AcceptLate(c) \/ JobEnds(c)
  BY <1>3, <1>4, <1>5
<1>6. CASE AllEnded \/ UNCHANGED vars
  BY <1>6 DEF AllEnded, vars, comfy, gateway, calls
<1> QED BY <1>2, <1>5, <1>6 DEF Next

LEMMA HoldingInvariant == Spec => []Holding
<1>1. Init => Holding
  BY DEF Init, Holding
<1>2. ComfyInv /\ Holding /\ [Next]_vars => Holding'
  BY OwnStep, OthersStep
<1> QED BY <1>1, <1>2, ComfyInvariant, PTL DEF Spec

\* No deadlock, for any number of calls: whoever holds the lock can go on.
THEOREM ComfyNobodyIsStuck == Spec => []NobodyIsStuck
<1>1. ComfyInv /\ Holding => NobodyIsStuck
  BY DEF ComfyInv, TypeOK, Holding, NobodyIsStuck, Live, CanStep, AtWork, Reconciling, Ended
<1> QED BY <1>1, ComfyInvariant, HoldingInvariant, PTL

\* Together with the fairness of the scheduler this is why EveryTaskEnds holds,
\* whatever fails, is lost, forgotten or cancelled.
THEOREM ComfyStepsAreNearer == Spec => EachStepIsNearer
<1> DEFINE Nearer(c) == pc[c] # "idle" =>
               /\ pc'[c] # "idle"
               /\ StepsLeft(c) \in Nat /\ StepsLeft(c)' \in Nat
               /\ StepsLeft(c)' <= StepsLeft(c)
               /\ CallStep(c) => StepsLeft(c)' < StepsLeft(c)
<1>1. \A c \in Calls : StepsLeft(c) \in Nat
  BY DEF StepsLeft
<1>2. ASSUME ComfyInv, Holding, [Next]_vars, NEW c \in Calls PROVE Nearer(c)
  <2>1. CASE CallStep(c) \/ Cancel(c)
    BY <1>2, <2>1, OwnStep
  <2>2. CASE ~CallStep(c) /\ ~Cancel(c) /\ pc[c] # "idle"
    <3>1. pc'[c] = pc[c] /\ (pc[c] = "queueing" => (jobs'[c] = "none" <=> jobs[c] = "none"))
      BY <1>2, <2>2, OwnStep, OthersStep
    <3>2. StepsLeft(c)' = StepsLeft(c)
      BY <3>1 DEF StepsLeft
    <3> QED BY <1>1, <2>2, <3>1, <3>2
  <2> QED BY <2>1, <2>2
<1>3. ComfyInv /\ Holding /\ [Next]_vars => [\A c \in Calls : Nearer(c)]_vars
  BY <1>2
<1> QED BY <1>3, ComfyInvariant, HoldingInvariant, PTL DEF Spec, EachStepIsNearer
=============================================================================
