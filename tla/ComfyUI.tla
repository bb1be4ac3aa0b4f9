------------------------------- MODULE ComfyUI -------------------------------
(***************************************************************************)
(* The ComfyUI gateway (comfyui.py): stylize queues one prompt per key,    *)
(* polls it, downloads its one picture and moves it to the output path.    *)
(* One asyncio lock serialises executions; a later call of a key whose     *)
(* receipt is unknown reconciles it by the prompt's history, before it     *)
(* ever looks at the lock.                                                 *)
(*                                                                         *)
(* A coroutine step is what runs between two awaits.  A call queues at     *)
(* most one prompt, so its prompt id is the call itself; a graph with its  *)
(* seed determines the picture, so a picture is the payload it shows.      *)
(***************************************************************************)
EXTENDS Naturals, FiniteSets

CONSTANTS
    Calls,     \* coroutines running stylize, each once
    Keys,      \* idempotency keys
    KeyOf,     \* KeyOf[c]: the key call c is made with
    Payloads,  \* distinct requests (fingerprints), their output included
    OutputOf,  \* OutputOf[p]: the output path of payload p
    Files,     \* output paths
    Faults,    \* which of FaultKinds the environment may produce
    None       \* absent lock owner, prompt id, receipt

FaultKinds == {"unready",   \* a node or a model is missing, the workflow is rejected
               "loss",      \* the answer to a request is lost or unusable
               "restart",   \* ComfyUI forgets a prompt
               "cancel"}    \* the caller's timeout cancels the coroutine

Receipt == [status : {"completed", "failed", "unknown"}, payload : Payloads,
            prompt : Calls \cup {None}, output : Files]

ASSUME ComfyAssumption ==
    /\ None \notin Calls \cup Keys \cup Receipt
    /\ KeyOf \in [Calls -> Keys]
    /\ Payloads # {}
    /\ OutputOf \in [Payloads -> Files]
    /\ Faults \subseteq FaultKinds

VARIABLES
    jobs,      \* prompt -> what ComfyUI has made of it
    late,      \* queue requests nobody waits for and ComfyUI may still accept
    files,     \* output path -> the picture in it
    lock,      \* self._lock: its holder
    receipts,  \* self._receipts: key -> receipt
    pc,        \* where each coroutine is suspended
    req,       \* the payload of each call
    prior,     \* call -> the receipt it reconciles, None while it executes
    entry,     \* call -> the history answer it is about to act on
    result     \* call -> the receipt it returned

comfy == <<jobs, late>>
gateway == <<lock, receipts>>
calls == <<pc, req, prior, entry, result>>
vars == <<comfy, files, gateway, calls>>

JobStates == {"none", "running", "done", "error", "lost"}

AtWork == {"preparing", "queueing", "polling", "fetching"}
Reconciling == {"reconciling", "resuming", "fetching"}
Ended == {"conflict", "refused", "returned", "replayed", "raised", "cancelled"}

Put(f, x, v) == [y \in DOMAIN f \cup {x} |-> IF y = x THEN v ELSE f[y]]
Empty == [x \in {} |-> x]

Init ==
    /\ jobs = [c \in Calls |-> "none"]
    /\ late = {}
    /\ files = Empty
    /\ lock = None
    /\ receipts = Empty
    /\ pc = [c \in Calls |-> "idle"]
    /\ req = [c \in Calls |-> CHOOSE p \in Payloads : TRUE]
    /\ prior = [c \in Calls |-> None]
    /\ entry = [c \in Calls |-> "none"]
    /\ result = Empty

----------------------------------------------------------------------------
(* stylize up to its first await *)

Known(c) == KeyOf[c] \in DOMAIN receipts

\* The call leaves stylize; `async with self._lock` is left if it was entered.
Leave(c, outcome) ==
    /\ pc' = [pc EXCEPT ![c] = outcome]
    /\ lock' = IF lock = c THEN None ELSE lock
    /\ prior' = [prior EXCEPT ![c] = None]
    /\ entry' = [entry EXCEPT ![c] = "none"]

\* _reconcile returns at once for a receipt that has nothing to reconcile.
Settled(receipt) == receipt.status # "unknown" \/ receipt.prompt = None

Conflict(c, p) ==
    /\ pc[c] = "idle"
    /\ Known(c) /\ receipts[KeyOf[c]].payload # p
    /\ pc' = [pc EXCEPT ![c] = "conflict"]
    /\ req' = [req EXCEPT ![c] = p]
    /\ UNCHANGED <<comfy, files, gateway, prior, entry, result>>

ReplayBeforeLock(c, p) ==
    /\ pc[c] = "idle"
    /\ Known(c) /\ receipts[KeyOf[c]].payload = p
    /\ req' = [req EXCEPT ![c] = p]
    /\ LET r == receipts[KeyOf[c]] IN
          IF Settled(r)
          THEN /\ pc' = [pc EXCEPT ![c] = "replayed"]
               /\ result' = Put(result, c, r)
               /\ UNCHANGED prior
          ELSE /\ pc' = [pc EXCEPT ![c] = "reconciling"]
               /\ prior' = [prior EXCEPT ![c] = r]
               /\ UNCHANGED result
    /\ UNCHANGED <<comfy, files, gateway, entry>>

\* A new key must name an output that does not exist yet.
Refuse(c, p) ==
    /\ pc[c] = "idle"
    /\ ~Known(c)
    /\ OutputOf[p] \in DOMAIN files
    /\ pc' = [pc EXCEPT ![c] = "refused"]
    /\ req' = [req EXCEPT ![c] = p]
    /\ UNCHANGED <<comfy, files, gateway, prior, entry, result>>

Begin(c, p) ==
    /\ pc[c] = "idle"
    /\ ~Known(c)
    /\ OutputOf[p] \notin DOMAIN files
    /\ pc' = [pc EXCEPT ![c] = "locking"]
    /\ req' = [req EXCEPT ![c] = p]
    /\ UNCHANGED <<comfy, files, gateway, prior, entry, result>>

Invoke(c, p) == Conflict(c, p) \/ ReplayBeforeLock(c, p) \/ Refuse(c, p) \/ Begin(c, p)

----------------------------------------------------------------------------
(* stylize inside the lock *)

\* The key was bound while this call waited: its receipt answers the call,
\* whatever the call's own payload is.
ReplayInsideLock(c) ==
    /\ pc[c] = "locking"
    /\ lock = None
    /\ Known(c)
    /\ LET r == receipts[KeyOf[c]] IN
          IF Settled(r)
          THEN /\ pc' = [pc EXCEPT ![c] = "replayed"]
               /\ result' = Put(result, c, r)
               /\ UNCHANGED <<lock, prior>>
          ELSE /\ pc' = [pc EXCEPT ![c] = "reconciling"]
               /\ lock' = c
               /\ prior' = [prior EXCEPT ![c] = r]
               /\ UNCHANGED result
    /\ UNCHANGED <<comfy, files, receipts, req, entry>>

Enter_WithoutRecheck(c) ==
    /\ pc[c] = "locking"
    /\ lock = None
    /\ lock' = c
    /\ pc' = [pc EXCEPT ![c] = "preparing"]
    /\ UNCHANGED <<comfy, files, receipts, req, prior, entry, result>>

Enter(c) ==
    /\ pc[c] = "locking"
    /\ lock = None
    /\ ~Known(c)
    /\ lock' = c
    /\ pc' = [pc EXCEPT ![c] = "preparing"]
    /\ UNCHANGED <<comfy, files, receipts, req, prior, entry, result>>

\* Nodes and models are there and the source is uploaded.
Prepare(c) ==
    /\ pc[c] = "preparing"
    /\ pc' = [pc EXCEPT ![c] = "queueing"]
    /\ UNCHANGED <<comfy, files, gateway, req, prior, entry, result>>

AcceptPrompt(c) ==
    /\ pc[c] = "queueing"
    /\ jobs[c] = "none"
    /\ jobs' = [jobs EXCEPT ![c] = "running"]
    /\ UNCHANGED <<late, files, gateway, calls>>

ReceivePromptId(c) ==
    /\ pc[c] = "queueing"
    /\ jobs[c] # "none"
    /\ pc' = [pc EXCEPT ![c] = "polling"]
    /\ UNCHANGED <<comfy, files, gateway, req, prior, entry, result>>

SeeCompletion_OfAnyEnd(c) ==
    /\ pc[c] = "polling"
    /\ jobs[c] \in {"done", "error"}
    /\ pc' = [pc EXCEPT ![c] = "fetching"]
    /\ UNCHANGED <<comfy, files, gateway, req, prior, entry, result>>

\* The poll that finds the prompt completed.
SeeCompletion(c) ==
    /\ pc[c] = "polling"
    /\ jobs[c] = "done"
    /\ pc' = [pc EXCEPT ![c] = "fetching"]
    /\ UNCHANGED <<comfy, files, gateway, req, prior, entry, result>>

\* A request whose caller stops waiting may still reach ComfyUI.
StopWaiting(c) ==
    /\ late' = IF pc[c] = "queueing" /\ jobs[c] = "none" THEN late \cup {c} ELSE late
    /\ UNCHANGED jobs

Store(c, receipt) ==
    /\ receipts' = Put(receipts, KeyOf[c], receipt)
    /\ result' = Put(result, c, receipt)

\* An exception of an execution is stored: unknown once the prompt id is known.
Trouble(c) ==
    LET prompt == IF pc[c] \in {"polling", "fetching"} THEN c ELSE None IN
    /\ Store(c, [status |-> IF prompt = None THEN "failed" ELSE "unknown",
                 payload |-> req[c], prompt |-> prompt, output |-> OutputOf[req[c]]])
    /\ Leave(c, "returned")

\* A missing node or model, or a workflow ComfyUI rejects.
Reject(c) ==
    /\ pc[c] \in {"preparing", "queueing"} /\ jobs[c] = "none"
    /\ "unready" \in Faults
    /\ Trouble(c)
    /\ UNCHANGED <<comfy, files, req>>

LoseAnswer(c) ==
    /\ pc[c] \in AtWork /\ prior[c] = None
    /\ "loss" \in Faults
    /\ Trouble(c)
    /\ StopWaiting(c)
    /\ UNCHANGED <<files, req>>

\* The prompt ended in an error, or timeout_seconds are over.
PollingEnds(c) ==
    /\ pc[c] = "polling"
    /\ Trouble(c)
    /\ UNCHANGED <<comfy, files, req>>

----------------------------------------------------------------------------
(* _reconcile *)

\* History is answered by what the prompt is now; the coroutine acts on it later.
AskHistory(c) ==
    /\ pc[c] = "reconciling"
    /\ entry' = [entry EXCEPT ![c] = jobs[prior[c].prompt]]
    /\ pc' = [pc EXCEPT ![c] = "resuming"]
    /\ UNCHANGED <<comfy, files, gateway, req, prior, result>>

KeepOrFail_GivesUp(c) ==
    /\ pc[c] = "resuming"
    /\ entry[c] # "done"
    /\ Store(c, IF entry[c] \in {"error", "lost"} THEN [prior[c] EXCEPT !.status = "failed"] ELSE prior[c])
    /\ Leave(c, "replayed")
    /\ UNCHANGED <<comfy, files, req>>

KeepOrFail_CopiesStatus(c) ==
    /\ pc[c] = "resuming"
    /\ entry[c] # "done"
    /\ Store(c, IF entry[c] = "error" THEN [prior[c] EXCEPT !.status = entry[c]] ELSE prior[c])
    /\ Leave(c, "replayed")
    /\ UNCHANGED <<comfy, files, req>>

\* Nothing new, or the prompt failed: the receipt is stored again.
KeepOrFail(c) ==
    /\ pc[c] = "resuming"
    /\ entry[c] # "done"
    /\ Store(c, IF entry[c] = "error" THEN [prior[c] EXCEPT !.status = "failed"] ELSE prior[c])
    /\ Leave(c, "replayed")
    /\ UNCHANGED <<comfy, files, req>>

FetchAgain(c) ==
    /\ pc[c] = "resuming"
    /\ entry[c] = "done"
    /\ pc' = [pc EXCEPT ![c] = "fetching"]
    /\ UNCHANGED <<comfy, files, gateway, req, prior, entry, result>>

ReconcileFails_StoresFailure(c) ==
    /\ prior[c] # None
    /\ "loss" \in Faults
    /\ Store(c, [prior[c] EXCEPT !.status = "failed", !.prompt = None])
    /\ Leave(c, "returned")
    /\ UNCHANGED <<comfy, files, req>>

\* An exception of a reconciliation reaches the caller and stores nothing.
ReconcileFails(c) ==
    /\ prior[c] # None
    /\ "loss" \in Faults
    /\ Leave(c, "raised")
    /\ UNCHANGED <<comfy, files, receipts, req, result>>

----------------------------------------------------------------------------
(* _materialize: check, write and rename without an await *)

PromptOf(c) == IF prior[c] = None THEN c ELSE prior[c].prompt
PictureOf(c) == req[PromptOf(c)]
Destination(c) == OutputOf[req[c]]

Clashes_Never(c) == FALSE
Clashes(c) == Destination(c) \in DOMAIN files /\ files[Destination(c)] # PictureOf(c)

Materialize(c) ==
    /\ pc[c] = "fetching"
    /\ ~Clashes(c)
    /\ files' = Put(files, Destination(c), PictureOf(c))
    /\ Store(c, [status |-> "completed", output |-> Destination(c), prompt |-> PromptOf(c),
                 payload |-> IF prior[c] = None THEN req[c] ELSE prior[c].payload])
    /\ Leave(c, IF prior[c] = None THEN "returned" ELSE "replayed")
    /\ UNCHANGED <<comfy, req>>

\* The output appeared meanwhile with another picture in it.
RefuseOverwrite(c) ==
    /\ pc[c] = "fetching"
    /\ Clashes(c)
    /\ IF prior[c] = None THEN Trouble(c) ELSE Leave(c, "raised") /\ UNCHANGED <<receipts, result>>
    /\ UNCHANGED <<comfy, files, req>>

\* CancelledError is not an Exception: the lock goes and nothing is stored.
Cancel_KeepsLock(c) ==
    /\ pc[c] \in {"locking"} \cup AtWork \cup Reconciling
    /\ "cancel" \in Faults
    /\ pc' = [pc EXCEPT ![c] = "cancelled"]
    /\ StopWaiting(c)
    /\ UNCHANGED <<files, gateway, req, prior, entry, result>>

Cancel(c) ==
    /\ pc[c] \in {"locking"} \cup AtWork \cup Reconciling
    /\ "cancel" \in Faults
    /\ Leave(c, "cancelled")
    /\ StopWaiting(c)
    /\ UNCHANGED <<files, receipts, req, result>>

----------------------------------------------------------------------------
(* ComfyUI by itself *)

AcceptLate(c) ==
    /\ c \in late
    /\ late' = late \ {c}
    /\ jobs' = [jobs EXCEPT ![c] = "running"]
    /\ UNCHANGED <<files, gateway, calls>>

JobEnds(c) ==
    /\ jobs[c] = "running"
    /\ \E s \in {"done", "error"} \cup (IF "restart" \in Faults THEN {"lost"} ELSE {}) :
          jobs' = [jobs EXCEPT ![c] = s]
    /\ UNCHANGED <<late, files, gateway, calls>>

----------------------------------------------------------------------------
(* The system *)

CallStep(c) ==
    \/ ReplayInsideLock(c) \/ Enter(c) \/ Prepare(c)
    \/ AcceptPrompt(c) \/ ReceivePromptId(c) \/ SeeCompletion(c)
    \/ Reject(c) \/ LoseAnswer(c) \/ PollingEnds(c)
    \/ AskHistory(c) \/ KeepOrFail(c) \/ FetchAgain(c) \/ ReconcileFails(c)
    \/ Materialize(c) \/ RefuseOverwrite(c)

\* The coroutines of this run are over; nothing more happens by itself.
AllEnded == (\A c \in Calls : pc[c] \in Ended) /\ UNCHANGED vars

Next ==
    \/ \E c \in Calls : \E p \in Payloads : Invoke(c, p)
    \/ \E c \in Calls : CallStep(c) \/ Cancel(c)
    \/ \E c \in Calls : AcceptLate(c) \/ JobEnds(c)
    \/ AllEnded

Spec == Init /\ [][Next]_vars

\* asyncio runs every ready coroutine, asyncio.Lock wakes its waiters in turn,
\* every request ends within request_timeout and polling within timeout_seconds.
FairSpec == Spec /\ \A c \in Calls : WF_vars(CallStep(c))

----------------------------------------------------------------------------
(* Properties *)

TypeOK ==
    /\ jobs \in [Calls -> JobStates] /\ late \subseteq Calls
    /\ DOMAIN files \subseteq Files /\ \A f \in DOMAIN files : files[f] \in Payloads
    /\ lock \in Calls \cup {None}
    /\ DOMAIN receipts \subseteq Keys /\ \A k \in DOMAIN receipts : receipts[k] \in Receipt
    /\ pc \in [Calls -> {"idle", "locking"} \cup AtWork \cup Reconciling \cup Ended]
    /\ req \in [Calls -> Payloads]
    /\ prior \in [Calls -> Receipt \cup {None}]
    /\ entry \in [Calls -> JobStates]
    /\ DOMAIN result \subseteq Calls /\ \A c \in DOMAIN result : result[c] \in Receipt

\* ComfyUI works twice for one key only if one of the two calls was cancelled:
\* neither a lost answer nor a retry nor a concurrent caller queues it again.
OnePromptPerKey ==
    \A c, d \in Calls :
        c # d /\ KeyOf[c] = KeyOf[d] /\ jobs[c] # "none" /\ jobs[d] # "none"
        => "cancelled" \in {pc[c], pc[d]}

\* A key keeps its payload and its prompt through every reconciliation, and a
\* receipt without a prompt is final.
KeyKeepsItsPrompt ==
    [][\A k \in DOMAIN receipts :
          /\ k \in DOMAIN receipts'
          /\ receipts'[k].payload = receipts[k].payload
          /\ receipts'[k].prompt = receipts[k].prompt
          /\ receipts[k].prompt = None => receipts'[k] = receipts[k]]_vars

\* What a receipt fixes: all of it when it has no prompt, else the payload and
\* the prompt, whose status and output reconciliation still brings up to date.
Lasting(r) ==
    IF r.prompt = None THEN r ELSE [r EXCEPT !.status = "unknown", !.output = OutputOf[r.payload]]

\* The gateway is a ledger of prompts: a key gets one payload and one prompt and
\* keeps them through reconciliations that overtake each other, a caller who is
\* given a receipt is given one of its key's prompt, and every other caller is
\* told that it has none.
Ledger == INSTANCE IdempotentLedger WITH
    Outcomes <- Receipt,
    ledger <- [k \in DOMAIN receipts |-> Lasting(receipts[k])],
    answer <- [c \in DOMAIN result |-> Lasting(result[c])],
    gone <- {c \in Calls : pc[c] \in {"conflict", "refused", "raised", "cancelled"}}
ImplementsLedger == Ledger!Spec

\* While a completed receipt is a key's receipt, or has been given to a caller,
\* its output holds the picture of the receipt's own payload, and ComfyUI
\* completed the prompt: no other call has overwritten it.
HasItsPicture(r) ==
    r.status = "completed" =>
        /\ r.output \in DOMAIN files /\ files[r.output] = r.payload
        /\ jobs[r.prompt] = "done"
CompletedHasItsPicture ==
    /\ \A k \in DOMAIN receipts : HasItsPicture(receipts[k])
    /\ \A c \in DOMAIN result : HasItsPicture(result[c])

\* A receipt that calls for a new key is given for a prompt ComfyUI reported as
\* failed, or when no prompt id was ever received.
FailedIsHopeless ==
    \A c \in DOMAIN result :
        result[c].status = "failed" => result[c].prompt = None \/ jobs[result[c].prompt] = "error"

\* Every call that starts ends, and leaves the lock.
EveryTaskEnds == \A c \in Calls : pc[c] # "idle" ~> pc[c] \in Ended /\ lock # c
=============================================================================
