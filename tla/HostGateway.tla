----------------------------- MODULE HostGateway -----------------------------
(***************************************************************************)
(* The Blender and FreeCAD gateways (blender.py, freecad.py): one asyncio  *)
(* lock, receipts per idempotency key for the life of the process, and a   *)
(* whole batch sent as one script between two scene reads.  The gateways   *)
(* differ in two constants: FreeCAD's script runs in a transaction that is *)
(* aborted when it fails; Blender's gateway looks for errors in answers    *)
(* that report success.                                                    *)
(*                                                                         *)
(* A scene is the set of edits made to it, each with its author: its       *)
(* document_revision is a hash of it, and the delta of two scenes is the   *)
(* edits in between (no edit undoes an earlier one).                       *)
(***************************************************************************)
EXTENDS Naturals, Sequences, FiniteSets

CONSTANTS
    Calls,          \* coroutines running execute, each once
    Queries,        \* coroutines reading the scene, each once
    Keys,           \* idempotency keys
    KeyOf,          \* KeyOf[c]: the key call c is made with
    Payloads,       \* distinct batches with their intent (fingerprints)
    Scripts,        \* Scripts[p]: the steps of the compiled script
    Files,          \* files a step may write; every other step edits the scene
    Rollback,       \* a failing script leaves nothing behind
    ChecksAnswers,  \* an answer that carries an error in its text is an error
    ReadAttempts,   \* read_attempts of a scene query
    Faults,         \* which of FaultKinds the environment may produce
    MaxEdits,       \* bound on edits made in the host by somebody else
    None            \* absent revision, lock owner, answer

FaultKinds == {"unreadable",  \* a scene read fails or times out
               "scriptError", \* a step of a script raises
               "textError",   \* ... and the server reports it as success text
               "loss",        \* the script's answer is lost or late
               "cancel",      \* the caller's timeout cancels the coroutine
               "external"}    \* somebody edits the scene in the host

Tasks == Calls \cup Queries
HostAnswers == {"ok", "error", "textError"}

ASSUME HostAssumption ==
    /\ None \notin Tasks \cup Keys \cup Files \cup HostAnswers
    /\ Calls \cap Queries = {}
    /\ KeyOf \in [Calls -> Keys]
    /\ Payloads # {}
    /\ "edit" \notin Files
    /\ Scripts \in [Payloads -> Seq({"edit"} \cup Files)]
    /\ Rollback \in BOOLEAN /\ ChecksAnswers \in BOOLEAN
    /\ ReadAttempts \in Nat \ {0}
    /\ Faults \subseteq FaultKinds
    /\ MaxEdits \in Nat

VARIABLES
    scene,     \* the host's scene: edits <<author, step>>
    files,     \* file -> the call that wrote it last
    orphans,   \* calls whose script nobody waits for and the host may still run
    lock,      \* self._lock: its holder
    receipts,  \* self._receipts: key -> receipt
    pc,        \* where each coroutine is suspended
    req,       \* the arguments of each call
    before,    \* call -> the scene it read first
    answer,    \* call -> the host's answer to its script
    result,    \* call -> the receipt it returned
    tries,     \* query -> failed attempts
    ran        \* history: steps of its script the host ran for each call

host == <<scene, files, orphans, ran>>
gateway == <<lock, receipts>>
calls == <<pc, req, before, answer, result, tries>>
vars == <<host, gateway, calls>>

----------------------------------------------------------------------------
(* Values *)

Edit == (Calls \cup {None}) \X Nat
Receipt == [status : {"completed", "unknown"}, payload : Payloads, by : Calls, delta : SUBSET Edit]

Locked == {"before", "sent", "after", "reading"}
Ended == {"refused", "validated", "blocked", "returned", "replayed", "conflict", "raised", "cancelled"}

Put(f, x, v) == [y \in DOMAIN f \cup {x} |-> IF y = x THEN v ELSE f[y]]
Drop(f, x) == [y \in DOMAIN f \ {x} |-> f[y]]
Empty == [x \in {} |-> x]

Script(c) == Scripts[req[c].payload]

Init ==
    /\ scene = {}
    /\ files = Empty
    /\ orphans = {}
    /\ lock = None
    /\ receipts = Empty
    /\ pc = [t \in Tasks |-> "idle"]
    /\ req = [c \in Calls |-> [payload |-> CHOOSE p \in Payloads : TRUE,
                               dry_run |-> TRUE, revision |-> None]]
    /\ before = [c \in Calls |-> {}]
    /\ answer = [c \in Calls |-> None]
    /\ result = Empty
    /\ tries = [q \in Queries |-> 0]
    /\ ran = [c \in Calls |-> 0]

----------------------------------------------------------------------------
(* execute up to its first await *)

\* A caller passes no revision or the one it has just read; a dry run returns
\* before the revision is looked at.
Arguments ==
    [payload : Payloads, dry_run : {TRUE}, revision : {None}]
    \cup [payload : Payloads, dry_run : {FALSE}, revision : {None, scene}]

Known(c) == KeyOf[c] \in DOMAIN receipts

\* The key's receipt answers the call, as a replay or as a conflict.
AnswerKnown_AnyPayload(c, payload) ==
    /\ pc' = [pc EXCEPT ![c] = "replayed"]
    /\ result' = Put(result, c, receipts[KeyOf[c]])

AnswerKnown(c, payload) ==
    /\ pc' = [pc EXCEPT ![c] = IF receipts[KeyOf[c]].payload = payload
                               THEN "replayed" ELSE "conflict"]
    /\ result' = Put(result, c, receipts[KeyOf[c]])

Replay(c, a) ==
    /\ pc[c] = "idle"
    /\ Known(c)
    /\ AnswerKnown(c, a.payload)
    /\ req' = [req EXCEPT ![c] = a]
    /\ UNCHANGED <<host, gateway, before, answer, tries>>

\* blender_render_archviz and blender_import_handoff: an output that exists is
\* only accepted from the key that has a receipt.
Outputs(payload) == {f \in Files : \E n \in DOMAIN Scripts[payload] : Scripts[payload][n] = f}
Refuse_IgnoresReceipts(c, a) ==
    /\ pc[c] = "idle"
    /\ Outputs(a.payload) \cap DOMAIN files # {}
    /\ pc' = [pc EXCEPT ![c] = "refused"]
    /\ req' = [req EXCEPT ![c] = a]
    /\ UNCHANGED <<host, gateway, before, answer, result, tries>>

Refuse(c, a) ==
    /\ pc[c] = "idle"
    /\ ~Known(c)
    /\ Outputs(a.payload) \cap DOMAIN files # {}
    /\ pc' = [pc EXCEPT ![c] = "refused"]
    /\ req' = [req EXCEPT ![c] = a]
    /\ UNCHANGED <<host, gateway, before, answer, result, tries>>

Begin(c, a) ==
    /\ pc[c] = "idle"
    /\ ~Known(c)
    /\ Outputs(a.payload) \cap DOMAIN files = {}
    /\ pc' = [pc EXCEPT ![c] = IF a.dry_run THEN "validated" ELSE "locking"]
    /\ req' = [req EXCEPT ![c] = a]
    /\ UNCHANGED <<host, gateway, before, answer, result, tries>>

Invoke(c, a) == Replay(c, a) \/ Refuse(c, a) \/ Begin(c, a)

----------------------------------------------------------------------------
(* execute inside the lock *)

\* Another call may have bound the key while this one waited.
ReplayAfterWait(c) ==
    /\ pc[c] = "locking"
    /\ lock = None
    /\ Known(c)
    /\ AnswerKnown(c, req[c].payload)
    /\ UNCHANGED <<host, gateway, req, before, answer, tries>>

Enter_WithoutRecheck(c) ==
    /\ pc[c] = "locking"
    /\ lock = None
    /\ lock' = c
    /\ pc' = [pc EXCEPT ![c] = "before"]
    /\ UNCHANGED <<host, receipts, req, before, answer, result, tries>>

Enter_Unguarded(c) ==
    /\ pc[c] = "locking"
    /\ ~Known(c)
    /\ lock' = c
    /\ pc' = [pc EXCEPT ![c] = "before"]
    /\ UNCHANGED <<host, receipts, req, before, answer, result, tries>>

Enter(c) ==
    /\ pc[c] = "locking"
    /\ lock = None
    /\ ~Known(c)
    /\ lock' = c
    /\ pc' = [pc EXCEPT ![c] = "before"]
    /\ UNCHANGED <<host, receipts, req, before, answer, result, tries>>

RevisionMatches_Unchecked(c) == TRUE
RevisionMatches(c) == req[c].revision = None \/ req[c].revision = scene

ReadBefore(c) ==
    /\ pc[c] = "before"
    /\ RevisionMatches(c)
    /\ before' = [before EXCEPT ![c] = scene]
    /\ pc' = [pc EXCEPT ![c] = "sent"]
    /\ UNCHANGED <<host, gateway, req, answer, result, tries>>

\* A stale revision does not bind the key.
RefuseStaleRevision(c) ==
    /\ pc[c] = "before"
    /\ ~RevisionMatches(c)
    /\ lock' = None
    /\ pc' = [pc EXCEPT ![c] = "blocked"]
    /\ UNCHANGED <<host, receipts, req, before, answer, result, tries>>

\* How many of its steps a script may have run when the host is done with it.
Extents(c) ==
    {Len(Script(c))} \cup
    (IF "scriptError" \notin Faults THEN {} ELSE IF Rollback THEN {0} ELSE 0..Len(Script(c)))

\* The host runs the first n steps.
Perform(c, n) ==
    /\ scene' = scene \cup {e \in {c} \X (1..n) : Script(c)[e[2]] = "edit"}
    /\ files' = [f \in DOMAIN files \cup {f \in Files : \E m \in 1..n : Script(c)[m] = f} |->
                    IF \E m \in 1..n : Script(c)[m] = f THEN c ELSE files[f]]
    /\ ran' = [ran EXCEPT ![c] = n]

RunScript(c) ==
    /\ pc[c] = "sent"
    /\ answer[c] = None
    /\ \E n \in Extents(c) :
          /\ Perform(c, n)
          /\ \E said \in IF n = Len(Script(c)) THEN {"ok"}
                         ELSE {"error"} \cup (Faults \cap {"textError"}) :
                answer' = [answer EXCEPT ![c] = said]
    /\ UNCHANGED <<orphans, gateway, pc, req, before, result, tries>>

\* A script whose caller has gone.
RunOrphan(c) ==
    /\ c \in orphans
    /\ \E n \in Extents(c) : Perform(c, n)
    /\ orphans' = orphans \ {c}
    /\ UNCHANGED <<gateway, calls>>

ReportsError_Never(c) == FALSE
ReportsError(c) == answer[c] = "error" \/ (answer[c] = "textError" /\ ChecksAnswers)

ReceiveAnswer(c) ==
    /\ pc[c] = "sent"
    /\ answer[c] # None /\ ~ReportsError(c)
    /\ pc' = [pc EXCEPT ![c] = "after"]
    /\ UNCHANGED <<host, gateway, req, before, answer, result, tries>>

\* The locals die with the coroutine.
Forget(c) ==
    /\ before' = [before EXCEPT ![c] = {}]
    /\ answer' = [answer EXCEPT ![c] = None]

\* The lock is left with a receipt that binds the key.
NewReceipt_Failed(c, status, delta) ==
    [status |-> IF status = "unknown" THEN "failed" ELSE status,
     payload |-> req[c].payload, by |-> c, delta |-> delta]
NewReceipt(c, status, delta) == [status |-> status, payload |-> req[c].payload, by |-> c, delta |-> delta]
Bind_KeepsFailuresOut(c, receipt) ==
    /\ receipts' = IF receipt.status = "unknown" THEN receipts ELSE Put(receipts, KeyOf[c], receipt)
    /\ result' = Put(result, c, receipt)
    /\ pc' = [pc EXCEPT ![c] = "returned"]
    /\ lock' = None

Bind(c, receipt) ==
    /\ receipts' = Put(receipts, KeyOf[c], receipt)
    /\ result' = Put(result, c, receipt)
    /\ pc' = [pc EXCEPT ![c] = "returned"]
    /\ lock' = None

\* A cancelled or timed-out call ends; the host may still run its script.
StopWaiting(c) ==
    orphans' = IF pc[c] = "sent" /\ answer[c] = None THEN orphans \cup {c} ELSE orphans

\* Any exception between the lock and the second read: the key is bound to an
\* unknown receipt, whether or not the script was sent.
Fail(c) ==
    /\ \/ pc[c] \in {"before", "after"} /\ "unreadable" \in Faults
       \/ pc[c] = "sent" /\ answer[c] # None /\ ReportsError(c)
       \/ pc[c] = "sent" /\ "loss" \in Faults
    /\ Bind(c, NewReceipt(c, "unknown", {}))
    /\ StopWaiting(c)
    /\ Forget(c)
    /\ UNCHANGED <<scene, files, ran, req, tries>>

ReadAfter(c) ==
    /\ pc[c] = "after"
    /\ Bind(c, NewReceipt(c, "completed", scene \ before[c]))
    /\ Forget(c)
    /\ UNCHANGED <<host, req, tries>>

\* CancelledError is not an Exception: the lock goes and nothing is stored.
Cancel(c) ==
    /\ pc[c] \in {"locking"} \cup Locked
    /\ "cancel" \in Faults
    /\ pc' = [pc EXCEPT ![c] = "cancelled"]
    /\ lock' = IF lock = c THEN None ELSE lock
    /\ StopWaiting(c)
    /\ Forget(c)
    /\ UNCHANGED <<scene, files, ran, receipts, req, result, tries>>

----------------------------------------------------------------------------
(* scene_preprocessing and scene_query *)

StartQuery(q) ==
    /\ pc[q] = "idle"
    /\ pc' = [pc EXCEPT ![q] = "locking"]
    /\ UNCHANGED <<host, gateway, req, before, answer, result, tries>>

LockForQuery(q) ==
    /\ pc[q] = "locking"
    /\ lock = None
    /\ lock' = q
    /\ pc' = [pc EXCEPT ![q] = "reading"]
    /\ UNCHANGED <<host, receipts, req, before, answer, result, tries>>

EndQuery_KeepsLock(q, outcome) ==
    /\ pc' = [pc EXCEPT ![q] = outcome]
    /\ UNCHANGED lock

EndQuery(q, outcome) ==
    /\ pc' = [pc EXCEPT ![q] = outcome]
    /\ lock' = IF lock = q THEN None ELSE lock

ReadScene(q) ==
    /\ pc[q] = "reading"
    /\ EndQuery(q, "returned")
    /\ UNCHANGED <<host, receipts, req, before, answer, result, tries>>

\* The lock is kept between the attempts.
AttemptFails(q) ==
    /\ pc[q] = "reading"
    /\ "unreadable" \in Faults
    /\ tries' = [tries EXCEPT ![q] = @ + 1]
    /\ IF tries[q] + 1 < ReadAttempts THEN UNCHANGED <<pc, lock>> ELSE EndQuery(q, "raised")
    /\ UNCHANGED <<host, receipts, req, before, answer, result>>

CancelQuery(q) ==
    /\ pc[q] \in {"locking", "reading"}
    /\ "cancel" \in Faults
    /\ EndQuery(q, "cancelled")
    /\ UNCHANGED <<host, receipts, req, before, answer, result, tries>>

----------------------------------------------------------------------------
(* The system *)

EditScene(n) ==
    /\ "external" \in Faults
    /\ n \in 1..MaxEdits
    /\ <<None, n>> \notin scene
    /\ scene' = scene \cup {<<None, n>>}
    /\ UNCHANGED <<files, orphans, ran, gateway, calls>>

CallStep(c) ==
    \/ ReplayAfterWait(c) \/ Enter(c) \/ ReadBefore(c) \/ RefuseStaleRevision(c)
    \/ RunScript(c) \/ ReceiveAnswer(c) \/ Fail(c) \/ ReadAfter(c)

QueryStep(q) == LockForQuery(q) \/ ReadScene(q) \/ AttemptFails(q)

\* The coroutines of this run are over; nothing more happens by itself.
AllEnded == (\A t \in Tasks : pc[t] \in Ended) /\ UNCHANGED vars

Next ==
    \/ \E c \in Calls : \E a \in Arguments : Invoke(c, a)
    \/ \E c \in Calls : CallStep(c) \/ Cancel(c) \/ RunOrphan(c)
    \/ \E q \in Queries : StartQuery(q) \/ QueryStep(q) \/ CancelQuery(q)
    \/ \E n \in 1..MaxEdits : EditScene(n)
    \/ AllEnded

Spec == Init /\ [][Next]_vars

\* asyncio runs every ready coroutine, asyncio.Lock wakes its waiters in turn
\* and asyncio.wait_for ends every transport call.
FairSpec ==
    /\ Spec
    /\ \A c \in Calls : WF_vars(CallStep(c))
    /\ \A q \in Queries : WF_vars(QueryStep(q))

----------------------------------------------------------------------------
(* Properties *)

TypeOK ==
    /\ scene \subseteq Edit
    /\ DOMAIN files \subseteq Files /\ \A f \in DOMAIN files : files[f] \in Calls
    /\ orphans \subseteq Calls
    /\ lock \in Tasks \cup {None}
    /\ DOMAIN receipts \subseteq Keys /\ \A k \in DOMAIN receipts : receipts[k] \in Receipt
    /\ pc \in [Tasks -> {"idle", "locking"} \cup Locked \cup Ended]
    /\ \A c \in Calls : req[c].payload \in Payloads
    /\ before \in [Calls -> SUBSET Edit]
    /\ answer \in [Calls -> {None} \cup HostAnswers]
    /\ DOMAIN result \subseteq Calls /\ \A c \in DOMAIN result : result[c] \in Receipt
    /\ tries \in [Queries -> 0..ReadAttempts]
    /\ ran \in [Calls -> Nat]

\* The gateway implements the ledger its callers rely on: a key gets one
\* outcome, once, and every answer given under it is that outcome.  A dry run,
\* a stale revision and a refused output give a call no outcome of its key.
Outcome(receipt) == [payload |-> receipt.payload, status |-> receipt.status]
Ledger == INSTANCE IdempotentLedger WITH
    Outcomes <- [payload : Payloads, status : {"completed", "unknown"}],
    ledger <- [k \in DOMAIN receipts |-> Outcome(receipts[k])],
    answer <- [c \in DOMAIN result |-> Outcome(result[c])],
    gone <- {c \in Calls : pc[c] \in {"refused", "validated", "blocked", "cancelled"}}
ImplementsLedger == Ledger!Spec

\* All callers of a key agree: each gets the one receipt of the key, as a
\* replay when its payload is the key's and as a conflict when it is not.
CallersOfAKeyAgree ==
    \A c \in DOMAIN result :
        /\ KeyOf[c] \in DOMAIN receipts /\ result[c] = receipts[KeyOf[c]]
        /\ pc[c] = "replayed" => result[c].payload = req[c].payload
        /\ pc[c] = "conflict" => result[c].payload # req[c].payload

\* The host runs the scripts of two calls of one key only if one of them was
\* cancelled: a failure, a lost answer or an unreadable scene binds the key.
RepeatOnlyAfterCancel ==
    \A c, d \in Calls :
        c # d /\ KeyOf[c] = KeyOf[d] /\ ran[c] > 0 /\ ran[d] > 0
        => "cancelled" \in {pc[c], pc[d]}

\* Nothing changes silently: a call that ran a step is at work, was cancelled,
\* or bound its key to a receipt of its own; and a script called completed ran
\* to its end, if the gateway can tell an error when it is told one.
TellsErrors == ChecksAnswers \/ "textError" \notin Faults
StatusTellsWhatRan ==
    \A c \in Calls :
        /\ ran[c] > 0 => \/ pc[c] \in {"sent", "after", "cancelled"}
                         \/ pc[c] = "returned" /\ receipts[KeyOf[c]].by = c
        /\ TellsErrors /\ pc[c] = "returned" /\ result[c].status = "completed"
           => ran[c] = Len(Script(c))

\* Edits nobody serialises: made by a person, or by a script whose call was
\* cancelled or got no answer.
Stray(e) ==
    \/ e[1] = None
    \/ e[1] \in Calls /\ pc[e[1]] = "cancelled"
    \/ e[1] \in Calls /\ pc[e[1]] = "returned" /\ result[e[1]].status = "unknown"

\* The script of a call that names a revision runs on the scene it read, which
\* is that revision, but for stray edits: no other call of the gateway comes
\* between the check and the script.
RunsOnItsRevision ==
    [][\A c \in Calls :
          pc[c] = "sent" /\ ran'[c] # ran[c] /\ req[c].revision # None
          => before[c] = req[c].revision /\ \A e \in scene \ before[c] : Stray(e)]_vars

\* The delta of a completed receipt has every edit of its call, and of other
\* edits only stray ones.
DeltaIsOwn ==
    \A c \in DOMAIN result :
        LET r == result[c] IN
        r.status = "completed" =>
            /\ {e \in scene : e[1] = r.by} \subseteq r.delta
            /\ \A e \in r.delta : e[1] = r.by \/ Stray(e)

\* A call is refused for an output written under its own key only while the
\* call that wrote it is at work, or when that call was cancelled.
RefusedForOthersOutput ==
    [][\A c \in Calls :
          pc[c] = "idle" /\ pc'[c] = "refused" =>
              \E f \in DOMAIN files :
                  \/ KeyOf[files[f]] # KeyOf[c]
                  \/ pc[files[f]] \in {"sent", "after", "cancelled"}]_vars

\* The gateway makes its scene a serial document: each batch a single step, at
\* the moment its call ends, its completed receipt the difference it made and
\* an unknown one no word about it.
Disturbed == Faults \cap {"cancel", "loss", "external"} # {}
Committed == IF lock \in Calls /\ pc[lock] \in {"sent", "after"} THEN before[lock] ELSE scene
Saying(status) == {c \in Calls : pc[c] = "returned" /\ result[c].status = status}
Added(old, new) == new \ old
Document == INSTANCE SerialDocument WITH
    Batches <- Calls, Visits <- {}, Readers <- {}, Start <- {}, Saved <- {}, Delta <- Added,
    document <- Committed,
    evidence <- [c \in Saying("completed") |->
                    [revision |-> req[c].revision, changes |-> result[c].delta]],
    silent <- Saying("unknown") \cup {c \in Calls : pc[c] = "cancelled"},
    current <- None, told <- Empty, exported <- None
ImplementsSerialDocument == Document!Spec

\* Every coroutine that starts ends: the lock is left on every path.
EveryTaskEnds == \A t \in Tasks : pc[t] # "idle" ~> pc[t] \in Ended
=============================================================================
