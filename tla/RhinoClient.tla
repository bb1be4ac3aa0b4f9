----------------------------- MODULE RhinoClient -----------------------------
(***************************************************************************)
(* The legacy Rhino client, rhino.py: Python transactions run by a Rhino   *)
(* MCP bridge.  Rhino keeps the receipt of a transaction as a string of    *)
(* the document, in the same script that runs the transaction; the client  *)
(* looks a key up there before it executes, and again when the answer is   *)
(* lost.  A process-local table of futures joins concurrent callers of a   *)
(* key, a table of receipts answers later ones, and one lock serialises    *)
(* what this process sends.                                                *)
(*                                                                         *)
(* External, modelled from how the client uses it: Rhino runs the scripts  *)
(* that reached it one at a time on its UI thread, so a read is answered   *)
(* only after every script that arrived before it has run.  A script whose *)
(* caller has gone still runs.                                             *)
(***************************************************************************)
EXTENDS Naturals, FiniteSets

CONSTANTS
    Calls,       \* calls of execute_python
    Others,      \* calls of save_checkpoint, or of health, scene_index,
                 \* scene_query or document_revision, which only read
    Keys,        \* idempotency keys
    KeyOf,       \* the key of a call, None for a call without
    Payloads,    \* fingerprints of intent, script and expected change
    Forbidden,   \* payloads that the script policy or the syntax check refuses
    Attempts,    \* read_attempts
    Faults,      \* which of "cancel", "restart", "reopen", "error" happen
    MaxEnds,     \* bound on the restarts of the client and of Rhino together
    None

Tasks == Calls \cup Others
Keyless == {c \in Calls : KeyOf[c] = None}
Txs == Keys \cup Keyless

ASSUME ClientConstants ==
    /\ KeyOf \in [Calls -> Keys \cup {None}]
    /\ Forbidden \subseteq Payloads
    /\ Attempts \in Nat \ {0} /\ MaxEnds \in Nat
    /\ None \notin Keys \cup Payloads \cup Tasks
    /\ Keys \cap Tasks = {}
    /\ Calls \cap Others = {}

\* A keyed transaction's id is a hash of its key, any other a fresh one.
Tx(c) == IF c \in Keyless THEN c ELSE KeyOf[c]

\* "failed": the wrapper asked for the rollback, or the client did; "open": the
\* script failed without an undo record and no rollback was requested yet.
Persisted == {"completed", "failed", "open"}
Receipt(p, s) == [payload |-> p, status |-> s]
Receipts(S) == [payload : Payloads, status : S]
Answers == Receipts(Persisted \cup {"unknown", "blocked", "validated", "raised"})

ASSUME NoneIsNoAnswer == None \notin Answers \cup {"read", "saved", "raised"}

VARIABLES
    pc, asked, answer,   \* of every task: where it is, its payload, its answer
    tries, lock,         \* failed attempts of a read, the holder of _rhino_lock
    recent, inflight,    \* _recent_receipts; the owner of a key's future
    reply,               \* the receipt a task's response carried
    waiting,             \* tasks whose script reached Rhino and has not run
    doc, saved,          \* the document and its last checkpoint
    blind,               \* transactions sent after an unanswered look-up
    lost,                \* transactions whose receipt a reopening took away
    ends                 \* how often the client or Rhino was restarted

client == <<pc, asked, answer, tries, lock, recent, inflight, reply>>
rhino == <<waiting, doc, saved, lost>>
vars == <<client, rhino, blind, ends>>

Empty == [rcpt |-> [t \in Txs |-> None], ran |-> [t \in Txs |-> 0]]

Init ==
    /\ pc = [t \in Tasks |-> "idle"]
    /\ asked = [c \in Calls |-> None]
    /\ answer = [t \in Tasks |-> None]
    /\ tries = 0 /\ lock = None
    /\ recent = [k \in Keys |-> None]
    /\ inflight = [k \in Keys |-> None]
    /\ reply = [t \in Tasks |-> None]
    /\ waiting = {} /\ doc = Empty /\ saved = Empty
    /\ blind = {} /\ lost = {}
    /\ ends = 0

(***************************************************************************)
(* Ends of a call.  What an owner returns or raises settles the calls that *)
(* await its future.                                                       *)
(***************************************************************************)
\* Plausible bug: the payload of a stored receipt is not compared.
Told_Unchecked(p, r) == r

\* A receipt as told to a caller of its key: its own payload's or a conflict.
Told(p, r) == IF r.payload = p THEN r ELSE Receipt(p, "blocked")

Joined(c) == {d \in Calls : pc[d] = "waiting" /\ inflight[KeyOf[d]] = c}
Release(c) == lock' = IF lock = c THEN None ELSE lock
\* Plausible bug: the owner's future stays in the table.
Forget_Never(c) == UNCHANGED inflight

Forget(c) == inflight' = [k \in Keys |-> IF inflight[k] = c THEN None ELSE inflight[k]]
Remember(c, r) ==
    recent' = IF c \in Keyless THEN recent ELSE [recent EXCEPT ![KeyOf[c]] = r]

Return(c, r) ==
    /\ pc' = [t \in Tasks |-> IF t \in Joined(c) \cup {c} THEN "done" ELSE pc[t]]
    /\ answer' = [t \in Tasks |-> IF t = c THEN r
                                  ELSE IF t \in Joined(c) THEN Told(asked[t], r)
                                  ELSE answer[t]]
    /\ Forget(c)

\* The response is a local of the call.
Drop(c) == reply' = [reply EXCEPT ![c] = None]

Raised(t) == IF t \in Calls THEN Receipt(asked[t], "raised") ELSE "raised"

\* Plausible bug: an exception leaves the future unresolved.
Raise_LeavesJoined(c) ==
    /\ pc' = [pc EXCEPT ![c] = "done"] /\ answer' = [answer EXCEPT ![c] = Raised(c)]
    /\ Forget(c)

\* An exception, a cancellation included, goes to the callers that joined.
Raise(c) ==
    /\ pc' = [t \in Tasks |-> IF t \in Joined(c) \cup {c} THEN "done" ELSE pc[t]]
    /\ answer' = [t \in Tasks |-> IF t \in Joined(c) \cup {c} THEN Raised(t)
                                                             ELSE answer[t]]
    /\ Forget(c)

(***************************************************************************)
(* execute_python up to its first await.                                   *)
(***************************************************************************)
Cached(c) == c \notin Keyless /\ recent[KeyOf[c]] # None
\* Plausible bug: only settled receipts are looked for, not running calls.
Owned_Never(c) == FALSE

Owned(c) == c \notin Keyless /\ ~Cached(c) /\ inflight[KeyOf[c]] # None
Ask(c, p) == pc[c] = "idle" /\ asked' = [asked EXCEPT ![c] = p]

AnswerAtOnce(c, r) ==
    /\ pc' = [pc EXCEPT ![c] = "done"]
    /\ answer' = [answer EXCEPT ![c] = r]
    /\ UNCHANGED <<tries, lock, recent, inflight, reply, rhino, blind, ends>>

Replay(c, p) == Ask(c, p) /\ Cached(c) /\ AnswerAtOnce(c, Told(p, recent[KeyOf[c]]))

Join(c, p) ==
    /\ Ask(c, p) /\ Owned(c)
    /\ pc' = [pc EXCEPT ![c] = "waiting"]
    /\ UNCHANGED <<answer, tries, lock, recent, inflight, reply, rhino, blind, ends>>

Refuse(c, p) ==
    /\ Ask(c, p) /\ ~Cached(c) /\ ~Owned(c) /\ p \in Forbidden
    /\ AnswerAtOnce(c, Receipt(p, "blocked"))

\* The call has dry_run.
Validate(c, p) ==
    /\ Ask(c, p) /\ ~Cached(c) /\ ~Owned(c) /\ p \notin Forbidden
    /\ AnswerAtOnce(c, Receipt(p, "validated"))

Own(c, p) ==
    /\ Ask(c, p) /\ ~Cached(c) /\ ~Owned(c) /\ p \notin Forbidden
    /\ IF c \in Keyless
       THEN pc' = [pc EXCEPT ![c] = "send"] /\ UNCHANGED inflight
       ELSE /\ pc' = [pc EXCEPT ![c] = "lookup"]
            /\ inflight' = [inflight EXCEPT ![KeyOf[c]] = c]
    /\ UNCHANGED <<answer, tries, lock, recent, reply, rhino, blind, ends>>

BeginOther(t) ==
    /\ t \in Others /\ pc[t] = "idle"
    /\ \E at \in {"read", "send"} : pc' = [pc EXCEPT ![t] = at]
    /\ UNCHANGED <<asked, answer, tries, lock, recent, inflight, reply, rhino, blind, ends>>

(***************************************************************************)
(* _read_sequence: a read under the lock, retried there.                   *)
(***************************************************************************)
Take(t) ==
    /\ pc[t] \in {"lookup", "relook", "read", "undo"} /\ lock = None
    /\ lock' = t /\ tries' = 0
    /\ UNCHANGED <<pc, asked, answer, recent, inflight, reply, rhino, blind, ends>>

Answered(t, at) == lock = t /\ pc[t] = at /\ waiting = {} /\ lock' = None

\* One attempt fails and another is left.
Retry(t) ==
    /\ lock = t /\ pc[t] \in {"lookup", "relook", "read"} /\ tries + 1 < Attempts
    /\ tries' = tries + 1
    /\ UNCHANGED <<pc, asked, answer, lock, recent, inflight, reply, rhino, blind, ends>>

\* The last attempt fails.
Unanswered(t, at) ==
    lock = t /\ pc[t] = at /\ tries + 1 = Attempts /\ lock' = None

ReadEnds(t) ==
    /\ \/ Answered(t, "read") /\ answer' = [answer EXCEPT ![t] = "read"]
       \/ Unanswered(t, "read") /\ answer' = [answer EXCEPT ![t] = "raised"]
    /\ pc' = [pc EXCEPT ![t] = "done"]
    /\ UNCHANGED <<asked, tries, recent, inflight, reply, rhino, blind, ends>>

(***************************************************************************)
(* _execute_python_once: the look-up before the transaction.               *)
(***************************************************************************)
LookupFinds(c) ==
    /\ Answered(c, "lookup") /\ doc.rcpt[Tx(c)] # None
    /\ LET r == doc.rcpt[Tx(c)] IN
       /\ Return(c, Told(asked[c], r))
       /\ IF r.payload = asked[c] THEN Remember(c, r) ELSE UNCHANGED recent
    /\ UNCHANGED <<asked, tries, reply, rhino, blind, ends>>

LookupFindsNothing(c) ==
    /\ Answered(c, "lookup") /\ doc.rcpt[Tx(c)] = None
    /\ pc' = [pc EXCEPT ![c] = "send"]
    /\ UNCHANGED <<asked, answer, tries, recent, inflight, reply, rhino, blind, ends>>

\* _recover_receipt answers None for no answer as for no receipt.
LookupUnanswered(c) ==
    /\ Unanswered(c, "lookup")
    /\ pc' = [pc EXCEPT ![c] = "send"]
    /\ blind' = blind \cup {Tx(c)}
    /\ UNCHANGED <<asked, answer, tries, recent, inflight, reply, rhino, ends>>

(***************************************************************************)
(* The transaction itself, or save_doc: one call, never repeated.          *)
(***************************************************************************)
\* Plausible bug: save_checkpoint does not take the lock.
Send_SaveUnlocked(t) ==
    /\ pc[t] = "send"
    /\ IF t \in Others THEN UNCHANGED lock ELSE lock = None /\ lock' = t
    /\ pc' = [pc EXCEPT ![t] = "sent"]
    /\ waiting' \in {waiting, waiting \cup {t}}
    /\ UNCHANGED <<asked, answer, tries, recent, inflight, reply, doc, saved, blind, lost, ends>>

Send(t) ==
    /\ pc[t] = "send" /\ lock = None /\ lock' = t
    /\ pc' = [pc EXCEPT ![t] = "sent"]
    /\ waiting' \in {waiting, waiting \cup {t}}
    /\ UNCHANGED <<asked, answer, tries, recent, inflight, reply, doc, saved, blind, lost, ends>>

\* The wrapper runs the script, undoes it when it fails, stores its receipt in
\* the document and prints it.
Outcomes == IF "error" \in Faults THEN Persisted ELSE {"completed"}

RunScript(c, o) ==
    /\ c \in waiting \cap Calls
    /\ waiting' = waiting \ {c}
    /\ doc' = [rcpt |-> [doc.rcpt EXCEPT ![Tx(c)] = Receipt(asked[c], o)],
               ran |-> [doc.ran EXCEPT ![Tx(c)] = @ + 1]]
    /\ reply' = IF pc[c] = "sent" THEN [reply EXCEPT ![c] = Receipt(asked[c], o)] ELSE reply
    /\ UNCHANGED <<pc, asked, answer, tries, lock, recent, inflight, saved, blind, lost, ends>>

SaveDoc(t) ==
    /\ t \in waiting \cap Others
    /\ waiting' = waiting \ {t}
    /\ saved' = doc
    /\ reply' = IF pc[t] = "sent" THEN [reply EXCEPT ![t] = "saved"] ELSE reply
    /\ UNCHANGED <<pc, asked, answer, tries, lock, recent, inflight, doc, blind, lost, ends>>

\* A failure that requested no rollback is undone by a command of its own.
Finish(c, r) ==
    IF r.status = "open"
    THEN /\ pc' = [pc EXCEPT ![c] = "undo"]
         /\ reply' = [reply EXCEPT ![c] = r]
         /\ UNCHANGED <<answer, recent, inflight>>
    ELSE Return(c, r) /\ Remember(c, r) /\ Drop(c)

ReceiveReceipt(c) ==
    /\ c \in Calls /\ pc[c] = "sent" /\ reply[c] # None
    /\ Release(c) /\ Finish(c, reply[c])
    /\ UNCHANGED <<asked, tries, rhino, blind, ends>>

\* The call raises, or its answer holds no receipt: look it up.
LoseAnswer(c) ==
    /\ c \in Calls /\ pc[c] = "sent" /\ Release(c) /\ Drop(c)
    /\ pc' = [pc EXCEPT ![c] = "relook"]
    /\ UNCHANGED <<asked, answer, tries, recent, inflight, rhino, blind, ends>>

RelookFinds(c) ==
    /\ Answered(c, "relook") /\ doc.rcpt[Tx(c)] # None
    /\ Finish(c, doc.rcpt[Tx(c)])
    /\ UNCHANGED <<asked, tries, rhino, blind, ends>>

\* "unknown" is stored and told, by no receipt as by no answer.
RelookFindsNothing(c) ==
    /\ \/ Answered(c, "relook") /\ doc.rcpt[Tx(c)] = None
       \/ Unanswered(c, "relook")
    /\ Return(c, Receipt(asked[c], "unknown"))
    /\ Remember(c, Receipt(asked[c], "unknown"))
    /\ UNCHANGED <<asked, tries, reply, rhino, blind, ends>>

\* _Undo, and the object count compared with the one before the transaction.
Undo(c) ==
    /\ Answered(c, "undo")
    /\ LET r == [reply[c] EXCEPT !.status = "failed"] IN Return(c, r) /\ Remember(c, r)
    /\ Drop(c)
    /\ UNCHANGED <<asked, tries, rhino, blind, ends>>

\* An exception of the rollback leaves execute_python: nothing is stored.
UndoRaises(c) ==
    /\ lock = c /\ pc[c] = "undo" /\ Release(c) /\ Raise(c) /\ Drop(c)
    /\ UNCHANGED <<asked, tries, recent, rhino, blind, ends>>

SaveEnds(t) ==
    /\ t \in Others /\ pc[t] = "sent" /\ Release(t) /\ Drop(t)
    /\ \/ reply[t] = "saved" /\ answer' = [answer EXCEPT ![t] = "saved"]
       \/ answer' = [answer EXCEPT ![t] = "raised"]
    /\ pc' = [pc EXCEPT ![t] = "done"]
    /\ UNCHANGED <<asked, tries, recent, inflight, rhino, blind, ends>>

(***************************************************************************)
(* Faults.                                                                 *)
(***************************************************************************)
\* A cancelled call leaves its lock and its future, not what reached Rhino.
Cancel(t) ==
    /\ "cancel" \in Faults /\ pc[t] \notin {"idle", "done"}
    /\ Release(t) /\ Raise(t) /\ Drop(t)
    /\ UNCHANGED <<asked, tries, recent, rhino, blind, ends>>

\* The process of the client ends and a new one starts.
Restart ==
    /\ "restart" \in Faults /\ ends < MaxEnds /\ ends' = ends + 1
    /\ pc' = [t \in Tasks |-> IF pc[t] = "idle" THEN "idle" ELSE "done"]
    /\ answer' = [t \in Tasks |-> IF pc[t] \in {"idle", "done"} THEN answer[t] ELSE Raised(t)]
    /\ lock' = None
    /\ recent' = [k \in Keys |-> None] /\ inflight' = [k \in Keys |-> None]
    /\ reply' = [t \in Tasks |-> None]
    /\ UNCHANGED <<asked, tries, rhino, blind>>

\* Rhino ends and opens its last checkpoint again.
Reopen ==
    /\ "reopen" \in Faults /\ ends < MaxEnds /\ ends' = ends + 1
    /\ doc' = saved /\ waiting' = {}
    /\ lost' = lost \cup {t \in Txs : doc.rcpt[t] # saved.rcpt[t]}
    /\ UNCHANGED <<client, saved, blind>>

Finished == \A t \in Tasks : pc[t] = "done"
Stop == Finished /\ UNCHANGED vars

ExecuteStep(c) ==
    \/ \E p \in Payloads : Replay(c, p) \/ Join(c, p) \/ Refuse(c, p) \/ Validate(c, p) \/ Own(c, p)
    \/ LookupFinds(c) \/ LookupFindsNothing(c) \/ LookupUnanswered(c)
    \/ ReceiveReceipt(c) \/ LoseAnswer(c) \/ RelookFinds(c) \/ RelookFindsNothing(c)
    \/ Undo(c) \/ UndoRaises(c)

TaskStep(t) == Take(t) \/ Retry(t) \/ Send(t) \/ BeginOther(t) \/ ReadEnds(t) \/ SaveEnds(t)

Next ==
    \/ \E c \in Calls : ExecuteStep(c) \/ \E o \in Outcomes : RunScript(c, o)
    \/ \E t \in Tasks : TaskStep(t) \/ SaveDoc(t) \/ Cancel(t)
    \/ Restart \/ Reopen \/ Stop

\* asyncio runs a task that can run; every await of the client has a timeout,
\* so a call that waits for Rhino goes on, with an answer or with an exception.
Fairness ==
    /\ \A c \in Calls : WF_vars(ExecuteStep(c))
    /\ \A t \in Tasks : WF_vars(TaskStep(t))

Spec == Init /\ [][Next]_vars /\ Fairness

(***************************************************************************)
(* Properties.                                                             *)
(***************************************************************************)
Docs == [rcpt : [Txs -> Receipts(Persisted) \cup {None}], ran : [Txs -> Nat]]

\* Every variable keeps its type; the lock is held by a task that uses Rhino,
\* a future belongs to a call of its key that has not ended.
TypeOK ==
    /\ pc \in [Tasks -> {"idle", "waiting", "lookup", "send", "sent", "relook",
                         "undo", "read", "done"}]
    /\ asked \in [Calls -> Payloads \cup {None}]
    /\ \A c \in Calls : answer[c] \in Answers \cup {None}
    /\ \A t \in Others : answer[t] \in {None, "read", "saved", "raised"}
    /\ DOMAIN answer = Tasks /\ DOMAIN reply = Tasks
    /\ tries \in 0 .. Attempts - 1
    /\ lock # None => lock \in Tasks /\ pc[lock] \notin {"idle", "waiting", "send", "done"}
    /\ recent \in [Keys -> Receipts(Persisted \cup {"unknown"}) \cup {None}]
    /\ inflight \in [Keys -> Calls \cup {None}]
    /\ \A k \in Keys : inflight[k] # None =>
          /\ KeyOf[inflight[k]] = k
          /\ pc[inflight[k]] \notin {"idle", "waiting", "done"}
    /\ \A c \in Calls : reply[c] \in Receipts(Persisted) \cup {None}
    /\ \A t \in Others : reply[t] \in {None, "saved"}
    /\ waiting \subseteq Tasks
    /\ doc \in Docs /\ saved \in Docs
    /\ blind \subseteq Txs /\ lost \subseteq Txs
    /\ ends \in 0 .. MaxEnds

\* A transaction is in the document twice only if one of its callers went on
\* after a look-up nobody answered: not by concurrent callers, lost answers,
\* cancelled calls whose script still waits, restarts or a raised rollback.
RunsAgainOnlyBlind == \A t \in Txs : doc.ran[t] > 1 => t \in blind

\* A receipt is the one the document holds, its rollback by command aside.
Matches(r, d) ==
    /\ d # None /\ r.payload = d.payload
    /\ r.status = d.status \/ (d.status = "open" /\ r.status = "failed")

\* What callers were told of a transaction and what is cached for its key is
\* of their own payload and in the document, so callers agree across restarts,
\* unless Rhino opened an older document or a look-up was not answered.
ReceiptsAreTheDocuments ==
    \A t \in Txs \ (blind \cup lost) :
        /\ \A c \in Calls : Tx(c) = t /\ answer[c] # None /\ answer[c].status \in Persisted =>
                Matches(answer[c], doc.rcpt[t]) /\ answer[c].payload = asked[c]
        /\ t \in Keys /\ recent[t] # None /\ recent[t].status \in Persisted =>
                Matches(recent[t], doc.rcpt[t])

\* When a checkpoint is acknowledged it holds every transaction whose receipt
\* anybody was told by then: save_checkpoint keeps the lock while it waits.
CheckpointHasWhatWasTold ==
    [][\A s \in Others : answer'[s] = "saved" /\ answer[s] # "saved" =>
          \A c \in Calls : /\ Tx(c) \notin blind \cup lost
                           /\ answer[c] # None /\ answer[c].status \in Persisted
                           => saved.rcpt[Tx(c)] # None]_vars

\* Every call that began ends, by an answer or by an exception.
EveryCallEnds == \A t \in Tasks : pc[t] # "idle" ~> pc[t] = "done"
=============================================================================
