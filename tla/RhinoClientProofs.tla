-------------------------- MODULE RhinoClientProofs --------------------------
(***************************************************************************)
(* Proofs about the legacy Rhino client for any number of calls, keys,     *)
(* payloads, attempts and restarts.                                        *)
(*                                                                         *)
(* A transaction that was not sent blindly is sent once: the look-up saw   *)
(* no receipt and no waiting script, and until the call ends it owns the   *)
(* future of its key.  Once ended it is either in the document, where the  *)
(* next look-up finds it, or still waiting, and then no look-up is         *)
(* answered.                                                               *)
(***************************************************************************)
EXTENDS RhinoClient, TLAPS

KeyStates == {"lookup", "send", "sent", "relook", "undo"}
InCall == {"sent", "relook"}

\* Where a task is and what its other variables hold.
Places ==
    /\ \A t \in Tasks : pc[t] = "sent" => lock = t
    /\ \A t \in waiting : pc[t] \notin {"idle", "waiting", "lookup", "send", "read"}
    /\ \A c \in Calls : c \notin Keyless /\ pc[c] \in KeyStates => inflight[KeyOf[c]] = c
    /\ \A c \in Keyless : pc[c] \notin {"lookup", "waiting"}
    /\ \A t \in Tasks : answer[t] # None => pc[t] = "done"
    /\ \A t \in Tasks : reply[t] # None => pc[t] \in {"sent", "undo"}
    /\ \A c \in Calls : pc[c] # "idle" => asked[c] \in Payloads
    /\ \A c \in Calls : pc[c] = "undo" => reply[c] # None /\ reply[c].status = "open"
    /\ \A c \in Calls : pc[c] # "read"
    /\ \A t \in Others : pc[t] \in {"idle", "read", "send", "sent", "done"}

\* The document and its checkpoint.
Documents ==
    \A t \in Txs :
        /\ doc.rcpt[t] = None <=> doc.ran[t] = 0
        /\ saved.rcpt[t] = None <=> saved.ran[t] = 0
        /\ saved.ran[t] <= doc.ran[t]

Coming(c) == c \in waiting \/ pc[c] = "send"
Live(c) == c \in waiting \/ pc[c] \in {"send", "sent", "relook"}

\* A transaction on its way has not run, and is on its way once.
Once ==
    /\ \A c \in Calls : Coming(c) /\ Tx(c) \notin blind => doc.ran[Tx(c)] = 0
    /\ \A c, d \in Calls : Live(c) /\ Live(d) /\ Tx(c) = Tx(d) /\ Tx(c) \notin blind => c = d
    /\ \A c \in Keyless : pc[c] = "idle" => doc.ran[c] = 0

Firm(t) == t \in Txs \ (blind \cup lost)
TrueOf(c, r) == /\ Matches(r, doc.rcpt[Tx(c)]) /\ r.payload = asked[c]

\* What calls are about to return.
Honest ==
    /\ \A c \in Calls : Firm(Tx(c)) /\ reply[c] # None => TrueOf(c, reply[c])
    /\ \A c \in Calls : Firm(Tx(c)) /\ pc[c] \in InCall /\ doc.rcpt[Tx(c)] # None
          => doc.rcpt[Tx(c)].payload = asked[c]

ToldOf(t) ==
    \/ \E c \in Calls : Tx(c) = t /\ answer[c] # None /\ answer[c].status \in Persisted
    \/ t \in Keys /\ recent[t] # None /\ recent[t].status \in Persisted

\* A checkpoint whose answer is on its way holds what was told.
Kept == \A s \in Others : reply[s] = "saved" =>
          \A t \in Txs : Firm(t) /\ ToldOf(t) => saved.rcpt[t] # None

ClientInv ==
    /\ TypeOK /\ Places /\ Documents /\ Once /\ Honest /\ Kept
    /\ RunsAgainOnlyBlind /\ ReceiptsAreTheDocuments

----------------------------------------------------------------------------
(* The invariant holds at the start. *)

\* Initially nothing was asked, sent, told or stored.
LEMMA ClientInvInit == Init => ClientInv
<1> SUFFICES ASSUME Init PROVE ClientInv
  OBVIOUS
<1> USE ClientConstants, NoneIsNoAnswer DEF Init, Empty
<1>1. TypeOK
  BY DEF TypeOK, Docs, Tasks
<1>2. Places /\ Documents
  BY DEF Places, Documents, KeyStates, Tasks, Keyless, Txs
<1>3. Once
  BY DEF Once, Coming, Live, Tx, Txs, Keyless, Tasks
<1>4. Honest
  BY DEF Honest, Firm, InCall, Tasks
<1>5. Kept
  BY DEF Kept, Tasks
<1>6. RunsAgainOnlyBlind /\ ReceiptsAreTheDocuments
  BY DEF RunsAgainOnlyBlind, ReceiptsAreTheDocuments, Txs, Tasks
<1> QED BY <1>1, <1>2, <1>3, <1>4, <1>5, <1>6 DEF ClientInv

----------------------------------------------------------------------------
(* Every step keeps it: one lemma for each of its parts. *)

\* None is told apart from receipts, and an exception from them too.
LEMMA NoneIsNoReceipt == None \notin Receipts(Persisted)
  BY NoneIsNoAnswer DEF Answers, Receipts, Persisted

LEMMA RaisedIsNoReceipt == \A p \in Payloads \cup {None} : Receipt(p, "raised").status \notin Persisted
  BY DEF Receipt, Persisted

\* Receipts stay the document's in a step that leaves the document alone and
\* tells or stores only what the document holds.
LEMMA Truthful ==
  ASSUME ClientInv, doc' = doc, blind' = blind, lost' = lost,
         \A d \in Calls : answer[d] # None => asked'[d] = asked[d],
         \A d \in Calls :
            \/ answer'[d] = answer[d]
            \/ /\ answer'[d] # None
               /\ answer'[d].status \in Persisted /\ Firm(Tx(d)) =>
                    Matches(answer'[d], doc.rcpt[Tx(d)]) /\ answer'[d].payload = asked'[d],
         \A k \in Keys :
            \/ recent'[k] = recent[k] \/ recent'[k] = None
            \/ recent'[k].status \in Persisted /\ Firm(k) => Matches(recent'[k], doc.rcpt[k])
  PROVE  ReceiptsAreTheDocuments'
  BY DEF ClientInv, ReceiptsAreTheDocuments, Firm, Matches

\* An owner that returns what the document holds, or no receipt, tells the
\* callers that joined it nothing else.
LEMMA ReturnTells ==
  ASSUME ClientInv, NEW c \in Calls, NEW r \in Answers, Return(c, r),
         doc' = doc, blind' = blind, lost' = lost, asked' = asked,
         r.status \in Persisted /\ Firm(Tx(c)) => TrueOf(c, r),
         recent' = recent \/ Remember(c, r)
  PROVE  ReceiptsAreTheDocuments'
<1> USE ClientConstants, NoneIsNoAnswer DEF ClientInv
<1>1. ASSUME NEW d \in Joined(c)
      PROVE  /\ Tx(d) = Tx(c) /\ answer'[d] = Told(asked[d], r)
             /\ asked[d] \in Payloads
  BY <1>1 DEF Joined, Return, Places, TypeOK, Tx, Keyless, Tasks
<1>3. \A d \in Calls : answer'[d] = answer[d] \/ d = c \/ d \in Joined(c)
  BY DEF Return, Tasks
<1>4. answer'[c] = r
  BY DEF Return, Tasks
<1>5. ASSUME NEW d \in Joined(c)
      PROVE  /\ answer'[d] # None
             /\ answer'[d].status \in Persisted /\ Firm(Tx(d)) =>
                  Matches(answer'[d], doc.rcpt[Tx(d)]) /\ answer'[d].payload = asked'[d]
  <2>1. r.payload = asked[d] => answer'[d] = r
    BY <1>1, <1>5 DEF Told
  <2>2. r.payload # asked[d] => answer'[d] = Receipt(asked[d], "blocked")
    BY <1>1, <1>5 DEF Told
  <2>3. Receipt(asked[d], "blocked") \in Answers /\ Receipt(asked[d], "blocked").status \notin Persisted
    BY <1>1, <1>5 DEF Receipt, Answers, Receipts, Persisted
  <2>4. d \in Calls /\ Firm(Tx(d)) = Firm(Tx(c))
    BY <1>1, <1>5 DEF Joined
  <2> QED BY <1>1, <1>5, <2>1, <2>2, <2>3, <2>4 DEF TrueOf
<1>6. \A k \in Keys : recent'[k] = recent[k] \/ (k = Tx(c) /\ recent'[k] = r)
  BY DEF Remember, TypeOK, Tx, Keyless
<1> QED BY <1>3, <1>4, <1>5, <1>6, Truthful DEF TrueOf

\* While a call holds the lock no checkpoint is waiting to be acknowledged.
LEMMA LockedOut ==
  ASSUME ClientInv, lock \in Calls,
         \A s \in Others : reply'[s] = reply[s] \/ reply'[s] = None
  PROVE  Kept'
  BY ClientConstants, NoneIsNoAnswer DEF ClientInv, Places, Kept, TypeOK, Tasks

\* A step that tells nothing new leaves the checkpoints whole.
LEMMA NothingNew ==
  ASSUME ClientInv, saved' = saved, blind' = blind, lost' = lost,
         \A s \in Others : reply'[s] = reply[s] \/ reply'[s] = None,
         \A t \in Txs : ToldOf(t)' => ToldOf(t)
  PROVE  Kept'
  BY NoneIsNoAnswer DEF ClientInv, Kept, Firm

\* Types: _execute_python_once and its callers give every variable its type.
LEMMA TypeStep ==
  ASSUME ClientInv, [Next]_vars
  PROVE  TypeOK'
<1> USE ClientConstants, NoneIsNoAnswer DEF ClientInv, client, rhino, Tasks
<1>0. CASE UNCHANGED vars
  BY <1>0 DEF vars, TypeOK, Places, Answers, Receipts, Persisted, Docs, Tx, Txs, Keyless
<1>1. ASSUME NEW c \in Calls, NEW p \in Payloads, Replay(c, p) PROVE TypeOK'
  BY <1>1 DEF Replay, Ask, Cached, AnswerAtOnce, Told, Receipt, TypeOK, Places, Answers,
      Receipts, Persisted, Docs, Tx, Txs, Keyless
<1>2. ASSUME NEW c \in Calls, NEW p \in Payloads, Join(c, p) PROVE TypeOK'
  BY <1>2 DEF Join, Ask, Owned, Cached, TypeOK, Places, Answers, Receipts, Persisted,
      Docs, Tx, Txs, Keyless
<1>3. ASSUME NEW c \in Calls, NEW p \in Payloads, Refuse(c, p) PROVE TypeOK'
  BY <1>3 DEF Refuse, Ask, AnswerAtOnce, Receipt, TypeOK, Places, Answers, Receipts,
      Persisted, Docs, Tx, Txs, Keyless
<1>4. ASSUME NEW c \in Calls, NEW p \in Payloads, Validate(c, p) PROVE TypeOK'
  BY <1>4 DEF Validate, Ask, AnswerAtOnce, Receipt, TypeOK, Places, Answers, Receipts,
      Persisted, Docs, Tx, Txs, Keyless
<1>5. ASSUME NEW c \in Calls, NEW p \in Payloads, Own(c, p) PROVE TypeOK'
  BY <1>5 DEF Own, Ask, Owned, Cached, TypeOK, Places, Answers, Receipts, Persisted, Docs,
      Tx, Txs, Keyless
<1>6. ASSUME NEW c \in Calls, LookupFinds(c) PROVE TypeOK'
  BY <1>6 DEF LookupFinds, Answered, Return, Joined, Forget, Told, Remember, Receipt,
      TypeOK, Places, Answers, Receipts, Persisted, Docs, Tx, Txs, Keyless
<1>7. ASSUME NEW c \in Calls, LookupFindsNothing(c) PROVE TypeOK'
  BY <1>7 DEF LookupFindsNothing, Answered, TypeOK, Places, Answers, Receipts, Persisted,
      Docs, Tx, Txs, Keyless
<1>8. ASSUME NEW c \in Calls, LookupUnanswered(c) PROVE TypeOK'
  BY <1>8 DEF LookupUnanswered, Unanswered, TypeOK, Places, Answers, Receipts, Persisted,
      Docs, Tx, Txs, Keyless
<1>9. ASSUME NEW c \in Calls, ReceiveReceipt(c) PROVE TypeOK'
  <2>1. CASE reply[c].status = "open"
    BY <1>9, <2>1, SMTT(60) DEF ReceiveReceipt, Release, Finish, Return, Joined, Forget,
        Told, Remember, Drop, Receipt, TypeOK, Places, Answers, Receipts, Persisted, Docs,
        Tx, Txs, Keyless
  <2>2. CASE reply[c].status # "open"
    BY <1>9, <2>2, SMTT(60) DEF ReceiveReceipt, Release, Finish, Return, Joined, Forget,
        Told, Remember, Drop, Receipt, TypeOK, Places, Answers, Receipts, Persisted, Docs,
        Tx, Txs, Keyless
  <2> QED BY <2>1, <2>2
<1>10. ASSUME NEW c \in Calls, LoseAnswer(c) PROVE TypeOK'
  BY <1>10 DEF LoseAnswer, Release, Drop, TypeOK, Places, Answers, Receipts, Persisted,
      Docs, Tx, Txs, Keyless
<1>11. ASSUME NEW c \in Calls, RelookFinds(c) PROVE TypeOK'
  <2>1. CASE doc.rcpt[Tx(c)].status = "open"
    BY <1>11, <2>1, SMTT(60) DEF RelookFinds, Answered, Finish, Return, Joined, Forget,
        Told, Remember, Drop, Receipt, TypeOK, Places, Answers, Receipts, Persisted, Docs,
        Tx, Txs, Keyless
  <2>2. CASE doc.rcpt[Tx(c)].status # "open"
    BY <1>11, <2>2, SMTT(60) DEF RelookFinds, Answered, Finish, Return, Joined, Forget,
        Told, Remember, Drop, Receipt, TypeOK, Places, Answers, Receipts, Persisted, Docs,
        Tx, Txs, Keyless
  <2> QED BY <2>1, <2>2
<1>12. ASSUME NEW c \in Calls, RelookFindsNothing(c) PROVE TypeOK'
  BY <1>12 DEF RelookFindsNothing, Answered, Unanswered, Return, Joined, Forget, Told,
      Remember, Receipt, TypeOK, Places, Answers, Receipts, Persisted, Docs, Tx, Txs,
      Keyless
<1>13. ASSUME NEW c \in Calls, Undo(c) PROVE TypeOK'
  BY <1>13 DEF Undo, Answered, Return, Joined, Forget, Told, Remember, Drop, Receipt,
      TypeOK, Places, Answers, Receipts, Persisted, Docs, Tx, Txs, Keyless
<1>14. ASSUME NEW c \in Calls, UndoRaises(c) PROVE TypeOK'
  BY <1>14 DEF UndoRaises, Release, Raise, Raised, Joined, Forget, Drop, Receipt, TypeOK,
      Places, Answers, Receipts, Persisted, Docs, Tx, Txs, Keyless
<1>15. ASSUME NEW c \in Calls, NEW o \in Outcomes, RunScript(c, o) PROVE TypeOK'
  BY <1>15 DEF RunScript, Outcomes, Receipt, TypeOK, Places, Answers, Receipts, Persisted,
      Docs, Tx, Txs, Keyless
<1>16. ASSUME NEW t \in Tasks, Take(t) PROVE TypeOK'
  BY <1>16 DEF Take, TypeOK, Places, Answers, Receipts, Persisted, Docs, Tx, Txs, Keyless
<1>17. ASSUME NEW t \in Tasks, Retry(t) PROVE TypeOK'
  BY <1>17 DEF Retry, TypeOK, Places, Answers, Receipts, Persisted, Docs, Tx, Txs, Keyless
<1>18. ASSUME NEW t \in Tasks, Send(t) PROVE TypeOK'
  BY <1>18 DEF Send, TypeOK, Places, Answers, Receipts, Persisted, Docs, Tx, Txs, Keyless
<1>19. ASSUME NEW t \in Tasks, BeginOther(t) PROVE TypeOK'
  BY <1>19 DEF BeginOther, TypeOK, Places, Answers, Receipts, Persisted, Docs, Tx, Txs,
      Keyless
<1>20. ASSUME NEW t \in Tasks, ReadEnds(t) PROVE TypeOK'
  BY <1>20 DEF ReadEnds, Answered, Unanswered, TypeOK, Places, Answers, Receipts,
      Persisted, Docs, Tx, Txs, Keyless
<1>21. ASSUME NEW t \in Tasks, SaveEnds(t) PROVE TypeOK'
  BY <1>21 DEF SaveEnds, Release, Drop, TypeOK, Places, Answers, Receipts, Persisted,
      Docs, Tx, Txs, Keyless
<1>22. ASSUME NEW t \in Tasks, SaveDoc(t) PROVE TypeOK'
  BY <1>22 DEF SaveDoc, TypeOK, Places, Answers, Receipts, Persisted, Docs, Tx, Txs, Keyless
<1>23. ASSUME NEW t \in Tasks, Cancel(t) PROVE TypeOK'
  BY <1>23 DEF Cancel, Release, Raise, Raised, Joined, Forget, Drop, Receipt, TypeOK,
      Places, Answers, Receipts, Persisted, Docs, Tx, Txs, Keyless
<1>24. ASSUME Restart PROVE TypeOK'
  BY <1>24 DEF Restart, Raised, Receipt, TypeOK, Places, Answers, Receipts, Persisted,
      Docs, Tx, Txs, Keyless
<1>25. ASSUME Reopen PROVE TypeOK'
  BY <1>25 DEF Reopen, TypeOK, Places, Answers, Receipts, Persisted, Docs, Tx, Txs, Keyless
<1> QED
  BY <1>0, <1>1, <1>2, <1>3, <1>4, <1>5, <1>6, <1>7, <1>8, <1>9, <1>10, <1>11, <1>12,
     <1>13, <1>14, <1>15, <1>16, <1>17, <1>18, <1>19, <1>20, <1>21, <1>22, <1>23, <1>24, <1>25 DEF
      Next, ExecuteStep, TaskStep, Stop

\* A task that sent holds the lock; an owner owns its future.
LEMMA PlacesStep ==
  ASSUME ClientInv, [Next]_vars
  PROVE  Places'
<1> USE ClientConstants, NoneIsNoAnswer DEF ClientInv, client, rhino, Tasks
<1>0. CASE UNCHANGED vars
  BY <1>0 DEF vars, TypeOK, Places, KeyStates, Keyless
<1>1. ASSUME NEW c \in Calls, NEW p \in Payloads, Replay(c, p) PROVE Places'
  BY <1>1 DEF Replay, Ask, Cached, AnswerAtOnce, Told, Receipt, TypeOK, Places, KeyStates,
      Keyless
<1>2. ASSUME NEW c \in Calls, NEW p \in Payloads, Join(c, p) PROVE Places'
  BY <1>2 DEF Join, Ask, Owned, Cached, TypeOK, Places, KeyStates, Keyless
<1>3. ASSUME NEW c \in Calls, NEW p \in Payloads, Refuse(c, p) PROVE Places'
  BY <1>3 DEF Refuse, Ask, AnswerAtOnce, Receipt, TypeOK, Places, KeyStates, Keyless
<1>4. ASSUME NEW c \in Calls, NEW p \in Payloads, Validate(c, p) PROVE Places'
  BY <1>4 DEF Validate, Ask, AnswerAtOnce, Receipt, TypeOK, Places, KeyStates, Keyless
<1>5. ASSUME NEW c \in Calls, NEW p \in Payloads, Own(c, p) PROVE Places'
  BY <1>5 DEF Own, Ask, Owned, Cached, TypeOK, Places, KeyStates, Keyless
<1>6. ASSUME NEW c \in Calls, LookupFinds(c) PROVE Places'
  BY <1>6 DEF LookupFinds, Answered, Return, Joined, Forget, Told, Remember, Receipt,
      TypeOK, Places, KeyStates, Keyless
<1>7. ASSUME NEW c \in Calls, LookupFindsNothing(c) PROVE Places'
  BY <1>7 DEF LookupFindsNothing, Answered, TypeOK, Places, KeyStates, Keyless
<1>8. ASSUME NEW c \in Calls, LookupUnanswered(c) PROVE Places'
  BY <1>8 DEF LookupUnanswered, Unanswered, TypeOK, Places, KeyStates, Keyless
<1>9. ASSUME NEW c \in Calls, ReceiveReceipt(c) PROVE Places'
  BY <1>9 DEF ReceiveReceipt, Release, Finish, Return, Joined, Forget, Told, Remember,
      Drop, Receipt, TypeOK, Places, KeyStates, Keyless
<1>10. ASSUME NEW c \in Calls, LoseAnswer(c) PROVE Places'
  BY <1>10 DEF LoseAnswer, Release, Drop, TypeOK, Places, KeyStates, Keyless
<1>11. ASSUME NEW c \in Calls, RelookFinds(c) PROVE Places'
  BY <1>11 DEF RelookFinds, Answered, Finish, Return, Joined, Forget, Told, Remember,
      Drop, Receipt, TypeOK, Places, KeyStates, Keyless
<1>12. ASSUME NEW c \in Calls, RelookFindsNothing(c) PROVE Places'
  BY <1>12 DEF RelookFindsNothing, Answered, Unanswered, Return, Joined, Forget, Told,
      Remember, Receipt, TypeOK, Places, KeyStates, Keyless
<1>13. ASSUME NEW c \in Calls, Undo(c) PROVE Places'
  BY <1>13 DEF Undo, Answered, Return, Joined, Forget, Told, Remember, Drop, Receipt,
      TypeOK, Places, KeyStates, Keyless
<1>14. ASSUME NEW c \in Calls, UndoRaises(c) PROVE Places'
  BY <1>14 DEF UndoRaises, Release, Raise, Raised, Joined, Forget, Drop, Receipt, TypeOK,
      Places, KeyStates, Keyless
<1>15. ASSUME NEW c \in Calls, NEW o \in Outcomes, RunScript(c, o) PROVE Places'
  BY <1>15 DEF RunScript, Outcomes, Receipt, TypeOK, Places, KeyStates, Keyless
<1>16. ASSUME NEW t \in Tasks, Take(t) PROVE Places'
  BY <1>16 DEF Take, TypeOK, Places, KeyStates, Keyless
<1>17. ASSUME NEW t \in Tasks, Retry(t) PROVE Places'
  BY <1>17 DEF Retry, TypeOK, Places, KeyStates, Keyless
<1>18. ASSUME NEW t \in Tasks, Send(t) PROVE Places'
  BY <1>18 DEF Send, TypeOK, Places, KeyStates, Keyless
<1>19. ASSUME NEW t \in Tasks, BeginOther(t) PROVE Places'
  BY <1>19 DEF BeginOther, TypeOK, Places, KeyStates, Keyless
<1>20. ASSUME NEW t \in Tasks, ReadEnds(t) PROVE Places'
  BY <1>20 DEF ReadEnds, Answered, Unanswered, TypeOK, Places, KeyStates, Keyless
<1>21. ASSUME NEW t \in Tasks, SaveEnds(t) PROVE Places'
  BY <1>21 DEF SaveEnds, Release, Drop, TypeOK, Places, KeyStates, Keyless
<1>22. ASSUME NEW t \in Tasks, SaveDoc(t) PROVE Places'
  BY <1>22 DEF SaveDoc, TypeOK, Places, KeyStates, Keyless
<1>23. ASSUME NEW t \in Tasks, Cancel(t) PROVE Places'
  BY <1>23 DEF Cancel, Release, Raise, Raised, Joined, Forget, Drop, Receipt, TypeOK,
      Places, KeyStates, Keyless
<1>24. ASSUME Restart PROVE Places'
  BY <1>24 DEF Restart, Raised, Receipt, TypeOK, Places, KeyStates, Keyless
<1>25. ASSUME Reopen PROVE Places'
  BY <1>25 DEF Reopen, TypeOK, Places, KeyStates, Keyless
<1> QED
  BY <1>0, <1>1, <1>2, <1>3, <1>4, <1>5, <1>6, <1>7, <1>8, <1>9, <1>10, <1>11, <1>12,
     <1>13, <1>14, <1>15, <1>16, <1>17, <1>18, <1>19, <1>20, <1>21, <1>22, <1>23, <1>24, <1>25 DEF
      Next, ExecuteStep, TaskStep, Stop

\* A receipt is in the document just when its transaction is; the checkpoint
\* is never ahead of the document.
LEMMA DocumentsStep ==
  ASSUME ClientInv, [Next]_vars
  PROVE  Documents'
<1> USE ClientConstants, NoneIsNoAnswer DEF ClientInv, client, rhino, Tasks
<1>0. CASE UNCHANGED vars
  BY <1>0 DEF vars, TypeOK, Places, Documents, Docs, Tx, Txs, Keyless, Receipts
<1>1. ASSUME NEW c \in Calls, NEW p \in Payloads, Replay(c, p) PROVE Documents'
  BY <1>1 DEF Replay, Ask, Cached, AnswerAtOnce, Told, Receipt, TypeOK, Places, Documents,
      Docs, Tx, Txs, Keyless, Receipts
<1>2. ASSUME NEW c \in Calls, NEW p \in Payloads, Join(c, p) PROVE Documents'
  BY <1>2 DEF Join, Ask, Owned, Cached, TypeOK, Places, Documents, Docs, Tx, Txs, Keyless,
      Receipts
<1>3. ASSUME NEW c \in Calls, NEW p \in Payloads, Refuse(c, p) PROVE Documents'
  BY <1>3 DEF Refuse, Ask, AnswerAtOnce, Receipt, TypeOK, Places, Documents, Docs, Tx,
      Txs, Keyless, Receipts
<1>4. ASSUME NEW c \in Calls, NEW p \in Payloads, Validate(c, p) PROVE Documents'
  BY <1>4 DEF Validate, Ask, AnswerAtOnce, Receipt, TypeOK, Places, Documents, Docs, Tx,
      Txs, Keyless, Receipts
<1>5. ASSUME NEW c \in Calls, NEW p \in Payloads, Own(c, p) PROVE Documents'
  BY <1>5 DEF Own, Ask, Owned, Cached, TypeOK, Places, Documents, Docs, Tx, Txs, Keyless,
      Receipts
<1>6. ASSUME NEW c \in Calls, LookupFinds(c) PROVE Documents'
  BY <1>6 DEF LookupFinds, Answered, Return, Joined, Forget, Told, Remember, Receipt,
      TypeOK, Places, Documents, Docs, Tx, Txs, Keyless, Receipts
<1>7. ASSUME NEW c \in Calls, LookupFindsNothing(c) PROVE Documents'
  BY <1>7 DEF LookupFindsNothing, Answered, TypeOK, Places, Documents, Docs, Tx, Txs,
      Keyless, Receipts
<1>8. ASSUME NEW c \in Calls, LookupUnanswered(c) PROVE Documents'
  BY <1>8 DEF LookupUnanswered, Unanswered, TypeOK, Places, Documents, Docs, Tx, Txs,
      Keyless, Receipts
<1>9. ASSUME NEW c \in Calls, ReceiveReceipt(c) PROVE Documents'
  BY <1>9 DEF ReceiveReceipt, Release, Finish, Return, Joined, Forget, Told, Remember,
      Drop, Receipt, TypeOK, Places, Documents, Docs, Tx, Txs, Keyless, Receipts
<1>10. ASSUME NEW c \in Calls, LoseAnswer(c) PROVE Documents'
  BY <1>10 DEF LoseAnswer, Release, Drop, TypeOK, Places, Documents, Docs, Tx, Txs,
      Keyless, Receipts
<1>11. ASSUME NEW c \in Calls, RelookFinds(c) PROVE Documents'
  BY <1>11 DEF RelookFinds, Answered, Finish, Return, Joined, Forget, Told, Remember,
      Drop, Receipt, TypeOK, Places, Documents, Docs, Tx, Txs, Keyless, Receipts
<1>12. ASSUME NEW c \in Calls, RelookFindsNothing(c) PROVE Documents'
  BY <1>12 DEF RelookFindsNothing, Answered, Unanswered, Return, Joined, Forget, Told,
      Remember, Receipt, TypeOK, Places, Documents, Docs, Tx, Txs, Keyless, Receipts
<1>13. ASSUME NEW c \in Calls, Undo(c) PROVE Documents'
  BY <1>13 DEF Undo, Answered, Return, Joined, Forget, Told, Remember, Drop, Receipt,
      TypeOK, Places, Documents, Docs, Tx, Txs, Keyless, Receipts
<1>14. ASSUME NEW c \in Calls, UndoRaises(c) PROVE Documents'
  BY <1>14 DEF UndoRaises, Release, Raise, Raised, Joined, Forget, Drop, Receipt, TypeOK,
      Places, Documents, Docs, Tx, Txs, Keyless, Receipts
<1>15. ASSUME NEW c \in Calls, NEW o \in Outcomes, RunScript(c, o) PROVE Documents'
  <2>1. Tx(c) \in Txs /\ o \in Persisted
    BY <1>15 DEF Outcomes, Tx, Txs, Keyless, Persisted
  <2>2. None \notin Receipts(Persisted)
    BY NoneIsNoReceipt
  <2>3. Receipt(asked[c], o) \in Receipts(Persisted)
    BY <1>15, <2>1 DEF RunScript, Receipt, Receipts, TypeOK, Places
  <2>4. /\ doc'.rcpt = [doc.rcpt EXCEPT ![Tx(c)] = Receipt(asked[c], o)]
        /\ doc'.ran = [doc.ran EXCEPT ![Tx(c)] = doc.ran[Tx(c)] + 1]
        /\ saved' = saved
    BY <1>15 DEF RunScript
  <2>5. doc.rcpt \in [Txs -> Receipts(Persisted) \cup {None}] /\ doc.ran \in [Txs -> Nat]
    BY DEF TypeOK, Docs
  <2>6. saved.ran \in [Txs -> Nat]
    BY DEF TypeOK, Docs
  <2> QED BY <2>1, <2>2, <2>3, <2>4, <2>5, <2>6 DEF Documents
<1>16. ASSUME NEW t \in Tasks, Take(t) PROVE Documents'
  BY <1>16 DEF Take, TypeOK, Places, Documents, Docs, Tx, Txs, Keyless, Receipts
<1>17. ASSUME NEW t \in Tasks, Retry(t) PROVE Documents'
  BY <1>17 DEF Retry, TypeOK, Places, Documents, Docs, Tx, Txs, Keyless, Receipts
<1>18. ASSUME NEW t \in Tasks, Send(t) PROVE Documents'
  BY <1>18 DEF Send, TypeOK, Places, Documents, Docs, Tx, Txs, Keyless, Receipts
<1>19. ASSUME NEW t \in Tasks, BeginOther(t) PROVE Documents'
  BY <1>19 DEF BeginOther, TypeOK, Places, Documents, Docs, Tx, Txs, Keyless, Receipts
<1>20. ASSUME NEW t \in Tasks, ReadEnds(t) PROVE Documents'
  BY <1>20 DEF ReadEnds, Answered, Unanswered, TypeOK, Places, Documents, Docs, Tx, Txs,
      Keyless, Receipts
<1>21. ASSUME NEW t \in Tasks, SaveEnds(t) PROVE Documents'
  BY <1>21 DEF SaveEnds, Release, Drop, TypeOK, Places, Documents, Docs, Tx, Txs, Keyless,
      Receipts
<1>22. ASSUME NEW t \in Tasks, SaveDoc(t) PROVE Documents'
  BY <1>22 DEF SaveDoc, TypeOK, Places, Documents, Docs, Tx, Txs, Keyless, Receipts
<1>23. ASSUME NEW t \in Tasks, Cancel(t) PROVE Documents'
  BY <1>23 DEF Cancel, Release, Raise, Raised, Joined, Forget, Drop, Receipt, TypeOK,
      Places, Documents, Docs, Tx, Txs, Keyless, Receipts
<1>24. ASSUME Restart PROVE Documents'
  BY <1>24 DEF Restart, Raised, Receipt, TypeOK, Places, Documents, Docs, Tx, Txs,
      Keyless, Receipts
<1>25. ASSUME Reopen PROVE Documents'
  BY <1>25 DEF Reopen, TypeOK, Places, Documents, Docs, Tx, Txs, Keyless, Receipts
<1> QED
  BY <1>0, <1>1, <1>2, <1>3, <1>4, <1>5, <1>6, <1>7, <1>8, <1>9, <1>10, <1>11, <1>12,
     <1>13, <1>14, <1>15, <1>16, <1>17, <1>18, <1>19, <1>20, <1>21, <1>22, <1>23, <1>24, <1>25 DEF
      Next, ExecuteStep, TaskStep, Stop

\* A transaction is on its way once, and has not run by then.
LEMMA OnceStep ==
  ASSUME ClientInv, [Next]_vars
  PROVE  Once'
<1> USE ClientConstants, NoneIsNoAnswer DEF ClientInv, client, rhino, Tasks
<1>0. CASE UNCHANGED vars
  BY <1>0 DEF vars, TypeOK, Places, Documents, Once, Coming, Live, KeyStates, Docs, Tx,
      Txs, Keyless
<1>1. ASSUME NEW c \in Calls, NEW p \in Payloads, Replay(c, p) PROVE Once'
  BY <1>1 DEF Replay, Ask, Cached, AnswerAtOnce, Told, Receipt, TypeOK, Places, Documents,
      Once, Coming, Live, KeyStates, Docs, Tx, Txs, Keyless
<1>2. ASSUME NEW c \in Calls, NEW p \in Payloads, Join(c, p) PROVE Once'
  BY <1>2 DEF Join, Ask, Owned, Cached, TypeOK, Places, Documents, Once, Coming, Live,
      KeyStates, Docs, Tx, Txs, Keyless
<1>3. ASSUME NEW c \in Calls, NEW p \in Payloads, Refuse(c, p) PROVE Once'
  BY <1>3 DEF Refuse, Ask, AnswerAtOnce, Receipt, TypeOK, Places, Documents, Once, Coming,
      Live, KeyStates, Docs, Tx, Txs, Keyless
<1>4. ASSUME NEW c \in Calls, NEW p \in Payloads, Validate(c, p) PROVE Once'
  BY <1>4 DEF Validate, Ask, AnswerAtOnce, Receipt, TypeOK, Places, Documents, Once,
      Coming, Live, KeyStates, Docs, Tx, Txs, Keyless
<1>5. ASSUME NEW c \in Calls, NEW p \in Payloads, Own(c, p) PROVE Once'
  BY <1>5 DEF Own, Ask, Owned, Cached, TypeOK, Places, Documents, Once, Coming, Live,
      KeyStates, Docs, Tx, Txs, Keyless
<1>6. ASSUME NEW c \in Calls, LookupFinds(c) PROVE Once'
  BY <1>6 DEF LookupFinds, Answered, Return, Joined, Forget, Told, Remember, Receipt,
      TypeOK, Places, Documents, Once, Coming, Live, KeyStates, Docs, Tx, Txs, Keyless
<1>7. ASSUME NEW c \in Calls, LookupFindsNothing(c) PROVE Once'
  BY <1>7 DEF LookupFindsNothing, Answered, TypeOK, Places, Documents, Once, Coming, Live,
      KeyStates, Docs, Tx, Txs, Keyless
<1>8. ASSUME NEW c \in Calls, LookupUnanswered(c) PROVE Once'
  BY <1>8 DEF LookupUnanswered, Unanswered, TypeOK, Places, Documents, Once, Coming, Live,
      KeyStates, Docs, Tx, Txs, Keyless
<1>9. ASSUME NEW c \in Calls, ReceiveReceipt(c) PROVE Once'
  BY <1>9 DEF ReceiveReceipt, Release, Finish, Return, Joined, Forget, Told, Remember,
      Drop, Receipt, TypeOK, Places, Documents, Once, Coming, Live, KeyStates, Docs, Tx,
      Txs, Keyless
<1>10. ASSUME NEW c \in Calls, LoseAnswer(c) PROVE Once'
  BY <1>10 DEF LoseAnswer, Release, Drop, TypeOK, Places, Documents, Once, Coming, Live,
      KeyStates, Docs, Tx, Txs, Keyless
<1>11. ASSUME NEW c \in Calls, RelookFinds(c) PROVE Once'
  BY <1>11 DEF RelookFinds, Answered, Finish, Return, Joined, Forget, Told, Remember,
      Drop, Receipt, TypeOK, Places, Documents, Once, Coming, Live, KeyStates, Docs, Tx,
      Txs, Keyless
<1>12. ASSUME NEW c \in Calls, RelookFindsNothing(c) PROVE Once'
  BY <1>12 DEF RelookFindsNothing, Answered, Unanswered, Return, Joined, Forget, Told,
      Remember, Receipt, TypeOK, Places, Documents, Once, Coming, Live, KeyStates, Docs,
      Tx, Txs, Keyless
<1>13. ASSUME NEW c \in Calls, Undo(c) PROVE Once'
  BY <1>13 DEF Undo, Answered, Return, Joined, Forget, Told, Remember, Drop, Receipt,
      TypeOK, Places, Documents, Once, Coming, Live, KeyStates, Docs, Tx, Txs, Keyless
<1>14. ASSUME NEW c \in Calls, UndoRaises(c) PROVE Once'
  BY <1>14 DEF UndoRaises, Release, Raise, Raised, Joined, Forget, Drop, Receipt, TypeOK,
      Places, Documents, Once, Coming, Live, KeyStates, Docs, Tx, Txs, Keyless
<1>15. ASSUME NEW c \in Calls, NEW o \in Outcomes, RunScript(c, o) PROVE Once'
  BY <1>15 DEF RunScript, Outcomes, Receipt, TypeOK, Places, Documents, Once, Coming,
      Live, KeyStates, Docs, Tx, Txs, Keyless
<1>16. ASSUME NEW t \in Tasks, Take(t) PROVE Once'
  BY <1>16 DEF Take, TypeOK, Places, Documents, Once, Coming, Live, KeyStates, Docs, Tx,
      Txs, Keyless
<1>17. ASSUME NEW t \in Tasks, Retry(t) PROVE Once'
  BY <1>17 DEF Retry, TypeOK, Places, Documents, Once, Coming, Live, KeyStates, Docs, Tx,
      Txs, Keyless
<1>18. ASSUME NEW t \in Tasks, Send(t) PROVE Once'
  BY <1>18 DEF Send, TypeOK, Places, Documents, Once, Coming, Live, KeyStates, Docs, Tx,
      Txs, Keyless
<1>19. ASSUME NEW t \in Tasks, BeginOther(t) PROVE Once'
  BY <1>19 DEF BeginOther, TypeOK, Places, Documents, Once, Coming, Live, KeyStates, Docs,
      Tx, Txs, Keyless
<1>20. ASSUME NEW t \in Tasks, ReadEnds(t) PROVE Once'
  BY <1>20 DEF ReadEnds, Answered, Unanswered, TypeOK, Places, Documents, Once, Coming,
      Live, KeyStates, Docs, Tx, Txs, Keyless
<1>21. ASSUME NEW t \in Tasks, SaveEnds(t) PROVE Once'
  BY <1>21 DEF SaveEnds, Release, Drop, TypeOK, Places, Documents, Once, Coming, Live,
      KeyStates, Docs, Tx, Txs, Keyless
<1>22. ASSUME NEW t \in Tasks, SaveDoc(t) PROVE Once'
  BY <1>22 DEF SaveDoc, TypeOK, Places, Documents, Once, Coming, Live, KeyStates, Docs,
      Tx, Txs, Keyless
<1>23. ASSUME NEW t \in Tasks, Cancel(t) PROVE Once'
  BY <1>23 DEF Cancel, Release, Raise, Raised, Joined, Forget, Drop, Receipt, TypeOK,
      Places, Documents, Once, Coming, Live, KeyStates, Docs, Tx, Txs, Keyless
<1>24. ASSUME Restart PROVE Once'
  BY <1>24 DEF Restart, Raised, Receipt, TypeOK, Places, Documents, Once, Coming, Live,
      KeyStates, Docs, Tx, Txs, Keyless
<1>25. ASSUME Reopen PROVE Once'
  BY <1>25 DEF Reopen, TypeOK, Places, Documents, Once, Coming, Live, KeyStates, Docs, Tx,
      Txs, Keyless
<1> QED
  BY <1>0, <1>1, <1>2, <1>3, <1>4, <1>5, <1>6, <1>7, <1>8, <1>9, <1>10, <1>11, <1>12,
     <1>13, <1>14, <1>15, <1>16, <1>17, <1>18, <1>19, <1>20, <1>21, <1>22, <1>23, <1>24, <1>25 DEF
      Next, ExecuteStep, TaskStep, Stop

\* What a call is about to return is what the document holds.
LEMMA HonestStep ==
  ASSUME ClientInv, [Next]_vars
  PROVE  Honest'
<1> USE ClientConstants, NoneIsNoAnswer DEF ClientInv, client, rhino, Tasks
<1>0. CASE UNCHANGED vars
  BY <1>0 DEF vars, TypeOK, Places, Documents, Once, Coming, Live, Honest, Firm, TrueOf,
      Matches, KeyStates, InCall, Docs, Tx, Txs, Keyless, Receipts
<1>1. ASSUME NEW c \in Calls, NEW p \in Payloads, Replay(c, p) PROVE Honest'
  BY <1>1 DEF Replay, Ask, Cached, AnswerAtOnce, Told, Receipt, TypeOK, Places, Documents,
      Once, Coming, Live, Honest, Firm, TrueOf, Matches, KeyStates, InCall, Docs, Tx, Txs,
      Keyless, Receipts
<1>2. ASSUME NEW c \in Calls, NEW p \in Payloads, Join(c, p) PROVE Honest'
  BY <1>2 DEF Join, Ask, Owned, Cached, TypeOK, Places, Documents, Once, Coming, Live,
      Honest, Firm, TrueOf, Matches, KeyStates, InCall, Docs, Tx, Txs, Keyless, Receipts
<1>3. ASSUME NEW c \in Calls, NEW p \in Payloads, Refuse(c, p) PROVE Honest'
  BY <1>3 DEF Refuse, Ask, AnswerAtOnce, Receipt, TypeOK, Places, Documents, Once, Coming,
      Live, Honest, Firm, TrueOf, Matches, KeyStates, InCall, Docs, Tx, Txs, Keyless,
      Receipts
<1>4. ASSUME NEW c \in Calls, NEW p \in Payloads, Validate(c, p) PROVE Honest'
  BY <1>4 DEF Validate, Ask, AnswerAtOnce, Receipt, TypeOK, Places, Documents, Once,
      Coming, Live, Honest, Firm, TrueOf, Matches, KeyStates, InCall, Docs, Tx, Txs,
      Keyless, Receipts
<1>5. ASSUME NEW c \in Calls, NEW p \in Payloads, Own(c, p) PROVE Honest'
  BY <1>5 DEF Own, Ask, Owned, Cached, TypeOK, Places, Documents, Once, Coming, Live,
      Honest, Firm, TrueOf, Matches, KeyStates, InCall, Docs, Tx, Txs, Keyless, Receipts
<1>6. ASSUME NEW c \in Calls, LookupFinds(c) PROVE Honest'
  BY <1>6 DEF LookupFinds, Answered, Return, Joined, Forget, Told, Remember, Receipt,
      TypeOK, Places, Documents, Once, Coming, Live, Honest, Firm, TrueOf, Matches,
      KeyStates, InCall, Docs, Tx, Txs, Keyless, Receipts
<1>7. ASSUME NEW c \in Calls, LookupFindsNothing(c) PROVE Honest'
  BY <1>7 DEF LookupFindsNothing, Answered, TypeOK, Places, Documents, Once, Coming, Live,
      Honest, Firm, TrueOf, Matches, KeyStates, InCall, Docs, Tx, Txs, Keyless, Receipts
<1>8. ASSUME NEW c \in Calls, LookupUnanswered(c) PROVE Honest'
  BY <1>8 DEF LookupUnanswered, Unanswered, TypeOK, Places, Documents, Once, Coming, Live,
      Honest, Firm, TrueOf, Matches, KeyStates, InCall, Docs, Tx, Txs, Keyless, Receipts
<1>9. ASSUME NEW c \in Calls, ReceiveReceipt(c) PROVE Honest'
  BY <1>9 DEF ReceiveReceipt, Release, Finish, Return, Joined, Forget, Told, Remember,
      Drop, Receipt, TypeOK, Places, Documents, Once, Coming, Live, Honest, Firm, TrueOf,
      Matches, KeyStates, InCall, Docs, Tx, Txs, Keyless, Receipts
<1>10. ASSUME NEW c \in Calls, LoseAnswer(c) PROVE Honest'
  BY <1>10 DEF LoseAnswer, Release, Drop, TypeOK, Places, Documents, Once, Coming, Live,
      Honest, Firm, TrueOf, Matches, KeyStates, InCall, Docs, Tx, Txs, Keyless, Receipts
<1>11. ASSUME NEW c \in Calls, RelookFinds(c) PROVE Honest'
  BY <1>11 DEF RelookFinds, Answered, Finish, Return, Joined, Forget, Told, Remember,
      Drop, Receipt, TypeOK, Places, Documents, Once, Coming, Live, Honest, Firm, TrueOf,
      Matches, KeyStates, InCall, Docs, Tx, Txs, Keyless, Receipts
<1>12. ASSUME NEW c \in Calls, RelookFindsNothing(c) PROVE Honest'
  BY <1>12 DEF RelookFindsNothing, Answered, Unanswered, Return, Joined, Forget, Told,
      Remember, Receipt, TypeOK, Places, Documents, Once, Coming, Live, Honest, Firm,
      TrueOf, Matches, KeyStates, InCall, Docs, Tx, Txs, Keyless, Receipts
<1>13. ASSUME NEW c \in Calls, Undo(c) PROVE Honest'
  BY <1>13 DEF Undo, Answered, Return, Joined, Forget, Told, Remember, Drop, Receipt,
      TypeOK, Places, Documents, Once, Coming, Live, Honest, Firm, TrueOf, Matches,
      KeyStates, InCall, Docs, Tx, Txs, Keyless, Receipts
<1>14. ASSUME NEW c \in Calls, UndoRaises(c) PROVE Honest'
  BY <1>14 DEF UndoRaises, Release, Raise, Raised, Joined, Forget, Drop, Receipt, TypeOK,
      Places, Documents, Once, Coming, Live, Honest, Firm, TrueOf, Matches, KeyStates,
      InCall, Docs, Tx, Txs, Keyless, Receipts
<1>15. ASSUME NEW c \in Calls, NEW o \in Outcomes, RunScript(c, o) PROVE Honest'
  BY <1>15 DEF RunScript, Outcomes, Receipt, TypeOK, Places, Documents, Once, Coming,
      Live, Honest, Firm, TrueOf, Matches, KeyStates, InCall, Docs, Tx, Txs, Keyless,
      Receipts
<1>16. ASSUME NEW t \in Tasks, Take(t) PROVE Honest'
  BY <1>16 DEF Take, TypeOK, Places, Documents, Once, Coming, Live, Honest, Firm, TrueOf,
      Matches, KeyStates, InCall, Docs, Tx, Txs, Keyless, Receipts
<1>17. ASSUME NEW t \in Tasks, Retry(t) PROVE Honest'
  BY <1>17 DEF Retry, TypeOK, Places, Documents, Once, Coming, Live, Honest, Firm, TrueOf,
      Matches, KeyStates, InCall, Docs, Tx, Txs, Keyless, Receipts
<1>18. ASSUME NEW t \in Tasks, Send(t) PROVE Honest'
  BY <1>18 DEF Send, TypeOK, Places, Documents, Once, Coming, Live, Honest, Firm, TrueOf,
      Matches, KeyStates, InCall, Docs, Tx, Txs, Keyless, Receipts
<1>19. ASSUME NEW t \in Tasks, BeginOther(t) PROVE Honest'
  BY <1>19 DEF BeginOther, TypeOK, Places, Documents, Once, Coming, Live, Honest, Firm,
      TrueOf, Matches, KeyStates, InCall, Docs, Tx, Txs, Keyless, Receipts
<1>20. ASSUME NEW t \in Tasks, ReadEnds(t) PROVE Honest'
  BY <1>20 DEF ReadEnds, Answered, Unanswered, TypeOK, Places, Documents, Once, Coming,
      Live, Honest, Firm, TrueOf, Matches, KeyStates, InCall, Docs, Tx, Txs, Keyless,
      Receipts
<1>21. ASSUME NEW t \in Tasks, SaveEnds(t) PROVE Honest'
  BY <1>21 DEF SaveEnds, Release, Drop, TypeOK, Places, Documents, Once, Coming, Live,
      Honest, Firm, TrueOf, Matches, KeyStates, InCall, Docs, Tx, Txs, Keyless, Receipts
<1>22. ASSUME NEW t \in Tasks, SaveDoc(t) PROVE Honest'
  BY <1>22 DEF SaveDoc, TypeOK, Places, Documents, Once, Coming, Live, Honest, Firm,
      TrueOf, Matches, KeyStates, InCall, Docs, Tx, Txs, Keyless, Receipts
<1>23. ASSUME NEW t \in Tasks, Cancel(t) PROVE Honest'
  BY <1>23 DEF Cancel, Release, Raise, Raised, Joined, Forget, Drop, Receipt, TypeOK,
      Places, Documents, Once, Coming, Live, Honest, Firm, TrueOf, Matches, KeyStates,
      InCall, Docs, Tx, Txs, Keyless, Receipts
<1>24. ASSUME Restart PROVE Honest'
  BY <1>24 DEF Restart, Raised, Receipt, TypeOK, Places, Documents, Once, Coming, Live,
      Honest, Firm, TrueOf, Matches, KeyStates, InCall, Docs, Tx, Txs, Keyless, Receipts
<1>25. ASSUME Reopen PROVE Honest'
  BY <1>25 DEF Reopen, TypeOK, Places, Documents, Once, Coming, Live, Honest, Firm,
      TrueOf, Matches, KeyStates, InCall, Docs, Tx, Txs, Keyless, Receipts
<1> QED
  BY <1>0, <1>1, <1>2, <1>3, <1>4, <1>5, <1>6, <1>7, <1>8, <1>9, <1>10, <1>11, <1>12,
     <1>13, <1>14, <1>15, <1>16, <1>17, <1>18, <1>19, <1>20, <1>21, <1>22, <1>23, <1>24, <1>25 DEF
      Next, ExecuteStep, TaskStep, Stop

\* A checkpoint about to be acknowledged holds what was told.
LEMMA KeptStep ==
  ASSUME ClientInv, [Next]_vars
  PROVE  Kept'
<1> USE ClientConstants, NoneIsNoAnswer DEF ClientInv, client, rhino, Tasks
<1>0. CASE UNCHANGED vars
  BY <1>0 DEF vars, TypeOK, Places, Kept, Firm, ToldOf
<1>1. ASSUME NEW c \in Calls, NEW p \in Payloads, Replay(c, p) PROVE Kept'
  <2>1. answer' = [answer EXCEPT ![c] = Told(p, recent[KeyOf[c]])]
    BY <1>1 DEF Replay, AnswerAtOnce
  <2>2. UNCHANGED <<recent, reply, saved, blind, lost>>
    BY <1>1 DEF Replay, AnswerAtOnce
  <2>3. ToldOf(Tx(c)) \/ Told(p, recent[KeyOf[c]]).status \notin Persisted
    BY <1>1 DEF Replay, Cached, ToldOf, Told, Receipt, Persisted, Tx, TypeOK, Keyless
  <2>4. \A d \in Calls : d # c => answer'[d] = answer[d]
    BY <2>1 DEF TypeOK
  <2>5. answer'[c] = Told(p, recent[KeyOf[c]])
    BY <2>1 DEF TypeOK
  <2>6. \A t \in Txs : ToldOf(t)' => ToldOf(t)
    BY <2>2, <2>3, <2>4, <2>5 DEF ToldOf
  <2> QED BY <2>2, <2>6, NothingNew
<1>2. ASSUME NEW c \in Calls, NEW p \in Payloads, Join(c, p) PROVE Kept'
  BY <1>2 DEF Join, Ask, Owned, Cached, TypeOK, Places, Kept, Firm, ToldOf
<1>3. ASSUME NEW c \in Calls, NEW p \in Payloads, Refuse(c, p) PROVE Kept'
  BY <1>3, NothingNew DEF ToldOf, TypeOK, Places, Persisted, Refuse, Ask, AnswerAtOnce,
      Receipt
<1>4. ASSUME NEW c \in Calls, NEW p \in Payloads, Validate(c, p) PROVE Kept'
  BY <1>4, NothingNew DEF ToldOf, TypeOK, Places, Persisted, Validate, Ask, AnswerAtOnce,
      Receipt
<1>5. ASSUME NEW c \in Calls, NEW p \in Payloads, Own(c, p) PROVE Kept'
  BY <1>5 DEF Own, Ask, Owned, Cached, TypeOK, Places, Kept, Firm, ToldOf
<1>6. ASSUME NEW c \in Calls, LookupFinds(c) PROVE Kept'
  <2>1. lock = c
    BY <1>6 DEF Places, Answered, Unanswered, LookupFinds
  <2>2. \A s \in Others : reply'[s] = reply[s] \/ reply'[s] = None
    BY <1>6 DEF TypeOK, Drop, Finish, LookupFinds
  <2> QED BY <2>1, <2>2, LockedOut
<1>7. ASSUME NEW c \in Calls, LookupFindsNothing(c) PROVE Kept'
  BY <1>7 DEF LookupFindsNothing, Answered, TypeOK, Places, Kept, Firm, ToldOf
<1>8. ASSUME NEW c \in Calls, LookupUnanswered(c) PROVE Kept'
  BY <1>8 DEF LookupUnanswered, Unanswered, TypeOK, Places, Kept, Firm, ToldOf
<1>9. ASSUME NEW c \in Calls, ReceiveReceipt(c) PROVE Kept'
  <2>1. lock = c
    BY <1>9 DEF Places, Answered, Unanswered, ReceiveReceipt
  <2>2. \A s \in Others : reply'[s] = reply[s] \/ reply'[s] = None
    BY <1>9 DEF TypeOK, Drop, Finish, ReceiveReceipt
  <2> QED BY <2>1, <2>2, LockedOut
<1>10. ASSUME NEW c \in Calls, LoseAnswer(c) PROVE Kept'
  BY <1>10 DEF LoseAnswer, Release, Drop, TypeOK, Places, Kept, Firm, ToldOf
<1>11. ASSUME NEW c \in Calls, RelookFinds(c) PROVE Kept'
  <2>1. lock = c
    BY <1>11 DEF Places, Answered, Unanswered, RelookFinds
  <2>2. \A s \in Others : reply'[s] = reply[s] \/ reply'[s] = None
    BY <1>11 DEF TypeOK, Drop, Finish, RelookFinds
  <2> QED BY <2>1, <2>2, LockedOut
<1>12. ASSUME NEW c \in Calls, RelookFindsNothing(c) PROVE Kept'
  <2>1. lock = c
    BY <1>12 DEF Places, Answered, Unanswered, RelookFindsNothing
  <2>2. \A s \in Others : reply'[s] = reply[s] \/ reply'[s] = None
    BY <1>12 DEF TypeOK, Drop, Finish, RelookFindsNothing
  <2> QED BY <2>1, <2>2, LockedOut
<1>13. ASSUME NEW c \in Calls, Undo(c) PROVE Kept'
  <2>1. lock = c
    BY <1>13 DEF Places, Answered, Unanswered, Undo
  <2>2. \A s \in Others : reply'[s] = reply[s] \/ reply'[s] = None
    BY <1>13 DEF TypeOK, Drop, Finish, Undo
  <2> QED BY <2>1, <2>2, LockedOut
<1>14. ASSUME NEW c \in Calls, UndoRaises(c) PROVE Kept'
  <2>1. lock = c
    BY <1>14 DEF Places, Answered, Unanswered, UndoRaises
  <2>2. \A s \in Others : reply'[s] = reply[s] \/ reply'[s] = None
    BY <1>14 DEF TypeOK, Drop, Finish, UndoRaises
  <2> QED BY <2>1, <2>2, LockedOut
<1>15. ASSUME NEW c \in Calls, NEW o \in Outcomes, RunScript(c, o) PROVE Kept'
  BY <1>15 DEF RunScript, Outcomes, Receipt, TypeOK, Places, Kept, Firm, ToldOf
<1>16. ASSUME NEW t \in Tasks, Take(t) PROVE Kept'
  BY <1>16 DEF Take, TypeOK, Places, Kept, Firm, ToldOf
<1>17. ASSUME NEW t \in Tasks, Retry(t) PROVE Kept'
  BY <1>17 DEF Retry, TypeOK, Places, Kept, Firm, ToldOf
<1>18. ASSUME NEW t \in Tasks, Send(t) PROVE Kept'
  BY <1>18 DEF Send, TypeOK, Places, Kept, Firm, ToldOf
<1>19. ASSUME NEW t \in Tasks, BeginOther(t) PROVE Kept'
  BY <1>19 DEF BeginOther, TypeOK, Places, Kept, Firm, ToldOf
<1>20. ASSUME NEW t \in Tasks, ReadEnds(t) PROVE Kept'
  BY <1>20 DEF ReadEnds, Answered, Unanswered, TypeOK, Places, Kept, Firm, ToldOf
<1>21. ASSUME NEW t \in Tasks, SaveEnds(t) PROVE Kept'
  BY <1>21 DEF SaveEnds, Release, Drop, TypeOK, Places, Kept, Firm, ToldOf
<1>22. ASSUME NEW t \in Tasks, SaveDoc(t) PROVE Kept'
  <2>1. \A x \in Txs : Firm(x) /\ ToldOf(x) => doc.rcpt[x] # None
    BY DEF ReceiptsAreTheDocuments, ToldOf, Firm, Matches
  <2>2. saved' = doc /\ UNCHANGED <<answer, recent, blind, lost>>
    BY <1>22 DEF SaveDoc
  <2> QED BY <2>1, <2>2 DEF Kept, ToldOf, Firm
<1>23. ASSUME NEW t \in Tasks, Cancel(t) PROVE Kept'
  BY <1>23, NothingNew DEF ToldOf, TypeOK, Places, Persisted, Cancel, Release, Raise,
      Raised, Joined, Forget, Drop, Receipt
<1>24. ASSUME Restart PROVE Kept'
  BY <1>24 DEF Restart, Raised, Receipt, TypeOK, Places, Kept, Firm, ToldOf
<1>25. ASSUME Reopen PROVE Kept'
  BY <1>25 DEF Reopen, TypeOK, Places, Kept, Firm, ToldOf
<1> QED
  BY <1>0, <1>1, <1>2, <1>3, <1>4, <1>5, <1>6, <1>7, <1>8, <1>9, <1>10, <1>11, <1>12,
     <1>13, <1>14, <1>15, <1>16, <1>17, <1>18, <1>19, <1>20, <1>21, <1>22, <1>23, <1>24, <1>25 DEF
      Next, ExecuteStep, TaskStep, Stop

\* What is told and cached stays what the document holds.
LEMMA ReceiptsStep ==
  ASSUME ClientInv, [Next]_vars
  PROVE  ReceiptsAreTheDocuments'
<1> USE ClientConstants, NoneIsNoAnswer DEF ClientInv, client, rhino, Tasks
<1>0. CASE UNCHANGED vars
  BY <1>0 DEF vars, TypeOK, Places, Documents, Once, Coming, Firm, Matches,
      ReceiptsAreTheDocuments, Docs, Tx, Txs, Keyless, Receipts
<1>1. ASSUME NEW c \in Calls, NEW p \in Payloads, Replay(c, p) PROVE ReceiptsAreTheDocuments'
  <2>1. answer' = [answer EXCEPT ![c] = Told(p, recent[KeyOf[c]])] /\ asked' = [asked EXCEPT ![c] = p]
    BY <1>1 DEF Replay, Ask, Cached, AnswerAtOnce, Told, Receipt
  <2>2. answer[c] = None
    BY <1>1 DEF Places, Ask, Replay
  <2>3. Told(p, recent[KeyOf[c]]) \in Answers
    BY <1>1 DEF Answers, Receipts, Persisted, TypeOK, Told, Receipt, Cached, Keyless, Replay
  <2>4. Told(p, recent[KeyOf[c]]).status \in Persisted /\ Firm(Tx(c)) =>
          Matches(Told(p, recent[KeyOf[c]]), doc.rcpt[Tx(c)]) /\ Told(p, recent[KeyOf[c]]).payload = p
    BY <1>1, <2>3 DEF Persisted, Told, Receipt, ReceiptsAreTheDocuments, TypeOK, Cached,
        Tx, Keyless, Firm, Replay
  <2>5. answer'[c] = Told(p, recent[KeyOf[c]]) /\ asked'[c] = p /\ Told(p, recent[KeyOf[c]]) # None
    BY <2>1, <2>3 DEF TypeOK
  <2>6. \A d \in Calls : d # c => answer'[d] = answer[d] /\ asked'[d] = asked[d]
    BY <2>1 DEF TypeOK
  <2>7. UNCHANGED <<doc, blind, lost, recent>>
    BY <1>1 DEF AnswerAtOnce, Replay
  <2> QED BY <2>2, <2>4, <2>5, <2>6, <2>7, Truthful
<1>2. ASSUME NEW c \in Calls, NEW p \in Payloads, Join(c, p) PROVE ReceiptsAreTheDocuments'
  BY <1>2, Truthful DEF Join, Ask, Owned, Cached, TypeOK, Places, Receipt, Persisted
<1>3. ASSUME NEW c \in Calls, NEW p \in Payloads, Refuse(c, p) PROVE ReceiptsAreTheDocuments'
  <2>1. answer' = [answer EXCEPT ![c] = Receipt(p, "blocked")] /\ asked' = [asked EXCEPT ![c] = p]
    BY <1>3 DEF Refuse, Ask, AnswerAtOnce, Receipt
  <2>2. answer[c] = None
    BY <1>3 DEF Places, Ask, Refuse
  <2>3. Receipt(p, "blocked") \in Answers
    BY <1>3 DEF Answers, Receipts, Persisted, TypeOK, Told, Receipt, Cached, Keyless, Refuse
  <2>4. Receipt(p, "blocked").status \in Persisted /\ Firm(Tx(c)) =>
          Matches(Receipt(p, "blocked"), doc.rcpt[Tx(c)]) /\ Receipt(p, "blocked").payload = p
    BY <1>3, <2>3 DEF Persisted, Told, Receipt, Refuse
  <2>5. answer'[c] = Receipt(p, "blocked") /\ asked'[c] = p /\ Receipt(p, "blocked") # None
    BY <2>1, <2>3 DEF TypeOK
  <2>6. \A d \in Calls : d # c => answer'[d] = answer[d] /\ asked'[d] = asked[d]
    BY <2>1 DEF TypeOK
  <2>7. UNCHANGED <<doc, blind, lost, recent>>
    BY <1>3 DEF AnswerAtOnce, Refuse
  <2> QED BY <2>2, <2>4, <2>5, <2>6, <2>7, Truthful
<1>4. ASSUME NEW c \in Calls, NEW p \in Payloads, Validate(c, p) PROVE ReceiptsAreTheDocuments'
  <2>1. answer' = [answer EXCEPT ![c] = Receipt(p, "validated")] /\ asked' = [asked EXCEPT ![c] = p]
    BY <1>4 DEF Validate, Ask, AnswerAtOnce, Receipt
  <2>2. answer[c] = None
    BY <1>4 DEF Places, Ask, Validate
  <2>3. Receipt(p, "validated") \in Answers
    BY <1>4 DEF Answers, Receipts, Persisted, TypeOK, Told, Receipt, Cached, Keyless,
        Validate
  <2>4. Receipt(p, "validated").status \in Persisted /\ Firm(Tx(c)) =>
          Matches(Receipt(p, "validated"), doc.rcpt[Tx(c)]) /\ Receipt(p, "validated").payload = p
    BY <1>4, <2>3 DEF Persisted, Told, Receipt, Validate
  <2>5. answer'[c] = Receipt(p, "validated") /\ asked'[c] = p /\ Receipt(p, "validated") # None
    BY <2>1, <2>3 DEF TypeOK
  <2>6. \A d \in Calls : d # c => answer'[d] = answer[d] /\ asked'[d] = asked[d]
    BY <2>1 DEF TypeOK
  <2>7. UNCHANGED <<doc, blind, lost, recent>>
    BY <1>4 DEF AnswerAtOnce, Validate
  <2> QED BY <2>2, <2>4, <2>5, <2>6, <2>7, Truthful
<1>5. ASSUME NEW c \in Calls, NEW p \in Payloads, Own(c, p) PROVE ReceiptsAreTheDocuments'
  BY <1>5, Truthful DEF Own, Ask, Owned, Cached, TypeOK, Places, Receipt, Persisted
<1>6. ASSUME NEW c \in Calls, LookupFinds(c) PROVE ReceiptsAreTheDocuments'
  <2>1. Told(asked[c], doc.rcpt[Tx(c)]) \in Answers
    BY <1>6 DEF TypeOK, Docs, Answers, Receipts, Persisted, Places, Txs, Tx, Keyless,
        Told, LookupFinds, Answered, Receipt
  <2>2. Told(asked[c], doc.rcpt[Tx(c)]).status \in Persisted /\ Firm(Tx(c)) => TrueOf(c, Told(asked[c], doc.rcpt[Tx(c)]))
    <3>1. CASE doc.rcpt[Tx(c)].payload = asked[c]
      BY <1>6, <3>1 DEF Matches, TrueOf, Told, LookupFinds
    <3>2. CASE doc.rcpt[Tx(c)].payload # asked[c]
      BY <3>2 DEF Told, Receipt, Persisted
    <3> QED BY <3>1, <3>2
  <2> QED BY <1>6, <2>1, <2>2, ReturnTells DEF Told, LookupFinds, Answered
<1>7. ASSUME NEW c \in Calls, LookupFindsNothing(c) PROVE ReceiptsAreTheDocuments'
  BY <1>7, Truthful DEF LookupFindsNothing, Answered, TypeOK, Places, Receipt, Persisted
<1>8. ASSUME NEW c \in Calls, LookupUnanswered(c) PROVE ReceiptsAreTheDocuments'
  BY <1>8 DEF LookupUnanswered, Unanswered, TypeOK, Places, Documents, Once, Coming, Firm,
      Matches, ReceiptsAreTheDocuments, Docs, Tx, Txs, Keyless, Receipts
<1>9. ASSUME NEW c \in Calls, ReceiveReceipt(c) PROVE ReceiptsAreTheDocuments'
  <2>1. CASE reply[c].status = "open"
    BY <1>9, <2>1, Truthful DEF Finish, ReceiveReceipt
  <2>2. CASE reply[c].status # "open"
    <3>1. reply[c] \in Answers
      BY <1>9 DEF TypeOK, Docs, Answers, Receipts, Persisted, Places, Txs, Tx, Keyless,
          ReceiveReceipt
    <3>2. Firm(Tx(c)) => TrueOf(c, reply[c])
      BY <1>9 DEF Honest, TrueOf, Matches, InCall, ReceiveReceipt
    <3> QED BY <1>9, <2>2, <3>1, <3>2, ReturnTells DEF ReceiveReceipt, Finish
  <2> QED BY <2>1, <2>2
<1>10. ASSUME NEW c \in Calls, LoseAnswer(c) PROVE ReceiptsAreTheDocuments'
  BY <1>10, Truthful DEF LoseAnswer, Release, Drop, TypeOK, Places, Receipt, Persisted
<1>11. ASSUME NEW c \in Calls, RelookFinds(c) PROVE ReceiptsAreTheDocuments'
  <2>1. CASE doc.rcpt[Tx(c)].status = "open"
    BY <1>11, <2>1, Truthful DEF Finish, RelookFinds, Answered
  <2>2. CASE doc.rcpt[Tx(c)].status # "open"
    <3>1. doc.rcpt[Tx(c)] \in Answers
      BY <1>11 DEF TypeOK, Docs, Answers, Receipts, Persisted, Places, Txs, Tx, Keyless,
          RelookFinds, Answered
    <3>2. Firm(Tx(c)) => TrueOf(c, doc.rcpt[Tx(c)])
      BY <1>11 DEF Honest, TrueOf, Matches, InCall, RelookFinds, Answered
    <3> QED BY <1>11, <2>2, <3>1, <3>2, ReturnTells DEF RelookFinds, Answered, Finish
  <2> QED BY <2>1, <2>2
<1>12. ASSUME NEW c \in Calls, RelookFindsNothing(c) PROVE ReceiptsAreTheDocuments'
  <2>1. Receipt(asked[c], "unknown") \in Answers
    BY <1>12 DEF TypeOK, Docs, Answers, Receipts, Persisted, Places, Txs, Tx, Keyless,
        Told, RelookFindsNothing, Answered, Unanswered, Receipt
  <2>2. Receipt(asked[c], "unknown").status \in Persisted /\ Firm(Tx(c)) => TrueOf(c, Receipt(asked[c], "unknown"))
    BY DEF Receipt, Persisted
  <2> QED BY <1>12, <2>1, <2>2, ReturnTells DEF RelookFindsNothing, Answered, Unanswered
<1>13. ASSUME NEW c \in Calls, Undo(c) PROVE ReceiptsAreTheDocuments'
  <2> DEFINE r == [reply[c] EXCEPT !.status = "failed"]
  <2>1. reply[c] \in Receipts(Persisted) /\ reply[c] # None /\ asked[c] \in Payloads
    BY <1>13 DEF TypeOK, Places, Undo, Answered
  <2>2. r \in Answers /\ r.payload = reply[c].payload /\ r.status = "failed"
    BY <2>1 DEF Receipts, Answers, Persisted
  <2>3. Firm(Tx(c)) => TrueOf(c, reply[c])
    BY <2>1 DEF Honest
  <2>4. Firm(Tx(c)) => TrueOf(c, r)
    BY <1>13, <2>1, <2>2, <2>3 DEF TrueOf, Matches, Undo, Answered, Places
  <2> QED BY <1>13, <2>2, <2>4, ReturnTells DEF Undo, Answered
<1>14. ASSUME NEW c \in Calls, UndoRaises(c) PROVE ReceiptsAreTheDocuments'
  <2>1. \A d \in Calls : answer'[d] = answer[d] \/ answer'[d] = Receipt(asked[d], "raised")
    BY <1>14 DEF TypeOK, Raise, Raised, UndoRaises
  <2>2. \A d \in Calls : answer'[d] = Receipt(asked[d], "raised") => answer'[d] # None \/ answer'[d] = answer[d]
    BY <1>14, <2>1 DEF Receipt, Answers, Receipts, Places, Raise, Raised, Joined, UndoRaises
  <2>3. \A d \in Calls : answer'[d] = answer[d] \/ (answer'[d] # None /\ answer'[d].status \notin Persisted)
    BY <2>1, <2>2, RaisedIsNoReceipt DEF TypeOK
  <2>4. UNCHANGED <<asked, doc, blind, lost, recent>>
    BY <1>14 DEF UndoRaises
  <2> QED BY <2>3, <2>4, Truthful
<1>15. ASSUME NEW c \in Calls, NEW o \in Outcomes, RunScript(c, o) PROVE ReceiptsAreTheDocuments'
  BY <1>15 DEF RunScript, Outcomes, Receipt, TypeOK, Places, Documents, Once, Coming,
      Firm, Matches, ReceiptsAreTheDocuments, Docs, Tx, Txs, Keyless, Receipts
<1>16. ASSUME NEW t \in Tasks, Take(t) PROVE ReceiptsAreTheDocuments'
  BY <1>16, Truthful DEF Take, TypeOK, Places, Receipt, Persisted
<1>17. ASSUME NEW t \in Tasks, Retry(t) PROVE ReceiptsAreTheDocuments'
  BY <1>17, Truthful DEF Retry, TypeOK, Places, Receipt, Persisted
<1>18. ASSUME NEW t \in Tasks, Send(t) PROVE ReceiptsAreTheDocuments'
  BY <1>18, Truthful DEF Send, TypeOK, Places, Receipt, Persisted
<1>19. ASSUME NEW t \in Tasks, BeginOther(t) PROVE ReceiptsAreTheDocuments'
  BY <1>19, Truthful DEF BeginOther, TypeOK, Places, Receipt, Persisted
<1>20. ASSUME NEW t \in Tasks, ReadEnds(t) PROVE ReceiptsAreTheDocuments'
  BY <1>20 DEF ReadEnds, Answered, Unanswered, TypeOK, Places, Documents, Once, Coming,
      Firm, Matches, ReceiptsAreTheDocuments, Docs, Tx, Txs, Keyless, Receipts
<1>21. ASSUME NEW t \in Tasks, SaveEnds(t) PROVE ReceiptsAreTheDocuments'
  BY <1>21 DEF SaveEnds, Release, Drop, TypeOK, Places, Documents, Once, Coming, Firm,
      Matches, ReceiptsAreTheDocuments, Docs, Tx, Txs, Keyless, Receipts
<1>22. ASSUME NEW t \in Tasks, SaveDoc(t) PROVE ReceiptsAreTheDocuments'
  BY <1>22 DEF SaveDoc, TypeOK, Places, Documents, Once, Coming, Firm, Matches,
      ReceiptsAreTheDocuments, Docs, Tx, Txs, Keyless, Receipts
<1>23. ASSUME NEW t \in Tasks, Cancel(t) PROVE ReceiptsAreTheDocuments'
  <2>1. \A d \in Calls : answer'[d] = answer[d] \/ answer'[d] = Receipt(asked[d], "raised")
    BY <1>23 DEF TypeOK, Raise, Raised, Cancel
  <2>2. \A d \in Calls : answer'[d] = Receipt(asked[d], "raised") => answer'[d] # None \/ answer'[d] = answer[d]
    BY <1>23, <2>1 DEF Receipt, Answers, Receipts, Places, Raise, Raised, Joined, Cancel
  <2>3. \A d \in Calls : answer'[d] = answer[d] \/ (answer'[d] # None /\ answer'[d].status \notin Persisted)
    BY <2>1, <2>2, RaisedIsNoReceipt DEF TypeOK
  <2>4. UNCHANGED <<asked, doc, blind, lost, recent>>
    BY <1>23 DEF Cancel
  <2> QED BY <2>3, <2>4, Truthful
<1>24. ASSUME Restart PROVE ReceiptsAreTheDocuments'
  <2>1. \A d \in Calls : answer'[d] = answer[d] \/ (pc[d] \notin {"idle", "done"} /\ answer'[d] = Receipt(asked[d], "raised"))
    BY <1>24 DEF TypeOK, Restart, Raised
  <2>2. \A d \in Calls : pc[d] \notin {"idle", "done"} => Receipt(asked[d], "raised") \in Answers
    BY DEF Receipt, Answers, Receipts, Places
  <2>3. \A k \in Keys : recent'[k] = None
    BY <1>24 DEF Restart
  <2>4. \A d \in Calls : answer'[d] = answer[d] \/ (answer'[d] # None /\ answer'[d].status \notin Persisted)
    BY <2>1, <2>2, RaisedIsNoReceipt DEF TypeOK
  <2>5. UNCHANGED <<asked, doc, blind, lost>>
    BY <1>24 DEF Restart
  <2> QED BY <2>3, <2>4, <2>5, Truthful
<1>25. ASSUME Reopen PROVE ReceiptsAreTheDocuments'
  BY <1>25 DEF Reopen, TypeOK, Places, Documents, Once, Coming, Firm, Matches,
      ReceiptsAreTheDocuments, Docs, Tx, Txs, Keyless, Receipts
<1> QED
  BY <1>0, <1>1, <1>2, <1>3, <1>4, <1>5, <1>6, <1>7, <1>8, <1>9, <1>10, <1>11, <1>12,
     <1>13, <1>14, <1>15, <1>16, <1>17, <1>18, <1>19, <1>20, <1>21, <1>22, <1>23, <1>24, <1>25 DEF
      Next, ExecuteStep, TaskStep, Stop

\* Only a transaction looked up in vain runs a second time.
LEMMA RunsStep ==
  ASSUME ClientInv, [Next]_vars
  PROVE  RunsAgainOnlyBlind'
<1> USE ClientConstants, NoneIsNoAnswer DEF ClientInv, client, rhino, Tasks
<1>0. CASE UNCHANGED vars
  BY <1>0 DEF vars, RunsAgainOnlyBlind
<1>1. ASSUME NEW c \in Calls, NEW p \in Payloads, Replay(c, p) PROVE RunsAgainOnlyBlind'
  BY <1>1 DEF Replay, Ask, Cached, AnswerAtOnce, Told, Receipt, RunsAgainOnlyBlind
<1>2. ASSUME NEW c \in Calls, NEW p \in Payloads, Join(c, p) PROVE RunsAgainOnlyBlind'
  BY <1>2 DEF Join, Ask, Owned, Cached, RunsAgainOnlyBlind
<1>3. ASSUME NEW c \in Calls, NEW p \in Payloads, Refuse(c, p) PROVE RunsAgainOnlyBlind'
  BY <1>3 DEF Refuse, Ask, AnswerAtOnce, Receipt, RunsAgainOnlyBlind
<1>4. ASSUME NEW c \in Calls, NEW p \in Payloads, Validate(c, p) PROVE RunsAgainOnlyBlind'
  BY <1>4 DEF Validate, Ask, AnswerAtOnce, Receipt, RunsAgainOnlyBlind
<1>5. ASSUME NEW c \in Calls, NEW p \in Payloads, Own(c, p) PROVE RunsAgainOnlyBlind'
  BY <1>5 DEF Own, Ask, Owned, Cached, RunsAgainOnlyBlind
<1>6. ASSUME NEW c \in Calls, LookupFinds(c) PROVE RunsAgainOnlyBlind'
  BY <1>6 DEF LookupFinds, Answered, Return, Joined, Forget, Told, Remember, Receipt,
      RunsAgainOnlyBlind
<1>7. ASSUME NEW c \in Calls, LookupFindsNothing(c) PROVE RunsAgainOnlyBlind'
  BY <1>7 DEF LookupFindsNothing, Answered, RunsAgainOnlyBlind
<1>8. ASSUME NEW c \in Calls, LookupUnanswered(c) PROVE RunsAgainOnlyBlind'
  BY <1>8 DEF LookupUnanswered, Unanswered, RunsAgainOnlyBlind
<1>9. ASSUME NEW c \in Calls, ReceiveReceipt(c) PROVE RunsAgainOnlyBlind'
  BY <1>9 DEF ReceiveReceipt, Release, Finish, Return, Joined, Forget, Told, Remember,
      Drop, Receipt, RunsAgainOnlyBlind
<1>10. ASSUME NEW c \in Calls, LoseAnswer(c) PROVE RunsAgainOnlyBlind'
  BY <1>10 DEF LoseAnswer, Release, Drop, RunsAgainOnlyBlind
<1>11. ASSUME NEW c \in Calls, RelookFinds(c) PROVE RunsAgainOnlyBlind'
  BY <1>11 DEF RelookFinds, Answered, Finish, Return, Joined, Forget, Told, Remember,
      Drop, Receipt, RunsAgainOnlyBlind
<1>12. ASSUME NEW c \in Calls, RelookFindsNothing(c) PROVE RunsAgainOnlyBlind'
  BY <1>12 DEF RelookFindsNothing, Answered, Unanswered, Return, Joined, Forget, Told,
      Remember, Receipt, RunsAgainOnlyBlind
<1>13. ASSUME NEW c \in Calls, Undo(c) PROVE RunsAgainOnlyBlind'
  BY <1>13 DEF Undo, Answered, Return, Joined, Forget, Told, Remember, Drop, Receipt,
      RunsAgainOnlyBlind
<1>14. ASSUME NEW c \in Calls, UndoRaises(c) PROVE RunsAgainOnlyBlind'
  BY <1>14 DEF UndoRaises, Release, Raise, Raised, Joined, Forget, Drop, Receipt,
      RunsAgainOnlyBlind
<1>15. ASSUME NEW c \in Calls, NEW o \in Outcomes, RunScript(c, o) PROVE RunsAgainOnlyBlind'
  <2>1. Coming(c) /\ c \in waiting
    BY <1>15 DEF RunScript, Coming
  <2>2. Tx(c) \notin blind => doc.ran[Tx(c)] = 0
    BY <2>1 DEF Once
  <2>3. doc.ran \in [Txs -> Nat] /\ doc'.ran = [doc.ran EXCEPT ![Tx(c)] = doc.ran[Tx(c)] + 1] /\ blind' = blind
    BY <1>15 DEF RunScript, TypeOK, Docs
  <2> QED BY <2>2, <2>3 DEF RunsAgainOnlyBlind
<1>16. ASSUME NEW t \in Tasks, Take(t) PROVE RunsAgainOnlyBlind'
  BY <1>16 DEF Take, RunsAgainOnlyBlind
<1>17. ASSUME NEW t \in Tasks, Retry(t) PROVE RunsAgainOnlyBlind'
  BY <1>17 DEF Retry, RunsAgainOnlyBlind
<1>18. ASSUME NEW t \in Tasks, Send(t) PROVE RunsAgainOnlyBlind'
  BY <1>18 DEF Send, RunsAgainOnlyBlind
<1>19. ASSUME NEW t \in Tasks, BeginOther(t) PROVE RunsAgainOnlyBlind'
  BY <1>19 DEF BeginOther, RunsAgainOnlyBlind
<1>20. ASSUME NEW t \in Tasks, ReadEnds(t) PROVE RunsAgainOnlyBlind'
  BY <1>20 DEF ReadEnds, Answered, Unanswered, RunsAgainOnlyBlind
<1>21. ASSUME NEW t \in Tasks, SaveEnds(t) PROVE RunsAgainOnlyBlind'
  BY <1>21 DEF SaveEnds, Release, Drop, RunsAgainOnlyBlind
<1>22. ASSUME NEW t \in Tasks, SaveDoc(t) PROVE RunsAgainOnlyBlind'
  BY <1>22 DEF SaveDoc, RunsAgainOnlyBlind
<1>23. ASSUME NEW t \in Tasks, Cancel(t) PROVE RunsAgainOnlyBlind'
  BY <1>23 DEF Cancel, Release, Raise, Raised, Joined, Forget, Drop, Receipt,
      RunsAgainOnlyBlind
<1>24. ASSUME Restart PROVE RunsAgainOnlyBlind'
  BY <1>24 DEF Restart, Raised, Receipt, RunsAgainOnlyBlind
<1>25. ASSUME Reopen PROVE RunsAgainOnlyBlind'
  <2>1. doc' = saved /\ blind' = blind
    BY <1>25 DEF Reopen
  <2>2. saved.ran \in [Txs -> Nat] /\ doc.ran \in [Txs -> Nat]
    BY DEF TypeOK, Docs
  <2> QED BY <2>1, <2>2 DEF RunsAgainOnlyBlind, Documents
<1> QED
  BY <1>0, <1>1, <1>2, <1>3, <1>4, <1>5, <1>6, <1>7, <1>8, <1>9, <1>10, <1>11, <1>12,
     <1>13, <1>14, <1>15, <1>16, <1>17, <1>18, <1>19, <1>20, <1>21, <1>22, <1>23, <1>24, <1>25 DEF
      Next, ExecuteStep, TaskStep, Stop

\* A checkpoint is acknowledged only by Rhino's own answer.
LEMMA SavedIsReplied ==
  ASSUME ClientInv, [Next]_vars, NEW s \in Others, answer'[s] = "saved", answer[s] # "saved"
  PROVE  reply[s] = "saved"
<1> USE ClientConstants, NoneIsNoAnswer DEF ClientInv, client, rhino, Tasks
<1>0. CASE UNCHANGED vars
  BY <1>0 DEF vars, TypeOK, Places
<1>1. ASSUME NEW c \in Calls, NEW p \in Payloads, Replay(c, p) PROVE reply[s] = "saved"
  BY <1>1 DEF Replay, Ask, Cached, AnswerAtOnce, Told, Receipt, TypeOK, Places
<1>2. ASSUME NEW c \in Calls, NEW p \in Payloads, Join(c, p) PROVE reply[s] = "saved"
  BY <1>2 DEF Join, Ask, Owned, Cached, TypeOK, Places
<1>3. ASSUME NEW c \in Calls, NEW p \in Payloads, Refuse(c, p) PROVE reply[s] = "saved"
  BY <1>3 DEF Refuse, Ask, AnswerAtOnce, Receipt, TypeOK, Places
<1>4. ASSUME NEW c \in Calls, NEW p \in Payloads, Validate(c, p) PROVE reply[s] = "saved"
  BY <1>4 DEF Validate, Ask, AnswerAtOnce, Receipt, TypeOK, Places
<1>5. ASSUME NEW c \in Calls, NEW p \in Payloads, Own(c, p) PROVE reply[s] = "saved"
  BY <1>5 DEF Own, Ask, Owned, Cached, TypeOK, Places
<1>6. ASSUME NEW c \in Calls, LookupFinds(c) PROVE reply[s] = "saved"
  BY <1>6 DEF LookupFinds, Answered, Return, Joined, Forget, Told, Remember, Receipt,
      TypeOK, Places
<1>7. ASSUME NEW c \in Calls, LookupFindsNothing(c) PROVE reply[s] = "saved"
  BY <1>7 DEF LookupFindsNothing, Answered, TypeOK, Places
<1>8. ASSUME NEW c \in Calls, LookupUnanswered(c) PROVE reply[s] = "saved"
  BY <1>8 DEF LookupUnanswered, Unanswered, TypeOK, Places
<1>9. ASSUME NEW c \in Calls, ReceiveReceipt(c) PROVE reply[s] = "saved"
  BY <1>9 DEF ReceiveReceipt, Release, Finish, Return, Joined, Forget, Told, Remember,
      Drop, Receipt, TypeOK, Places
<1>10. ASSUME NEW c \in Calls, LoseAnswer(c) PROVE reply[s] = "saved"
  BY <1>10 DEF LoseAnswer, Release, Drop, TypeOK, Places
<1>11. ASSUME NEW c \in Calls, RelookFinds(c) PROVE reply[s] = "saved"
  BY <1>11 DEF RelookFinds, Answered, Finish, Return, Joined, Forget, Told, Remember,
      Drop, Receipt, TypeOK, Places
<1>12. ASSUME NEW c \in Calls, RelookFindsNothing(c) PROVE reply[s] = "saved"
  BY <1>12 DEF RelookFindsNothing, Answered, Unanswered, Return, Joined, Forget, Told,
      Remember, Receipt, TypeOK, Places
<1>13. ASSUME NEW c \in Calls, Undo(c) PROVE reply[s] = "saved"
  BY <1>13 DEF Undo, Answered, Return, Joined, Forget, Told, Remember, Drop, Receipt,
      TypeOK, Places
<1>14. ASSUME NEW c \in Calls, UndoRaises(c) PROVE reply[s] = "saved"
  BY <1>14 DEF UndoRaises, Release, Raise, Raised, Joined, Forget, Drop, Receipt, TypeOK,
      Places
<1>15. ASSUME NEW c \in Calls, NEW o \in Outcomes, RunScript(c, o) PROVE reply[s] = "saved"
  BY <1>15 DEF RunScript, Outcomes, Receipt, TypeOK, Places
<1>16. ASSUME NEW t \in Tasks, Take(t) PROVE reply[s] = "saved"
  BY <1>16 DEF Take, TypeOK, Places
<1>17. ASSUME NEW t \in Tasks, Retry(t) PROVE reply[s] = "saved"
  BY <1>17 DEF Retry, TypeOK, Places
<1>18. ASSUME NEW t \in Tasks, Send(t) PROVE reply[s] = "saved"
  BY <1>18 DEF Send, TypeOK, Places
<1>19. ASSUME NEW t \in Tasks, BeginOther(t) PROVE reply[s] = "saved"
  BY <1>19 DEF BeginOther, TypeOK, Places
<1>20. ASSUME NEW t \in Tasks, ReadEnds(t) PROVE reply[s] = "saved"
  BY <1>20 DEF ReadEnds, Answered, Unanswered, TypeOK, Places
<1>21. ASSUME NEW t \in Tasks, SaveEnds(t) PROVE reply[s] = "saved"
  BY <1>21 DEF SaveEnds, Release, Drop, TypeOK, Places
<1>22. ASSUME NEW t \in Tasks, SaveDoc(t) PROVE reply[s] = "saved"
  BY <1>22 DEF SaveDoc, TypeOK, Places
<1>23. ASSUME NEW t \in Tasks, Cancel(t) PROVE reply[s] = "saved"
  BY <1>23 DEF Cancel, Release, Raise, Raised, Joined, Forget, Drop, Receipt, TypeOK, Places
<1>24. ASSUME Restart PROVE reply[s] = "saved"
  BY <1>24 DEF Restart, Raised, Receipt, TypeOK, Places
<1>25. ASSUME Reopen PROVE reply[s] = "saved"
  BY <1>25 DEF Reopen, TypeOK, Places
<1> QED
  BY <1>0, <1>1, <1>2, <1>3, <1>4, <1>5, <1>6, <1>7, <1>8, <1>9, <1>10, <1>11, <1>12,
     <1>13, <1>14, <1>15, <1>16, <1>17, <1>18, <1>19, <1>20, <1>21, <1>22, <1>23, <1>24, <1>25 DEF
      Next, ExecuteStep, TaskStep, Stop

----------------------------------------------------------------------------
(* The theorems *)

\* All parts together.
LEMMA ClientInvStep == ClientInv /\ [Next]_vars => ClientInv'
  BY TypeStep, PlacesStep, DocumentsStep, OnceStep, HonestStep, KeptStep,
     ReceiptsStep, RunsStep DEF ClientInv

\* The invariant holds in every reachable state.
LEMMA ClientInvariant == Spec => []ClientInv
  BY ClientInvInit, ClientInvStep, PTL DEF Spec

\* Every variable keeps its type, whatever calls, faults and restarts.
THEOREM ClientTypeCorrect == Spec => []TypeOK
  BY ClientInvariant, PTL DEF ClientInv

\* rhino.py executes a transaction twice only after a look-up that no attempt
\* of _recover_receipt got an answer to.
THEOREM ClientRunsOnce == Spec => []RunsAgainOnlyBlind
  BY ClientInvariant, PTL DEF ClientInv

\* What callers are told and what is cached is what the document holds.
THEOREM ClientTellsTheDocument == Spec => []ReceiptsAreTheDocuments
  BY ClientInvariant, PTL DEF ClientInv

\* An acknowledged checkpoint holds every transaction told by then.
THEOREM ClientCheckpointsWhatWasTold == Spec => CheckpointHasWhatWasTold
<1> DEFINE Holds == \A s \in Others : answer'[s] = "saved" /\ answer[s] # "saved" =>
                 \A c \in Calls : /\ Tx(c) \notin blind \cup lost
                                  /\ answer[c] # None /\ answer[c].status \in Persisted
                                  => saved.rcpt[Tx(c)] # None
<1>1. ASSUME ClientInv, [Next]_vars PROVE [Holds]_vars
  <2> SUFFICES ASSUME NEW s \in Others, answer'[s] = "saved", answer[s] # "saved"
               PROVE  reply[s] = "saved"
    <3>1. \A c \in Calls : Tx(c) \in Txs
      BY ClientConstants DEF Tx, Txs, Keyless
    <3> QED BY <1>1, <3>1 DEF ClientInv, Kept, ToldOf, Firm
  <2> QED BY <1>1, SavedIsReplied
<1> QED BY <1>1, ClientInvariant, PTL DEF Spec, CheckpointHasWhatWasTold
----------------------------------------------------------------------------
(* Why every call can end: what liveness rests on without fairness *)

Underway(t) == pc[t] \notin {"idle", "done"}
StepOf(t) == TaskStep(t) \/ (t \in Calls /\ ExecuteStep(t))

\* What a task awaits is there, or its wait ends by a timeout.
CanStep(t) ==
    \/ pc[t] = "sent"
    \/ pc[t] = "send" /\ lock = None
    \/ pc[t] \in {"lookup", "relook", "read", "undo"} /\ lock \in {None, t}

\* Whom a task waits for: the owner of a future, or the holder of the lock.
Awaited(t) == (IF pc[t] = "waiting" THEN {inflight[KeyOf[t]]} ELSE {lock}) \cap Tasks

\* Behind every task that has begun and not ended, two waits away at most, is
\* one that can take its next step.
NobodyIsStuck ==
    \A t \in Tasks : Underway(t) =>
        \/ CanStep(t)
        \/ \E u \in Awaited(t) : CanStep(u) \/ \E w \in Awaited(u) : CanStep(w)

\* The steps a task has left at most: an attempt of a read is one, and so are
\* the taking of the lock, a transmission and its answer.
OwnStepsLeft(t) ==
    CASE pc[t] = "lookup" /\ lock # t -> 2 * Attempts + 6
      [] pc[t] = "lookup" /\ lock = t -> 2 * Attempts + 5 - tries
      [] pc[t] = "send" -> Attempts + 5
      [] pc[t] = "sent" -> Attempts + 4
      [] pc[t] = "relook" /\ lock # t -> Attempts + 3
      [] pc[t] = "relook" /\ lock = t -> Attempts + 2 - tries
      [] pc[t] = "read" /\ lock # t -> Attempts + 1
      [] pc[t] = "read" /\ lock = t -> Attempts - tries
      [] pc[t] = "undo" /\ lock # t -> 2
      [] pc[t] = "undo" /\ lock = t -> 1
      [] OTHER -> 0

\* A call that joined another's future ends with the owner's last step.
Doer(t) == IF pc[t] = "waiting" THEN inflight[KeyOf[t]] ELSE t
StepsLeft(t) == OwnStepsLeft(Doer(t)) + (IF pc[t] = "waiting" THEN 1 ELSE 0)

\* A task that has begun has finitely many steps left, its own or its owner's.
\* Each of them makes them fewer, nothing anybody else does makes them more,
\* and the task never begins again.
EachStepIsNearer ==
    [][\A t \in Tasks : pc[t] # "idle" =>
          /\ pc'[t] # "idle"
          /\ StepsLeft(t) \in Nat /\ StepsLeft(t)' \in Nat
          /\ StepsLeft(t)' <= StepsLeft(t)
          /\ StepOf(Doer(t)) => StepsLeft(t)' < StepsLeft(t)]_vars

\* A call waits only for a future that somebody is going to settle.
WaitersOwned == \A c \in Calls : pc[c] = "waiting" => inflight[KeyOf[c]] # None

\* A call that joined is settled with the future it joined.
LEMMA WaitersInvariant == Spec => []WaitersOwned
<1>1. Init => WaitersOwned
  BY DEF Init, WaitersOwned, Tasks
<1>2. ASSUME ClientInv, WaitersOwned, [Next]_vars PROVE WaitersOwned'
  <2> USE <1>2, ClientConstants, NoneIsNoAnswer DEF ClientInv, client, WaitersOwned
  <2>1. ASSUME NEW c \in Calls, ExecuteStep(c) PROVE WaitersOwned'
    <3>1. CASE \E p \in Payloads : Replay(c, p) \/ Join(c, p) \/ Refuse(c, p) \/ Validate(c, p) \/ Own(c, p)
      BY <3>1 DEF Replay, Join, Refuse, Validate, Own, Ask, AnswerAtOnce, Cached, Owned, TypeOK, Tasks, Places, Keyless
    <3>2. CASE LookupFindsNothing(c) \/ LookupUnanswered(c) \/ LoseAnswer(c)
      BY <3>2 DEF LookupFindsNothing, LookupUnanswered, LoseAnswer, Answered, Unanswered, TypeOK, Tasks
    <3>3. CASE LookupFinds(c) \/ RelookFindsNothing(c) \/ Undo(c) \/ UndoRaises(c)
      BY <3>3 DEF LookupFinds, RelookFindsNothing, Undo, UndoRaises, Return, Raise, Joined, Forget, Tasks,
           TypeOK, Places, Keyless
    <3>4. CASE ReceiveReceipt(c) \/ RelookFinds(c)
      BY <3>4 DEF ReceiveReceipt, RelookFinds, Finish, Return, Joined, Forget, Tasks, TypeOK, Places, Keyless
    <3> QED BY <2>1, <3>1, <3>2, <3>3, <3>4 DEF ExecuteStep
  <2>2. ASSUME NEW t \in Tasks, TaskStep(t) PROVE WaitersOwned'
    BY <2>2 DEF TaskStep, Take, Retry, Send, BeginOther, ReadEnds, SaveEnds, TypeOK, Tasks
  <2>3. ASSUME NEW t \in Tasks, Cancel(t) PROVE WaitersOwned'
    BY <2>3 DEF Cancel, Raise, Joined, Forget, TypeOK, Tasks, Places, Keyless
  <2>4. CASE Restart
    BY <2>4 DEF Restart, TypeOK, Tasks
  <2>5. CASE \/ \E c \in Calls, o \in Outcomes : RunScript(c, o)
             \/ \E t \in Tasks : SaveDoc(t)
             \/ Reopen \/ Stop \/ UNCHANGED vars
    BY <2>5 DEF RunScript, SaveDoc, Reopen, Stop, vars
  <2> QED BY <2>1, <2>2, <2>3, <2>4, <2>5 DEF Next
<1> QED BY <1>1, <1>2, ClientInvariant, PTL DEF Spec

\* No deadlock, for any number of tasks: a future's owner is at work and the
\* lock's holder can go on, answered or not.
THEOREM ClientNobodyIsStuck == Spec => []NobodyIsStuck
<1>1. ASSUME ClientInv, WaitersOwned PROVE NobodyIsStuck
  <2> USE ClientConstants DEF ClientInv
  <2>1. lock # None => lock \in Tasks /\ CanStep(lock)
    BY <1>1 DEF TypeOK, CanStep
  <2>2. \A t \in Tasks : Underway(t) /\ pc[t] # "waiting" => CanStep(t) \/ \E u \in Awaited(t) : CanStep(u)
    BY <1>1, <2>1 DEF TypeOK, Underway, CanStep, Awaited
  <2>3. ASSUME NEW t \in Tasks, pc[t] = "waiting"
        PROVE  \E u \in Awaited(t) : Underway(u) /\ pc[u] # "waiting" /\ u \in Tasks
    <3>1. t \in Calls /\ KeyOf[t] \in Keys
      BY <1>1, <2>3 DEF Places, Keyless, Tasks
    <3> QED BY <1>1, <2>3, <3>1 DEF WaitersOwned, TypeOK, Awaited, Underway, Tasks
  <2> QED BY <2>2, <2>3 DEF NobodyIsStuck, Underway
<1> QED BY <1>1, ClientInvariant, WaitersInvariant, PTL

\* What a task's step or its cancellation does to the tasks: its own measure
\* falls, the callers that joined it end with it, and nobody else is touched.
Touches(t) ==
    /\ pc'[t] \notin {"idle", "waiting"}
    /\ pc[t] # "waiting" => OwnStepsLeft(t)' < OwnStepsLeft(t)
    /\ pc[t] = "waiting" => pc'[t] = "done"
    /\ \A u \in Tasks \ {t} :
          /\ lock' = u <=> lock = u
          /\ lock = u => tries' = tries
          /\ \/ pc'[u] = pc[u]
             \/ pc[u] = "waiting" /\ pc'[u] = "done"
          /\ pc'[u] = "waiting" => inflight'[KeyOf[u]] = inflight[KeyOf[u]]

\* Return and Raise, the ends of an owner.
LEMMA OwnerEnds ==
  ASSUME ClientInv, NEW t \in Tasks, Underway(t), Forget(t),
         pc' = [u \in Tasks |-> IF u \in Joined(t) \cup {t} THEN "done" ELSE pc[u]],
         \A u \in Tasks \ {t} : (lock' = u <=> lock = u) /\ (lock = u => tries' = tries),
         pc[t] # "waiting" => OwnStepsLeft(t) > 0
  PROVE  Touches(t)
<1> USE ClientConstants DEF ClientInv
<1>1. pc'[t] = "done" /\ OwnStepsLeft(t)' = 0
  BY DEF OwnStepsLeft
<1>2. ASSUME NEW u \in Tasks \ {t} PROVE pc'[u] = pc[u] \/ (pc[u] = "waiting" /\ pc'[u] = "done")
  BY DEF Joined
<1>3. ASSUME NEW u \in Tasks \ {t}, pc'[u] = "waiting" PROVE inflight'[KeyOf[u]] = inflight[KeyOf[u]]
  <2>1. pc[u] = "waiting" /\ u \notin Joined(t)
    BY <1>3
  <2>2. u \in Calls /\ KeyOf[u] \in Keys
    BY <2>1 DEF Places, Keyless, Tasks
  <2> QED BY <2>1, <2>2 DEF Joined, Forget
<1> QED BY <1>1, <1>2, <1>3 DEF Touches

LEMMA StepsTouch ==
  ASSUME ClientInv, NEW t \in Tasks, pc[t] # "idle", StepOf(t) \/ Cancel(t)
  PROVE  Touches(t)
<1> USE ClientConstants DEF ClientInv, Underway
<1>0. /\ tries \in Nat /\ tries <= Attempts - 1 /\ Attempts \in Nat \ {0}
      /\ pc \in [Tasks -> {"idle", "waiting", "lookup", "send", "sent", "relook", "undo", "read", "done"}]
  BY DEF TypeOK
<1>1. pc[t] \in {"lookup", "send", "sent", "relook", "undo", "read"} => OwnStepsLeft(t) > 0
  BY <1>0 DEF OwnStepsLeft
<1>2. CASE Take(t) \/ Retry(t) \/ Send(t)
  BY <1>0, <1>2 DEF Take, Retry, Send, Touches, OwnStepsLeft
<1>3. CASE ReadEnds(t) \/ SaveEnds(t)
  <2>1. pc[t] \in {"read", "sent"} /\ pc' = [pc EXCEPT ![t] = "done"] /\ inflight' = inflight /\ tries' = tries
        /\ \A u \in Tasks \ {t} : lock' = u <=> lock = u
    BY <1>3 DEF ReadEnds, SaveEnds, Answered, Unanswered, Release
  <2> QED BY <1>0, <1>1, <2>1 DEF Touches, OwnStepsLeft
<1>4. CASE t \in Calls /\ (LookupFindsNothing(t) \/ LookupUnanswered(t) \/ LoseAnswer(t))
  BY <1>0, <1>4 DEF LookupFindsNothing, LookupUnanswered, LoseAnswer, Answered, Unanswered, Release,
       Touches, OwnStepsLeft, Tasks
<1>5. CASE t \in Calls /\ (LookupFinds(t) \/ RelookFindsNothing(t) \/ Undo(t) \/ UndoRaises(t))
  <2>1. /\ pc[t] \in {"lookup", "relook", "undo"} /\ tries' = tries
        /\ \A u \in Tasks \ {t} : lock' = u <=> lock = u
        /\ Forget(t) /\ pc' = [u \in Tasks |-> IF u \in Joined(t) \cup {t} THEN "done" ELSE pc[u]]
    BY <1>5 DEF LookupFinds, RelookFindsNothing, Undo, UndoRaises, Return, Raise, Answered, Unanswered, Release
  <2> QED BY <1>1, <2>1, OwnerEnds
<1>6. CASE t \in Calls /\ (ReceiveReceipt(t) \/ RelookFinds(t))
  <2>1. /\ pc[t] = "sent" \/ (pc[t] = "relook" /\ lock = t)
        /\ tries' = tries /\ lock' # t
        /\ \A u \in Tasks \ {t} : lock' = u <=> lock = u
        /\ \/ pc' = [pc EXCEPT ![t] = "undo"] /\ inflight' = inflight
           \/ Forget(t) /\ pc' = [u \in Tasks |-> IF u \in Joined(t) \cup {t} THEN "done" ELSE pc[u]]
    BY <1>6 DEF ReceiveReceipt, RelookFinds, Finish, Return, Answered, Release, Tasks
  <2>2. CASE Forget(t) /\ pc' = [u \in Tasks |-> IF u \in Joined(t) \cup {t} THEN "done" ELSE pc[u]]
    BY <1>1, <2>1, <2>2, OwnerEnds
  <2>3. CASE pc' = [pc EXCEPT ![t] = "undo"] /\ inflight' = inflight
    BY <1>0, <2>1, <2>3 DEF Touches, OwnStepsLeft
  <2> QED BY <2>1, <2>2, <2>3
<1>7. CASE Cancel(t)
  <2>1. /\ pc[t] \notin {"idle", "done"} /\ tries' = tries
        /\ \A u \in Tasks \ {t} : lock' = u <=> lock = u
        /\ Forget(t) /\ pc' = [u \in Tasks |-> IF u \in Joined(t) \cup {t} THEN "done" ELSE pc[u]]
    BY <1>7 DEF Cancel, Raise, Release
  <2> QED BY <1>0, <1>1, <2>1, OwnerEnds
<1>8. ~BeginOther(t)
      /\ (t \in Calls => \A p \in Payloads : ~(Replay(t, p) \/ Join(t, p) \/ Refuse(t, p) \/ Validate(t, p) \/ Own(t, p)))
  BY DEF BeginOther, Replay, Join, Refuse, Validate, Own, Ask
<1> QED BY <1>2, <1>3, <1>4, <1>5, <1>6, <1>7, <1>8 DEF StepOf, TaskStep, ExecuteStep

\* A call or a task that begins, a script that runs, a reopened document: what
\* the tasks under way are at stays as it is.
LEMMA OthersLeave ==
  ASSUME ClientInv, WaitersOwned, [Next]_vars, ~Restart,
         ~\E t \in Tasks : pc[t] # "idle" /\ (StepOf(t) \/ Cancel(t))
  PROVE  /\ \A t \in Tasks : pc[t] # "idle" => pc'[t] = pc[t]
         /\ lock' = lock /\ tries' = tries
         /\ \A k \in Keys : inflight[k] # None => inflight'[k] = inflight[k]
<1> USE ClientConstants DEF ClientInv, TypeOK, client
<1>1. ASSUME NEW t \in Tasks, pc[t] = "idle", StepOf(t)
      PROVE  /\ \A u \in Tasks \ {t} : pc'[u] = pc[u]
             /\ lock' = lock /\ tries' = tries
             /\ \A k \in Keys : inflight[k] # None => inflight'[k] = inflight[k]
  <2>1. CASE BeginOther(t)
    BY <2>1 DEF BeginOther
  <2>2. CASE t \in Calls /\ \E p \in Payloads : Replay(t, p) \/ Join(t, p) \/ Refuse(t, p) \/ Validate(t, p) \/ Own(t, p)
    BY <2>2 DEF Replay, Join, Refuse, Validate, Own, Ask, AnswerAtOnce, Owned, Keyless
  <2>3. t \in Calls => ~(\/ LookupFinds(t) \/ LookupFindsNothing(t) \/ LookupUnanswered(t)
                         \/ ReceiveReceipt(t) \/ LoseAnswer(t) \/ RelookFinds(t) \/ RelookFindsNothing(t)
                         \/ Undo(t) \/ UndoRaises(t))
    BY <1>1 DEF LookupFinds, LookupFindsNothing, LookupUnanswered, ReceiveReceipt, LoseAnswer, RelookFinds,
         RelookFindsNothing, Undo, UndoRaises, Answered, Unanswered
  <2>4. ~(Take(t) \/ Retry(t) \/ Send(t) \/ ReadEnds(t) \/ SaveEnds(t))
    BY <1>1 DEF Take, Retry, Send, ReadEnds, SaveEnds, Answered, Unanswered
  <2> QED BY <1>1, <2>1, <2>2, <2>3, <2>4 DEF StepOf, TaskStep, ExecuteStep
<1>2. CASE \E t \in Tasks : pc[t] = "idle" /\ StepOf(t)
  BY <1>1, <1>2
<1>3. CASE \/ \E c \in Calls, o \in Outcomes : RunScript(c, o)
           \/ \E t \in Tasks : SaveDoc(t)
           \/ Reopen \/ Stop \/ UNCHANGED vars
  BY <1>3 DEF RunScript, SaveDoc, Reopen, Stop, vars
<1>4. \A t \in Tasks : Cancel(t) => pc[t] # "idle"
  BY DEF Cancel
<1> QED BY <1>2, <1>3, <1>4 DEF Next, StepOf, Tasks

\* Together with the fairness of the scheduler this is why EveryCallEnds holds,
\* whatever is retried, lost, rolled back, cancelled or restarted.
THEOREM ClientStepsAreNearer == Spec => EachStepIsNearer
<1> DEFINE Nearer(t) == pc[t] # "idle" =>
              /\ pc'[t] # "idle"
              /\ StepsLeft(t) \in Nat /\ StepsLeft(t)' \in Nat
              /\ StepsLeft(t)' <= StepsLeft(t)
              /\ StepOf(Doer(t)) => StepsLeft(t)' < StepsLeft(t)
<1>1. ASSUME ClientInv PROVE \A t \in Tasks \cup {None} : OwnStepsLeft(t) \in Nat
  BY <1>1, ClientConstants DEF ClientInv, TypeOK, OwnStepsLeft
<1>2. ASSUME ClientInv, WaitersOwned, NEW t \in Tasks, pc[t] = "waiting"
      PROVE  /\ t \in Calls /\ KeyOf[t] \in Keys /\ inflight[KeyOf[t]] \in Calls
             /\ inflight[KeyOf[t]] # t
             /\ pc[inflight[KeyOf[t]]] \notin {"idle", "waiting", "done"}
  BY <1>2, ClientConstants DEF ClientInv, TypeOK, Places, Keyless, WaitersOwned, Tasks
<1>3. ASSUME ClientInv, ClientInv', WaitersOwned, [Next]_vars, NEW t \in Tasks, pc[t] # "idle"
      PROVE  Nearer(t)
  <2>0. PICK o \in Tasks : o = Doer(t)
    BY <1>2, <1>3 DEF Doer, Tasks
  <2>1. /\ pc[o] # "idle"
        /\ pc[t] # "waiting" => o = t
        /\ pc[t] = "waiting" => o = inflight[KeyOf[t]] /\ KeyOf[t] \in Keys /\ o # t /\ pc[o] # "waiting"
    BY <1>2, <1>3, <2>0 DEF Doer
  <2>2. /\ OwnStepsLeft(o) \in Nat
        /\ StepsLeft(t) = OwnStepsLeft(o) + (IF pc[t] = "waiting" THEN 1 ELSE 0)
    BY <1>1, <1>3, <2>0 DEF StepsLeft
  <2>3. \A u \in Tasks : OwnStepsLeft(u)' \in Nat
    BY <1>3, ClientConstants DEF ClientInv, TypeOK, OwnStepsLeft
  <2>4. /\ pc'[t] # "waiting" => StepsLeft(t)' = OwnStepsLeft(t)'
        /\ pc'[t] = "done" => StepsLeft(t)' = 0
    BY <2>3 DEF StepsLeft, Doer, OwnStepsLeft
  <2>5. pc'[t] = "waiting" /\ inflight'[KeyOf[t]] = o => StepsLeft(t)' = OwnStepsLeft(o)' + 1
    BY DEF StepsLeft, Doer
  <2>6. CASE StepOf(o) \/ Cancel(o)
    <3>1. Touches(o)
      BY <1>3, <2>1, <2>6, StepsTouch
    <3>2. CASE pc[t] # "waiting"
      BY <2>0, <2>1, <2>2, <2>3, <2>4, <3>1, <3>2 DEF Touches
    <3>3. CASE pc[t] = "waiting"
      BY <2>0, <2>1, <2>2, <2>3, <2>4, <2>5, <3>1, <3>3 DEF Touches
    <3> QED BY <3>2, <3>3
  <2>7. CASE ~StepOf(o) /\ pc'[t] = "done"
    BY <2>0, <2>2, <2>4, <2>7
  <2>8. ASSUME ~StepOf(o), OwnStepsLeft(o)' = OwnStepsLeft(o), pc'[t] = pc[t],
               pc[t] = "waiting" => inflight'[KeyOf[t]] = o
        PROVE  Nearer(t)
    BY <1>3, <2>0, <2>1, <2>2, <2>3, <2>4, <2>5, <2>8
  <2>9. ASSUME ~StepOf(o), ~Cancel(o), NEW u \in Tasks, pc[u] # "idle", StepOf(u) \/ Cancel(u)
        PROVE  Nearer(t)
    <3>1. Touches(u) /\ u # o
      BY <1>3, <2>9, StepsTouch
    <3>2. CASE u = t
      <4>1. pc'[t] = "done"
        BY <2>1, <3>1, <3>2 DEF Touches
      <4> QED BY <2>7, <2>9, <4>1
    <3>3. CASE u # t
      <4>1. \/ pc'[o] = pc[o] /\ (lock' = o <=> lock = o) /\ (lock = o => tries' = tries)
            \/ pc'[t] = "done"
        BY <2>1, <3>1 DEF Touches
      <4>2. pc'[t] = "done" \/ OwnStepsLeft(o)' = OwnStepsLeft(o)
        BY <4>1 DEF OwnStepsLeft
      <4> QED BY <2>1, <2>7, <2>8, <2>9, <3>1, <3>3, <4>2 DEF Touches
    <3> QED BY <3>2, <3>3
  <2>10. CASE Restart
    BY <1>3, <2>6, <2>7, <2>10 DEF Restart
  <2>11. CASE ~Restart /\ ~\E u \in Tasks : pc[u] # "idle" /\ (StepOf(u) \/ Cancel(u))
    <3>1. /\ pc'[t] = pc[t] /\ pc'[o] = pc[o] /\ lock' = lock /\ tries' = tries
          /\ pc[t] = "waiting" => inflight'[KeyOf[t]] = o
      BY <1>3, <2>1, <2>11, OthersLeave, ClientConstants DEF Tasks
    <3>2. OwnStepsLeft(o)' = OwnStepsLeft(o)
      BY <3>1 DEF OwnStepsLeft
    <3> QED BY <2>1, <2>8, <2>11, <3>1, <3>2
  <2> QED BY <2>6, <2>9, <2>10, <2>11
<1>4. ClientInv /\ ClientInv' /\ WaitersOwned /\ [Next]_vars => [\A t \in Tasks : Nearer(t)]_vars
  BY <1>3
<1> QED BY <1>4, ClientInvariant, WaitersInvariant, PTL DEF Spec, EachStepIsNearer
=============================================================================
