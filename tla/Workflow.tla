------------------------------ MODULE Workflow ------------------------------
(***************************************************************************)
(* aec_run_workflow, orchestrator.py: a focused query, one typed mutation, *)
(* a second query that verifies it, the outcome put into the workflow      *)
(* memory and a trace appended to the flight recorder's journal.  Runs     *)
(* interleave at the awaits of one event loop; memory and journal are      *)
(* written without an await.                                               *)
(*                                                                         *)
(* The gateway is reduced to what RhinoGateway shows of it: its calls take *)
(* effect one at a time, a key is answered from the table of receipts of   *)
(* this process, a stale revision blocks, and a batch that was given up    *)
(* may still run.  A scene maps ids to contents, 0 for an absent object;   *)
(* document_revision is a hash of it.                                      *)
(***************************************************************************)
EXTENDS Naturals, Sequences, FiniteSets

CONSTANTS
    Runs,        \* calls of aec_run_workflow, each once; a batch that creates
                 \* an object gives it the name of its run for an id
    Notes,       \* traces clients record by flight_recorder_record
    Existing,    \* ids of the objects of the first document
    Contents,    \* what an object may hold
    Opened,      \* the first document
    Created,     \* what a batch creates
    Keys,        \* idempotency keys
    Requests,    \* the arguments runs are called with
    MaxFaults,   \* bound on edits by others, cancelled calls, failed batches,
                 \* failed or short writes and ends of the process together
    None

Ids == Existing \cup Runs
Scenes == [Ids -> Contents \cup {0}]
Objects(s) == {i \in DOMAIN s : s[i] # 0}
Kinds == {"create", "delete", "modify", "layer"}

\* focus: the ids whose name, kind or layer matches the terms of the request;
\* tainted: model or token_usage has a key that names a transcript.
Request == [kind : Kinds \cup {"inspect", "invalid"}, target : Existing,
            key : Keys \cup {None}, dry : BOOLEAN, focus : SUBSET Ids, tainted : BOOLEAN]

ASSUME WorkflowConstants ==
    /\ Requests \subseteq Request /\ Contents \subseteq Nat \ {0}
    /\ Opened \in {s \in Scenes : Objects(s) = Existing} /\ Created \in Contents
    /\ MaxFaults \in Nat /\ "garbage" \notin Runs \cup Notes
    /\ Runs \cap (Existing \cup Notes) = {} /\ IsFiniteSet(Runs \cup Notes)
    /\ None \notin Requests \cup Scenes \cup Keys

Statuses == {"completed", "validated", "blocked", "failed", "unknown"}
Receipts == [tx : Keys \cup {None}, status : Statuses, created : SUBSET Ids,
             deleted : SUBSET Ids, modified : SUBSET Ids]
Bound == [kind : Kinds, target : Existing, receipt : Receipts]

ASSUME NoneIsNoRecord == None \notin Receipts \cup Bound

VARIABLES
    doc, ledger, late,     \* the host's scene; receipts by key; batches whose
                           \* caller has gone and that may still run
    pc, req,               \* where a run is and what it was asked
    before, receipt,       \* its first scene and its receipt
    verdict,               \* the status of its verification
    memory,                \* outcomes in the workflow memory
    journal, tail,         \* the lines of the journal; how the last one ends
    acked,                 \* traces that were reported as appended
    faults,                \* how many of MaxFaults there were
    damage,                \* of history: incomplete writes of the journal
    ran, disturbed         \* of history: runs whose batch completed for them;
                           \* runs in whose window another changed the scene

host == <<doc, ledger, late, ran, disturbed>>
files == <<memory, journal, tail, acked, damage>>
local == <<pc, req, before, receipt, verdict>>
vars == <<host, files, local, faults>>

Awaiting == {"query", "mutate", "answered", "verify"}
Writing == {"put", "append"}
Ended == {"done", "raised", "dead"}
EndsEarly == {"torn", "whole", "cut"}

Init ==
    /\ doc = Opened
    /\ ledger = [k \in Keys |-> None] /\ late = {}
    /\ pc = [r \in Runs |-> "idle"]
    /\ req = [r \in Runs |-> None]
    /\ before = [r \in Runs |-> None]
    /\ receipt = [r \in Runs |-> None]
    /\ verdict = [r \in Runs |-> "not_run"]
    /\ memory = {} /\ journal = <<>> /\ tail = "clean"
    /\ acked = {}
    /\ faults = 0 /\ damage = 0
    /\ ran = {} /\ disturbed = {}

Fault == faults < MaxFaults /\ faults' = faults + 1

\* The event loop gives way only at an await.
LoopFree == \A r \in Runs : pc[r] \notin Writing
At(r, p) == pc[r] = p /\ LoopFree
Goto(r, p) == pc' = [pc EXCEPT ![r] = p]

(***************************************************************************)
(* The scene and the host.                                                 *)
(***************************************************************************)
Windowed == {r \in Runs : pc[r] \in {"mutate", "answered", "verify"}}
ChangedBy(W) == disturbed' = disturbed \cup (Windowed \ W)

Effects(r, d) ==
    LET t == req[r].target IN
    CASE req[r].kind = "create" -> {[d EXCEPT ![r] = Created]}
      [] req[r].kind = "delete" -> IF d[t] = 0 THEN {} ELSE {[d EXCEPT ![t] = 0]}
      [] req[r].kind = "modify" -> IF d[t] = 0 THEN {}
                                   ELSE {[d EXCEPT ![t] = x] : x \in Contents \ {d[t]}}
      [] OTHER -> {d}

\* The gateway reports the delta between its own scans.
Delta(k, status, d, e) ==
    [tx |-> k, status |-> status,
     created |-> Objects(e) \ Objects(d), deleted |-> Objects(d) \ Objects(e),
     modified |-> {i \in Objects(d) \cap Objects(e) : d[i] # e[i]}]
Idle(k, status) == Delta(k, status, doc, doc)

Answer(r, rc) ==
    /\ receipt' = [receipt EXCEPT ![r] = rc]
    /\ Goto(r, "answered")
    /\ UNCHANGED <<req, before, verdict, files, late>>

Bind(r, rc) ==
    ledger' = [ledger EXCEPT ![req[r].key] =
                   [kind |-> req[r].kind, target |-> req[r].target, receipt |-> rc]]

Unbound(r) == At(r, "mutate") /\ ledger[req[r].key] = None

\* A bound key is answered from the table, another batch under it is refused.
HostReplays(r) ==
    LET k == req[r].key  b == ledger[k] IN
    /\ At(r, "mutate") /\ b # None
    /\ Answer(r, IF <<b.kind, b.target>> = <<req[r].kind, req[r].target>>
                 THEN b.receipt ELSE Idle(k, "blocked"))
    /\ UNCHANGED <<doc, ledger, ran, disturbed, faults>>

\* A dry run, or a document that is not the one that was queried.
HostDeclines(r) ==
    /\ Unbound(r)
    /\ req[r].dry \/ doc # before[r]
    /\ LET rc == Idle(req[r].key, IF req[r].dry THEN "validated" ELSE "blocked")
       IN Bind(r, rc) /\ Answer(r, rc)
    /\ UNCHANGED <<doc, ran, disturbed, faults>>

Accepts(r) == Unbound(r) /\ ~req[r].dry /\ doc = before[r]

HostRuns(r) ==
    /\ Accepts(r)
    /\ \E e \in Effects(r, doc) :
          LET rc == Delta(req[r].key, "completed", doc, e)
          IN doc' = e /\ Bind(r, rc) /\ Answer(r, rc)
    /\ ran' = ran \cup {r}
    /\ ChangedBy({r})
    /\ UNCHANGED faults

\* "failed" stands for reconciled and unknown receipts of the gateway too: the
\* batch may have taken effect, and the orchestrator treats the three alike.
HostFails(r) ==
    /\ Accepts(r)
    /\ Fault \/ (Effects(r, doc) = {} /\ UNCHANGED faults)
    /\ \E e \in Effects(r, doc) \cup {doc} :
          LET rc == Delta(req[r].key, "failed", doc, e)
          IN doc' = e /\ Bind(r, rc) /\ Answer(r, rc)
    /\ ChangedBy({r})
    /\ UNCHANGED ran

\* The worker thread of a call that was given up sends its batch all the same.
LateEffect(r) ==
    /\ r \in late
    /\ late' = late \ {r}
    /\ doc' \in Effects(r, doc)
    /\ ChangedBy({})
    /\ UNCHANGED <<ledger, ran, files, local, faults>>

\* Somebody edits or deletes an object in the host.
ForeignEdit ==
    /\ Fault
    /\ \E i \in Objects(doc), x \in Contents \cup {0} :
          x # doc[i] /\ doc' = [doc EXCEPT ![i] = x]
    /\ ChangedBy({})
    /\ UNCHANGED <<ledger, late, ran, files, local>>

(***************************************************************************)
(* WorkflowOrchestrator.run.                                               *)
(***************************************************************************)
\* build_plan refuses a route and operations that do not fit before any call.
Start(r, q) ==
    /\ At(r, "idle")
    /\ req' = [req EXCEPT ![r] = q]
    /\ Goto(r, IF q.kind = "invalid" THEN "raised" ELSE "query")
    /\ UNCHANGED <<before, receipt, verdict, host, files, faults>>

\* The intent of the route decides.
Mutates(r) == req[r].kind \in Kinds

\* A read-only route ends here, a mutation without a key raises.
Queried(r) ==
    /\ At(r, "query")
    /\ before' = [before EXCEPT ![r] = doc]
    /\ Goto(r, IF ~Mutates(r) THEN "done" ELSE IF req[r].key = None THEN "raised" ELSE "mutate")
    /\ UNCHANGED <<req, receipt, verdict, host, files, faults>>

Receive(r) ==
    /\ At(r, "answered")
    /\ Goto(r, IF req[r].dry \/ receipt[r].status # "completed" THEN "put" ELSE "verify")
    /\ UNCHANGED <<req, before, receipt, verdict, host, files, faults>>

Seen(r, s) == Objects(s) \cap req[r].focus

\* Plausible bug: created ids are looked for in the second scene only.
Agrees_AfterOnly(r, b, a) ==
    /\ receipt[r].created \subseteq Seen(r, a)
    /\ receipt[r].deleted = Seen(r, b) \ Seen(r, a)
    /\ \A i \in receipt[r].modified \ receipt[r].created :
          i \in Seen(r, a) \cap Seen(r, b) /\ a[i] # b[i]

\* verify_transaction without the client's assertions.
Agrees(r, b, a) ==
    /\ receipt[r].created = Seen(r, a) \ Seen(r, b)
    /\ receipt[r].deleted = Seen(r, b) \ Seen(r, a)
    /\ \A i \in receipt[r].modified \ receipt[r].created :
          i \in Seen(r, a) \cap Seen(r, b) /\ a[i] # b[i]

\* The assertions of the request may fail as well.
Assertions == BOOLEAN

Verify(r) ==
    /\ At(r, "verify")
    /\ \E asserted \in Assertions :
          verdict' = [verdict EXCEPT ![r] =
                        IF asserted /\ Agrees(r, before[r], doc) THEN "verified" ELSE "failed"]
    /\ Goto(r, "put")
    /\ UNCHANGED <<req, before, receipt, host, files, faults>>

\* Plausible bug: only the query runs under a deadline.
Deadlines_QueryOnly == {"query"}

Deadlines == Awaiting

GivenUp(S) == late' = late \cup {r \in S : pc[r] = "mutate" /\ ~req[r].dry}

\* Plausible bug: the lost answer leaves no receipt of its own.
Lose_NoReceipt(r) ==
    /\ Goto(r, "put") /\ GivenUp({r})
    /\ UNCHANGED <<receipt, verdict>>

\* A lost answer of the mutation is an unknown receipt, never a retry.
Lose(r) ==
    /\ receipt' = [receipt EXCEPT ![r] = Idle(None, "unknown")]
    /\ Goto(r, "put") /\ GivenUp({r})
    /\ UNCHANGED verdict

\* Every await ends by its answer, an exception or its deadline.
Expire(r) ==
    /\ LoopFree /\ pc[r] \in Deadlines
    /\ \/ pc[r] = "query" /\ Goto(r, "raised") /\ UNCHANGED <<late, receipt, verdict>>
       \/ pc[r] \in {"mutate", "answered"} /\ Lose(r)
       \/ /\ pc[r] = "verify" /\ Goto(r, "put")
          /\ verdict' = [verdict EXCEPT ![r] = "failed"]
          /\ UNCHANGED <<late, receipt>>
    /\ UNCHANGED <<req, before, doc, ledger, ran, disturbed, files, faults>>

\* CancelledError is no Exception: nothing of the run is recorded.
Cancel(r) ==
    /\ Fault
    /\ LoopFree /\ pc[r] \in Awaiting
    /\ Goto(r, "raised") /\ GivenUp({r})
    /\ UNCHANGED <<req, before, receipt, verdict, doc, ledger, ran, disturbed, files>>

(***************************************************************************)
(* Memory and journal.  A line of the journal is the trace that reads from *)
(* it, or "garbage".  The last line may end early: "torn" text, "whole"    *)
(* text without its newline, or "cut" inside a character, after which no   *)
(* reader of the file can decode it.                                       *)
(***************************************************************************)
\* The outcome's identity has no idempotency key but the receipt's transaction.
OutcomeOf(r) ==
    [kind |-> req[r].kind, target |-> req[r].target, tx |-> receipt[r].tx,
     status |-> receipt[r].status, created |-> receipt[r].created,
     deleted |-> receipt[r].deleted, verdict |-> verdict[r]]

\* FilesystemDMLAdapter.put: an outcome is renamed into place.
Store(r) == memory' = memory \cup {OutcomeOf(r)}

Tainted(r) == req[r].tainted

\* make_trace, which refuses transcripts, then append.
ToTrace(r) == Goto(r, IF Tainted(r) THEN "raised" ELSE "append")

\* Plausible bug: a failed write of the outcome is swallowed.
Put_Swallowed(r) ==
    /\ pc[r] = "put"
    /\ \/ Store(r) /\ UNCHANGED faults
       \/ Fault /\ UNCHANGED memory
    /\ ToTrace(r)
    /\ UNCHANGED <<req, before, receipt, verdict, journal, tail, acked, damage, host>>

Put(r) ==
    /\ pc[r] = "put"
    /\ \/ Store(r) /\ ToTrace(r) /\ UNCHANGED faults
       \/ Fault /\ Goto(r, "raised") /\ UNCHANGED memory
    /\ UNCHANGED <<req, before, receipt, verdict, journal, tail, acked, damage, host>>

Lines == {journal[i] : i \in DOMAIN journal}
Decodes == tail # "cut"

\* create_outcome's status: with the default policy an outcome is promoted iff
\* it is completed and verified.
Promoted(r) ==
    receipt[r] # None /\ receipt[r].status = "completed" /\ verdict[r] = "verified"

\* Plausible bug: the first line that does not parse ends the scan.
KnownIds_ToGarbage == {journal[i] : i \in {j \in DOMAIN journal :
                                             \A h \in 1..j : journal[h] # "garbage"}}

KnownIds == Lines \ {"garbage"}
Readable == IF Decodes THEN Lines \ {"garbage"} ELSE {}

\* assess_training_quality and export_training_examples.
Accepted(r) == Promoted(r) /\ ~Tainted(r)
Examples == {r \in Readable \cap Runs : Accepted(r)}

\* The text of t reaches the end of the file up to `end`; a line that ended
\* early swallows it, together with the whole record it may have been.
Write(t, end) ==
    LET glued == tail # "clean"
        kept == IF tail = "whole" THEN SubSeq(journal, 1, Len(journal) - 1) ELSE journal
        line == IF glued THEN "garbage" ELSE t
    IN  /\ journal' = IF end = "clean" \/ (end = "whole" /\ ~glued)
                      THEN Append(kept, line) ELSE kept
        /\ tail' = IF end = "whole" /\ glued THEN "torn" ELSE end
        /\ damage' = IF end = "clean" THEN damage ELSE damage + 1

\* A short write goes unnoticed: os.write's count is not looked at.
Record(t) ==
    \/ t \in KnownIds /\ UNCHANGED <<journal, tail, acked, damage, faults>>
    \/ /\ t \notin KnownIds
       /\ \/ Write(t, "clean") /\ UNCHANGED faults
          \/ Fault /\ \E end \in EndsEarly : Write(t, end)
       /\ acked' = acked \cup {t}

AppendTrace(r) ==
    /\ pc[r] = "append"
    /\ \/ Decodes /\ Record(r) /\ Goto(r, "done")
       \/ /\ Fault \/ (~Decodes /\ UNCHANGED faults)
          /\ Goto(r, "raised") /\ UNCHANGED <<journal, tail, acked, damage>>
    /\ UNCHANGED <<req, before, receipt, verdict, memory, host>>

\* The tool flight_recorder_record.
RecordNote(n) ==
    /\ LoopFree /\ Decodes
    /\ Record(n)
    /\ UNCHANGED <<memory, host, local>>

\* The process ends, perhaps within an append, and starts again.
Crash ==
    /\ Fault
    /\ pc' = [r \in Runs |-> IF pc[r] \in Awaiting \cup Writing THEN "dead" ELSE pc[r]]
    /\ GivenUp(Runs)
    /\ ledger' = [k \in Keys |-> None]
    /\ \/ UNCHANGED <<journal, tail, damage>>
       \/ \E r \in Runs, end \in EndsEarly :
             pc[r] = "append" /\ Decodes /\ r \notin KnownIds /\ Write(r, end)
    /\ UNCHANGED <<doc, ran, disturbed, req, before, receipt, verdict, memory, acked>>

RunStep(r) ==
    \/ \E q \in Requests : Start(r, q)
    \/ Queried(r) \/ Receive(r) \/ Verify(r) \/ Put(r) \/ AppendTrace(r)
    \/ HostReplays(r) \/ HostDeclines(r) \/ HostRuns(r) \/ HostFails(r)
    \/ Expire(r)

Next ==
    \/ \E r \in Runs : RunStep(r) \/ Cancel(r) \/ LateEffect(r)
    \/ \E n \in Notes : RecordNote(n)
    \/ ForeignEdit \/ Crash

\* asyncio runs what is ready and every await has a deadline; that the host
\* answers is not assumed.
RunEnds(r) == Put(r) \/ AppendTrace(r) \/ Expire(r)
Fairness == \A r \in Runs : WF_vars(RunEnds(r))
Spec == Init /\ [][Next]_vars /\ Fairness

(***************************************************************************)
(* Properties.                                                             *)
(***************************************************************************)
\* Every variable has its type; a run that records has a receipt to record,
\* and one that waits for the host has a key and the scene it was given.
TypeOK ==
    /\ doc \in Scenes /\ ledger \in [Keys -> Bound \cup {None}] /\ late \subseteq Runs
    /\ pc \in [Runs -> {"idle"} \cup Awaiting \cup Writing \cup Ended]
    /\ req \in [Runs -> Requests \cup {None}]
    /\ before \in [Runs -> Scenes \cup {None}]
    /\ receipt \in [Runs -> Receipts \cup {None}]
    /\ verdict \in [Runs -> {"not_run", "failed", "verified"}]
    /\ journal \in Seq(Runs \cup Notes \cup {"garbage"})
    /\ tail \in {"clean"} \cup EndsEarly
    /\ acked \subseteq Runs \cup Notes
    /\ faults \in 0..MaxFaults /\ damage \in 0..faults
    /\ ran \subseteq Runs /\ disturbed \subseteq Runs
    /\ \A r \in Runs : pc[r] # "idle" => req[r] # None
    /\ \A r \in Runs : pc[r] \in {"mutate", "answered", "verify"} =>
          req[r].key # None /\ Mutates(r) /\ before[r] # None
    /\ \A r \in Runs : pc[r] \in {"answered", "verify"} \cup Writing => receipt[r] # None

\* A run whose outcome is promoted or trained on, and whose receipt claims
\* a change, ran its batch itself unless somebody else changed the document
\* between its two queries: an earlier receipt replayed from the table of keys
\* does not verify (verify_transaction against two scenes of its own).
VerifiedMeansDone ==
    \A r \in Runs :
        /\ Promoted(r) \/ r \in Examples
        /\ receipt[r].created \cup receipt[r].deleted \cup receipt[r].modified # {}
        /\ r \notin disturbed
        => r \in ran

\* A mutation whose caller was given a status has its outcome in the memory
\* and its trace acknowledged, and no trace of a run is in the journal without
\* the outcome it is the evidence of, crashes included (_finish's order).
EvidenceKept ==
    \A r \in Runs :
        /\ pc[r] = "done" /\ Mutates(r) => r \in acked
        /\ r \in acked \cup Lines => OutcomeOf(r) \in memory

\* No trace is in the journal twice, although clients record again and lines
\* are damaged; and as long as the file decodes, an incomplete write costs at
\* most two acknowledged traces, its own and the next (append, _known_ids, read).
RecordedOnce ==
    \A i, j \in DOMAIN journal : journal[i] = journal[j] /\ journal[i] # "garbage" => i = j
DamageIsBounded == Decodes => Cardinality(acked \ Readable) <= 2 * damage
JournalIsSound == RecordedOnce /\ DamageIsBounded

\* Every run ends, whatever the host, the disk and the client do.
EveryRunEnds == \A r \in Runs : pc[r] # "idle" ~> pc[r] \in Ended
=============================================================================
