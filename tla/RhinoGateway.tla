---------------------------- MODULE RhinoGateway ----------------------------
(***************************************************************************)
(* The direct Rhino gateway (rhinomcp_transport.py): concurrent coroutines *)
(* call execute_operations, scene_index and the three visits (viewport,    *)
(* export, open); one asyncio lock serialises them; every mutating command *)
(* is sent once to the RhinoMCP plug-in by a worker thread; receipts are   *)
(* kept per idempotency key for the life of the process and concurrent     *)
(* callers of one key share a future.                                      *)
(*                                                                         *)
(* A coroutine step is what runs between two awaits.  A scene is the       *)
(* function from live object ids to content versions: document_revision is *)
(* a hash of it, so two revisions are equal iff the scenes are.            *)
(***************************************************************************)
EXTENDS Naturals, Sequences, FiniteSets

CONSTANTS
    Calls,           \* coroutines running execute_operations, each once
    Queries,         \* coroutines running scene_index, each once
    Visits,          \* coroutines running one of VisitKinds, each once
    KindOf,          \* KindOf[v]: the kind of visit v
    Keys,            \* idempotency keys
    KeyOf,           \* KeyOf[c]: the key call c is made with, or None
    Payloads,        \* distinct operation batches (fingerprints)
    Commands,        \* Commands[p]: what compile_rhinomcp_commands makes of p
    Unmapped,        \* payloads for which it raises RhinoMCPMappingError
    Ids,             \* object GUIDs
    InitialObjects,  \* the objects of the document before the first call
    SavedScene,      \* the working document a visit may open
    Aliases,         \* "$name" bindings used inside a batch
    Faults,          \* which of FaultKinds the environment may produce
    MaxEdits,        \* bound on edits made in Rhino by somebody else
    MaxObjects,      \* the max_objects of scene_index
    None             \* absent key, revision, lock owner

FaultKinds == {"error",         \* connection refused, command rejected
               "unreadable",    \* a read fails after its two attempts
               "incompatible",  \* the plug-in lacks the protocol or a command
               "loss",          \* the response of a sent write is lost
               "malformed",     \* the response of a write is not usable
               "cancel",        \* the caller's timeout cancels the coroutine
               "external"}      \* somebody edits the document in Rhino

VisitKinds == {"viewport", "export", "open"}

Tasks == Calls \cup Queries \cup Visits
IsScene(s) == DOMAIN s \subseteq Ids /\ s \in [DOMAIN s -> Nat]

CommandOps == {"create", "derive", "transform", "update", "delete"}
Command == [op : CommandOps, bind : Aliases, target : Ids \cup Aliases \cup {None}]

ASSUME GatewayAssumption ==
    /\ None \notin Tasks \cup Keys \cup Aliases \cup Ids
    /\ Calls \cap (Queries \cup Visits) = {} /\ Queries \cap Visits = {}
    /\ KindOf \in [Visits -> VisitKinds]
    /\ IsScene(SavedScene)
    /\ KeyOf \in [Calls -> Keys \cup {None}]
    /\ Commands \in [Payloads -> Seq(Command) \ {<<>>}]
    /\ Payloads # {} /\ Unmapped \subseteq Payloads
    /\ InitialObjects \subseteq Ids
    /\ Ids \cap Aliases = {}
    /\ Faults \subseteq FaultKinds
    /\ IsFiniteSet(Ids)
    /\ MaxEdits \in Nat
    /\ MaxObjects \in Nat \ {0} /\ Cardinality(Ids) < MaxObjects

\* A "$name" names an operation before its own (_targets).
RefersBack(script, n) ==
    script[n].target \in Aliases =>
        \E m \in 1..(n - 1) : script[m].bind = script[n].target /\ script[m].bind # script[n].bind

\* Commands of one name come from one operation with several targets.
NamesOneOperation(script, m, n) ==
    \A k \in m..n : script[k].bind = script[m].bind /\ script[k].op = script[m].op

\* What normalize_operations lets through.
Normalized(script) ==
    \A n \in DOMAIN script :
        /\ RefersBack(script, n)
        /\ \A m \in 1..n : script[m].bind = script[n].bind => NamesOneOperation(script, m, n)

ASSUME BatchAssumption == \A p \in Payloads : Normalized(Commands[p])

VARIABLES
    doc,       \* the active Rhino document: live id -> content version
    born,      \* every id Rhino has ever assigned
    orphans,   \* writes nobody waits for any more and Rhino may still run
    edits,     \* edits made by somebody else so far
    active,    \* the visit whose document is open, None for the first one
    file,      \* the file exports write: None or the scene in it
    lock,      \* self._lock: its holder
    receipts,  \* self._receipts: key -> receipt
    inflight,  \* self._inflight: key -> the call that owns the future
    future,    \* call -> the owner of the future it awaits
    cache,     \* self._scene_cache and its capacity
    pc,        \* where each coroutine is suspended
    req,       \* the arguments of each call
    work,      \* the locals of each _execute_once
    wire,      \* task -> the write its worker thread is performing
    result,    \* call -> the receipt it returned
    seen,      \* query -> the scene it returned
    applied,   \* history: commands Rhino ran for each call
    effects    \* history: ids Rhino created, changed or deleted for each call

host == <<doc, born, orphans, edits, active, file>>
gateway == <<lock, receipts, inflight, cache>>
calls == <<pc, req, work, wire, future, result, seen>>
history == <<applied, effects>>
vars == <<host, gateway, calls, history>>

----------------------------------------------------------------------------
(* Values *)

Empty == [x \in {} |-> x]
NoScene == [scene |-> Empty, capacity |-> 0]

Statuses == {"validated", "blocked", "failed", "completed", "reconciled", "unknown"}
Receipt == [status : Statuses, payload : Payloads, by : Calls,
            created : SUBSET Ids, modified : SUBSET Ids, deleted : SUBSET Ids]

Waiting == {"locking", "waiting"}
Locked == {"capabilities", "before", "sent", "after", "indexing", "checking"}
Ended == {"returned", "replayed", "conflict", "raised", "cancelled"}

\* dict[key] = value and dict.pop(key)
Put(f, x, v) == [y \in DOMAIN f \cup {x} |-> IF y = x THEN v ELSE f[y]]
Drop(f, x) == [y \in DOMAIN f \ {x} |-> f[y]]

Binds(cmd) == cmd.op \in {"create", "derive", "transform"}
ReportsOneId(cmd) == cmd.op \in {"create", "transform"}
Edits(cmd) == cmd.op \in {"update", "transform"}

Script(c) == Commands[req[c].payload]
Position(c) == work[c].done + 1
Bound(aliases) == UNION {aliases[a] : a \in Aliases}

\* _resolve_aliases for a scalar parameter: exactly one object, or an error.
\* A create names no object: its target is None.
Resolvable(target, aliases) ==
    target \in Aliases => \E i \in Ids : aliases[target] = {i}
Resolve(target, aliases) ==
    IF target \in Aliases THEN CHOOSE i \in Ids : aliases[target] = {i} ELSE target

Blank == [before |-> Empty, aliases |-> [a \in Aliases |-> {}], done |-> 0,
          edited |-> {}, removed |-> {}, trouble |-> "none"]

Init ==
    /\ doc = [i \in InitialObjects |-> 1]
    /\ born = InitialObjects
    /\ orphans = {}
    /\ edits = 0
    /\ active = None
    /\ file = None
    /\ lock = None
    /\ receipts = Empty
    /\ inflight = Empty
    /\ future = Empty
    /\ cache = NoScene
    /\ pc = [t \in Tasks |-> "idle"]
    /\ req = [c \in Calls |-> [key |-> KeyOf[c], payload |-> CHOOSE p \in Payloads : TRUE,
                               dry_run |-> TRUE, revision |-> None]]
    /\ work = [c \in Calls |-> Blank]
    /\ wire = Empty
    /\ result = Empty
    /\ seen = Empty
    /\ applied = [c \in Calls |-> 0]
    /\ effects = [c \in Calls |-> {}]

----------------------------------------------------------------------------
(* How a call ends: every step below runs without an await *)

NewReceipt(c, payload, status, created, modified, deleted) ==
    [status |-> status, payload |-> payload, by |-> c,
     created |-> created, modified |-> modified, deleted |-> deleted]

Return_StoresKeyless(c, key, receipt) ==
    /\ receipts' = Put(receipts, key, receipt)
    /\ inflight' = Drop(inflight, key)
    /\ result' = Put(result, c, receipt)

Return_DropsFailures(c, key, receipt) ==
    /\ receipts' = IF key = None \/ receipt.status \in {"failed", "unknown"}
                   THEN receipts ELSE Put(receipts, key, receipt)
    /\ inflight' = Drop(inflight, key)
    /\ result' = Put(result, c, receipt)

\* The receipt of a keyed call is stored, whatever its status, and its future
\* leaves the in-flight table.
Return(c, key, receipt) ==
    /\ receipts' = IF key = None THEN receipts ELSE Put(receipts, key, receipt)
    /\ inflight' = Drop(inflight, key)
    /\ result' = Put(result, c, receipt)

\* The locals die with the coroutine, but for the count the receipt reports.
Forget(c) == work' = [work EXCEPT ![c] = [Blank EXCEPT !.done = work[c].done]]

\* An exception leaves no receipt; the future gets the exception.
Abandon(c) ==
    /\ inflight' = IF req[c].key \in DOMAIN inflight /\ inflight[req[c].key] = c
                   THEN Drop(inflight, req[c].key) ELSE inflight
    /\ UNCHANGED <<receipts, result>>

\* asyncio.to_thread is not cancellable: a write that has not been answered
\* when its caller stops waiting may still be run by Rhino.
StopWaiting(c) ==
    /\ orphans' = IF c \in DOMAIN wire /\ wire[c].answer = "none"
                  THEN orphans \cup {[by |-> c, op |-> wire[c].op, target |-> wire[c].target]}
                  ELSE orphans
    /\ wire' = Drop(wire, c)

----------------------------------------------------------------------------
(* execute_operations up to its first await *)

\* A caller passes no revision or the one it has just read; a dry run returns
\* before the revision is looked at.
Arguments(c) ==
    [key : {KeyOf[c]}, payload : Payloads, dry_run : {TRUE}, revision : {None}]
    \cup [key : {KeyOf[c]}, payload : Payloads, dry_run : {FALSE}, revision : {None, doc}]

ReplayReceipt_AnyPayload(c, a) ==
    /\ pc[c] = "idle"
    /\ a.key \in DOMAIN receipts
    /\ pc' = [pc EXCEPT ![c] = "replayed"]
    /\ req' = [req EXCEPT ![c] = a]
    /\ result' = Put(result, c, receipts[a.key])
    /\ UNCHANGED <<host, gateway, work, wire, future, seen, history>>

ReplayReceipt(c, a) ==
    /\ pc[c] = "idle"
    /\ a.key \in DOMAIN receipts
    /\ pc' = [pc EXCEPT ![c] = IF receipts[a.key].payload = a.payload
                               THEN "replayed" ELSE "conflict"]
    /\ req' = [req EXCEPT ![c] = a]
    /\ result' = Put(result, c, receipts[a.key])
    /\ UNCHANGED <<host, gateway, work, wire, future, seen, history>>

JoinInflight(c, a) ==
    /\ pc[c] = "idle"
    /\ a.key \notin DOMAIN receipts
    /\ a.key \in DOMAIN inflight
    /\ pc' = [pc EXCEPT ![c] = "waiting"]
    /\ req' = [req EXCEPT ![c] = a]
    /\ future' = Put(future, c, inflight[a.key])
    /\ UNCHANGED <<host, gateway, work, wire, result, seen, history>>

NewKey_IgnoresInflight(key) == key \notin DOMAIN receipts
NewKey_IgnoresReceipts(key) == key \notin DOMAIN inflight
NewKey(key) == key \notin DOMAIN receipts /\ key \notin DOMAIN inflight

\* No command for an operation, or only a dry run: answered at once.
AnswerWithoutHost(c, a) ==
    /\ pc[c] = "idle"
    /\ NewKey(a.key)
    /\ a.payload \in Unmapped \/ a.dry_run
    /\ pc' = [pc EXCEPT ![c] = "returned"]
    /\ req' = [req EXCEPT ![c] = a]
    /\ Return(c, a.key,
              NewReceipt(c, a.payload, IF a.payload \in Unmapped THEN "blocked" ELSE "validated",
                         {}, {}, {}))
    /\ UNCHANGED <<host, lock, cache, work, wire, future, seen, history>>

BeginExecution(c, a) ==
    /\ pc[c] = "idle"
    /\ NewKey(a.key)
    /\ a.payload \notin Unmapped /\ ~a.dry_run
    /\ pc' = [pc EXCEPT ![c] = "locking"]
    /\ req' = [req EXCEPT ![c] = a]
    /\ inflight' = IF a.key = None THEN inflight ELSE Put(inflight, a.key, c)
    /\ UNCHANGED <<host, lock, receipts, cache, work, wire, future, result, seen, history>>

\* asyncio.shield(future): the waiter gets the owner's receipt or exception.
ResumeWaiter(c) ==
    LET owner == future[c] IN
    /\ pc[c] = "waiting"
    /\ pc[owner] \in Ended
    /\ IF pc[owner] = "returned"
       THEN /\ pc' = [pc EXCEPT ![c] = IF result[owner].payload = req[c].payload
                                       THEN "replayed" ELSE "conflict"]
            /\ result' = Put(result, c, result[owner])
       ELSE /\ pc' = [pc EXCEPT ![c] = pc[owner]]
            /\ UNCHANGED result
    /\ UNCHANGED <<host, gateway, req, work, wire, future, seen, history>>

----------------------------------------------------------------------------
(* Rhino: one command at a time, in any order between connections *)

CanRun(op, target, i) ==
    /\ op \in {"create", "derive"} => i \notin born
    /\ op # "create" => target \in DOMAIN doc
    /\ Edits([op |-> op]) \/ op = "delete" => i = target

Run(op, i) ==
    /\ doc' = IF op = "delete" THEN Drop(doc, i)
              ELSE Put(doc, i, IF i \in DOMAIN doc THEN doc[i] + 1 ELSE 1)
    /\ born' = born \cup {i}

Credit(c, i) ==
    /\ applied' = [applied EXCEPT ![c] = @ + 1]
    /\ effects' = [effects EXCEPT ![c] = @ \cup {i}]

RunSentCommand(c) ==
    /\ pc[c] = "sent"
    /\ wire[c].answer = "none"
    /\ \E i \in Ids :
          /\ CanRun(wire[c].op, wire[c].target, i)
          /\ Run(wire[c].op, i)
          /\ Credit(c, i)
          /\ wire' = [wire EXCEPT ![c].answer = "ok", ![c].id = i]
    /\ UNCHANGED <<orphans, edits, active, file, gateway, pc, req, work, future, result, seen>>

\* A write whose caller has gone.
RunOrphan(o) ==
    /\ o.by \in Calls
    /\ \E i \in Ids :
          /\ CanRun(o.op, o.target, i)
          /\ Run(o.op, i)
          /\ Credit(o.by, i)
    /\ orphans' = orphans \ {o}
    /\ UNCHANGED <<edits, active, file, gateway, calls>>

EditDocument(op, i) ==
    /\ "external" \in Faults
    /\ edits < MaxEdits
    /\ CanRun(op, i, i)
    /\ Run(op, i)
    /\ edits' = edits + 1
    /\ UNCHANGED <<orphans, active, file, gateway, calls, history>>

----------------------------------------------------------------------------
(* _execute_once inside the lock *)

AcquireLock_Unguarded(c) ==
    /\ pc[c] = "locking"
    /\ lock' = c
    /\ cache' = NoScene
    /\ pc' = [pc EXCEPT ![c] = "capabilities"]
    /\ UNCHANGED <<host, receipts, inflight, req, work, wire, future, result, seen, history>>

AcquireLock_KeepsCache(c) ==
    /\ pc[c] = "locking"
    /\ lock = None
    /\ lock' = c
    /\ pc' = [pc EXCEPT ![c] = "capabilities"]
    /\ UNCHANGED <<host, receipts, inflight, cache, req, work, wire, future, result, seen, history>>

AcquireLock(c) ==
    /\ pc[c] = "locking"
    /\ lock = None
    /\ lock' = c
    /\ cache' = NoScene
    /\ pc' = [pc EXCEPT ![c] = "capabilities"]
    /\ UNCHANGED <<host, receipts, inflight, req, work, wire, future, result, seen, history>>

\* What _execute_once does once `locals` holds everything learnt so far: send
\* the next command, or read the scene again when there is none or when the
\* next command names an alias that is not bound to one object.
Proceed(c, locals) ==
    LET next == Script(c)[locals.done + 1] IN
    IF locals.done = Len(Script(c))
    THEN /\ pc' = [pc EXCEPT ![c] = "after"]
         /\ work' = [work EXCEPT ![c] = locals]
         /\ wire' = Drop(wire, c)
    ELSE IF Resolvable(next.target, locals.aliases)
    THEN /\ pc' = [pc EXCEPT ![c] = "sent"]
         /\ work' = [work EXCEPT ![c] = locals]
         /\ wire' = Put(wire, c, [op |-> next.op, target |-> Resolve(next.target, locals.aliases),
                                  answer |-> "none", id |-> None])
    ELSE /\ pc' = [pc EXCEPT ![c] = "after"]
         /\ work' = [work EXCEPT ![c] = [locals EXCEPT !.trouble = "failed"]]
         /\ wire' = Drop(wire, c)

ReadCapabilities(c) ==
    /\ pc[c] = "capabilities"
    /\ pc' = [pc EXCEPT ![c] = "before"]
    /\ UNCHANGED <<host, gateway, req, work, wire, future, result, seen, history>>

BlockedReceipt(c) == NewReceipt(c, req[c].payload, "blocked", {}, {}, {})

RefuseIncompatiblePlugin(c) ==
    /\ pc[c] = "capabilities"
    /\ "incompatible" \in Faults
    /\ lock' = None
    /\ pc' = [pc EXCEPT ![c] = "returned"]
    /\ Return(c, req[c].key, BlockedReceipt(c))
    /\ UNCHANGED <<host, cache, req, work, wire, future, seen, history>>

RevisionMatches_Unchecked(c) == TRUE
RevisionMatches(c) == req[c].revision = None \/ req[c].revision = doc

ReadBefore(c) ==
    /\ pc[c] = "before"
    /\ RevisionMatches(c)
    /\ Proceed(c, [Blank EXCEPT !.before = doc])
    /\ UNCHANGED <<host, gateway, req, future, result, seen, history>>

RefuseStaleRevision(c) ==
    /\ pc[c] = "before"
    /\ ~RevisionMatches(c)
    /\ lock' = None
    /\ pc' = [pc EXCEPT ![c] = "returned"]
    /\ Return(c, req[c].key, BlockedReceipt(c))
    /\ UNCHANGED <<host, cache, req, work, wire, future, seen, history>>

\* A usable answer: bind the reported id, remember what the command named.
Learnt(c) ==
    LET cmd == Script(c)[Position(c)]
        sent == wire[c]
        old == work[c]
    IN [before |-> old.before,
        done |-> old.done + 1,
        aliases |-> IF Binds(cmd) THEN [old.aliases EXCEPT ![cmd.bind] = @ \cup {sent.id}]
                    ELSE old.aliases,
        edited |-> IF Edits(cmd) THEN old.edited \cup {sent.target} ELSE old.edited,
        removed |-> IF cmd.op = "delete" THEN old.removed \cup {sent.target} ELSE old.removed,
        trouble |-> old.trouble]

ReceiveResult(c) ==
    /\ pc[c] = "sent"
    /\ wire[c].answer = "ok"
    /\ Proceed(c, Learnt(c))
    /\ UNCHANGED <<host, gateway, req, future, result, seen, history>>

Interrupt(c, trouble) ==
    /\ pc' = [pc EXCEPT ![c] = "after"]
    /\ work' = [work EXCEPT ![c].trouble = trouble]

\* RhinoMCPCommandError (Rhino refuses), or RhinoMCPTransportError before
\* anything was sent.
CommandFails(c) ==
    /\ pc[c] = "sent"
    /\ wire[c].answer = "none"
    /\ "error" \in Faults \/ ~\E i \in Ids : CanRun(wire[c].op, wire[c].target, i)
    /\ Interrupt(c, "failed")
    /\ wire' = Drop(wire, c)
    /\ UNCHANGED <<host, gateway, req, future, result, seen, history>>

\* RhinoMCPTransportError for a write Rhino has run: a bad frame header, an
\* envelope or a result that is no object, a result without the id to bind.
AnswerIsMalformed(c) ==
    /\ pc[c] = "sent"
    /\ wire[c].answer = "ok" /\ "malformed" \in Faults
    /\ Interrupt(c, "failed")
    /\ wire' = Drop(wire, c)
    /\ UNCHANGED <<host, gateway, req, future, result, seen, history>>

LoseResponse_SendsAgain(c) ==
    /\ pc[c] = "sent"
    /\ "loss" \in Faults
    /\ wire' = [wire EXCEPT ![c].answer = "none"]
    /\ UNCHANGED <<host, gateway, pc, req, work, future, result, seen, history>>

\* RhinoMCPAmbiguousWrite: sent, then a timeout, a reset or undecodable JSON.
LoseResponse(c) ==
    /\ pc[c] = "sent"
    /\ "loss" \in Faults
    /\ Interrupt(c, "ambiguous")
    /\ StopWaiting(c)
    /\ UNCHANGED <<doc, born, edits, active, file, gateway, req, future, result, seen, history>>

----------------------------------------------------------------------------
(* The second scene read and the receipt *)

CreatedIds(before, after) == DOMAIN after \ DOMAIN before
DeletedIds(before, after) == DOMAIN before \ DOMAIN after
ModifiedIds(before, after) ==
    {i \in DOMAIN before \cap DOMAIN after : before[i] # after[i]}

\* A lost response that would have reported one id is recovered when exactly
\* one created object is not yet bound.
OutputIds(c) ==
    LET aliases == work[c].aliases
        candidates == CreatedIds(work[c].before, doc) \ Bound(aliases)
        cmd == Script(c)[Position(c)]
    IN IF /\ work[c].trouble = "ambiguous"
          /\ ReportsOneId(cmd)
          /\ Cardinality(candidates) = 1
       THEN Bound([aliases EXCEPT ![cmd.bind] = candidates])
       ELSE Bound(aliases)

Verified(c) ==
    LET after == doc
        outputs == OutputIds(c)
    IN /\ outputs # {} \/ \A n \in DOMAIN Script(c) : ~Binds(Script(c)[n])
       /\ outputs \cup work[c].edited \subseteq DOMAIN after
       /\ work[c].edited \subseteq ModifiedIds(work[c].before, after)
       /\ work[c].removed \cap DOMAIN after = {}

Verdict(c) ==
    IF work[c].trouble = "failed" THEN "failed"
    ELSE IF ~Verified(c) THEN "unknown"
    ELSE IF work[c].trouble = "ambiguous" THEN "reconciled" ELSE "completed"

ReadAfter(c) ==
    LET before == work[c].before IN
    /\ pc[c] = "after"
    /\ cache' = [scene |-> doc, capacity |-> Cardinality(DOMAIN doc)]
    /\ lock' = None
    /\ pc' = [pc EXCEPT ![c] = "returned"]
    /\ Return(c, req[c].key,
              NewReceipt(c, req[c].payload, Verdict(c), CreatedIds(before, doc),
                         ModifiedIds(before, doc), DeletedIds(before, doc)))
    /\ Forget(c)
    /\ UNCHANGED <<host, req, wire, future, seen, history>>

ReadFails_KeepsLock(c) ==
    /\ pc[c] \in {"capabilities", "before", "after"}
    /\ "unreadable" \in Faults
    /\ pc' = [pc EXCEPT ![c] = "raised"]
    /\ Abandon(c)
    /\ Forget(c)
    /\ UNCHANGED <<host, lock, cache, req, wire, future, seen, history>>

\* Any of the three reads may fail twice: the exception leaves no receipt.
ReadFails(c) ==
    /\ pc[c] \in {"capabilities", "before", "after"}
    /\ "unreadable" \in Faults
    /\ lock' = None
    /\ pc' = [pc EXCEPT ![c] = "raised"]
    /\ Abandon(c)
    /\ Forget(c)
    /\ UNCHANGED <<host, cache, req, wire, future, seen, history>>

\* The MCP caller or the orchestrator's stage timeout cancels the coroutine:
\* the lock and the future go, the worker thread does not.
CancelCall(c) ==
    /\ pc[c] \in Waiting \cup Locked
    /\ "cancel" \in Faults
    /\ lock' = IF lock = c THEN None ELSE lock
    /\ pc' = [pc EXCEPT ![c] = "cancelled"]
    /\ Abandon(c)
    /\ StopWaiting(c)
    /\ Forget(c)
    /\ UNCHANGED <<doc, born, edits, active, file, cache, req, future, seen, history>>

----------------------------------------------------------------------------
(* scene_index *)

StartQuery(q) ==
    /\ pc[q] = "idle"
    /\ pc' = [pc EXCEPT ![q] = "locking"]
    /\ UNCHANGED <<host, gateway, req, work, wire, future, result, seen, history>>

\* The cached scene was read with at least this capacity and is young enough.
AnswerFromCache(q) ==
    /\ pc[q] = "locking"
    /\ lock = None
    /\ cache.capacity >= MaxObjects
    /\ pc' = [pc EXCEPT ![q] = "returned"]
    /\ seen' = Put(seen, q, cache.scene)
    /\ UNCHANGED <<host, gateway, req, work, wire, future, result, history>>

LockForIndex(q) ==
    /\ pc[q] = "locking"
    /\ lock = None
    /\ lock' = q
    /\ pc' = [pc EXCEPT ![q] = "indexing"]
    /\ UNCHANGED <<host, receipts, inflight, cache, req, work, wire, future, result, seen, history>>

IndexScene(q) ==
    /\ pc[q] = "indexing"
    /\ cache' = [scene |-> doc, capacity |-> MaxObjects]
    /\ seen' = Put(seen, q, doc)
    /\ lock' = None
    /\ pc' = [pc EXCEPT ![q] = "returned"]
    /\ UNCHANGED <<host, receipts, inflight, req, work, wire, future, result, history>>

IndexFails(q) ==
    /\ pc[q] \in {"locking", "indexing"}
    /\ \/ "cancel" \in Faults
       \/ "unreadable" \in Faults /\ pc[q] = "indexing"
    /\ lock' = IF lock = q THEN None ELSE lock
    /\ pc' = [pc EXCEPT ![q] = "raised"]
    /\ UNCHANGED <<host, receipts, inflight, cache, req, work, wire, future, result, seen, history>>

----------------------------------------------------------------------------
(* viewport_command, export_scene and open_working_document: one command    *)
(* under the lock, no receipt                                               *)

\* An export looks for its file before it waits for the lock.
StartVisit(v) ==
    /\ pc[v] = "idle"
    /\ pc' = [pc EXCEPT ![v] = IF KindOf[v] = "export" /\ file # None THEN "raised" ELSE "locking"]
    /\ UNCHANGED <<host, gateway, req, work, wire, future, result, seen, history>>

LockForVisit_Unguarded(v) ==
    /\ pc[v] = "locking"
    /\ lock' = v
    /\ pc' = [pc EXCEPT ![v] = "capabilities"]
    /\ UNCHANGED <<host, receipts, inflight, cache, req, work, wire, future, result, seen, history>>

LockForVisit(v) ==
    /\ pc[v] = "locking"
    /\ lock = None
    /\ lock' = v
    /\ pc' = [pc EXCEPT ![v] = "capabilities"]
    /\ UNCHANGED <<host, receipts, inflight, cache, req, work, wire, future, result, seen, history>>

AskRhino(v) ==
    /\ pc[v] = "capabilities"
    /\ pc' = [pc EXCEPT ![v] = "sent"]
    /\ wire' = Put(wire, v, [op |-> KindOf[v], target |-> None, answer |-> "none", id |-> None])
    /\ UNCHANGED <<host, gateway, req, work, future, result, seen, history>>

\* What Rhino does for a visit; looking at the viewport changes no object.
Perform(v) ==
    /\ doc' = IF KindOf[v] = "open" THEN SavedScene ELSE doc
    /\ born' = born \cup DOMAIN doc'
    /\ active' = IF KindOf[v] = "open" THEN v ELSE active
    /\ file' = IF KindOf[v] = "export" THEN doc ELSE file

RunVisit(v) ==
    /\ pc[v] = "sent"
    /\ wire[v].answer = "none"
    /\ Perform(v)
    /\ wire' = [wire EXCEPT ![v].answer = "ok"]
    /\ UNCHANGED <<orphans, edits, gateway, pc, req, work, future, result, seen, history>>

\* A visit whose caller has gone.
RunOrphanVisit(o) ==
    /\ o.by \in Visits
    /\ Perform(o.by)
    /\ orphans' = orphans \ {o}
    /\ UNCHANGED <<edits, gateway, calls, history>>

\* `async with self._lock` is left, with a result or an exception.
LeaveVisit(v, outcome) ==
    /\ lock' = IF lock = v THEN None ELSE lock
    /\ pc' = [pc EXCEPT ![v] = outcome]

ReceiveVisit_KeepsCache(v) ==
    /\ pc[v] = "sent"
    /\ wire[v].answer = "ok"
    /\ LeaveVisit(v, "returned")
    /\ wire' = Drop(wire, v)
    /\ UNCHANGED <<host, receipts, inflight, cache, req, work, future, result, seen, history>>

ReceiveVisit(v) ==
    /\ pc[v] = "sent"
    /\ wire[v].answer = "ok"
    /\ LeaveVisit(v, "returned")
    /\ cache' = IF KindOf[v] = "open" THEN NoScene ELSE cache
    /\ wire' = Drop(wire, v)
    /\ UNCHANGED <<host, receipts, inflight, req, work, future, result, seen, history>>

\* A lost answer: an export is judged by its file, an open document by the
\* summary read next, a viewport command not at all.
LoseVisit(v) ==
    /\ pc[v] = "sent"
    /\ "loss" \in Faults
    /\ CASE KindOf[v] = "open" -> pc' = [pc EXCEPT ![v] = "checking"] /\ UNCHANGED lock
         [] KindOf[v] = "export" /\ file # None -> LeaveVisit(v, "returned")
         [] OTHER -> LeaveVisit(v, "raised")
    /\ StopWaiting(v)
    /\ UNCHANGED <<doc, born, edits, active, file, receipts, inflight, cache, req, work, future,
                    result, seen, history>>

CheckOpened(v) ==
    /\ pc[v] = "checking"
    /\ LeaveVisit(v, IF active = v THEN "returned" ELSE "raised")
    /\ cache' = IF active = v THEN NoScene ELSE cache
    /\ UNCHANGED <<host, receipts, inflight, req, work, wire, future, result, seen, history>>

\* A failed read, a command Rhino does not advertise or refuses, or an answer
\* without the path: the exception leaves the scene cache as it is.
VisitFails(v) ==
    /\ \/ pc[v] \in {"capabilities", "checking"} /\ "unreadable" \in Faults
       \/ pc[v] = "capabilities" /\ "incompatible" \in Faults
       \/ pc[v] = "sent" /\ wire[v].answer = "none" /\ "error" \in Faults
       \/ pc[v] = "sent" /\ wire[v].answer = "ok" /\ "malformed" \in Faults
    /\ LeaveVisit(v, "raised")
    /\ wire' = Drop(wire, v)
    /\ UNCHANGED <<host, receipts, inflight, cache, req, work, future, result, seen, history>>

CancelVisit(v) ==
    /\ pc[v] \in {"locking"} \cup Locked
    /\ "cancel" \in Faults
    /\ LeaveVisit(v, "cancelled")
    /\ StopWaiting(v)
    /\ UNCHANGED <<doc, born, edits, active, file, receipts, inflight, cache, req, work, future,
                    result, seen, history>>

----------------------------------------------------------------------------
(* The system *)

CallStep(c) ==
    \/ ResumeWaiter(c)
    \/ AcquireLock(c) \/ ReadCapabilities(c) \/ RefuseIncompatiblePlugin(c)
    \/ ReadBefore(c) \/ RefuseStaleRevision(c)
    \/ RunSentCommand(c) \/ ReceiveResult(c)
    \/ CommandFails(c) \/ AnswerIsMalformed(c) \/ LoseResponse(c)
    \/ ReadAfter(c) \/ ReadFails(c)

QueryStep(q) == AnswerFromCache(q) \/ LockForIndex(q) \/ IndexScene(q) \/ IndexFails(q)

VisitStep(v) ==
    \/ LockForVisit(v) \/ AskRhino(v) \/ RunVisit(v) \/ ReceiveVisit(v)
    \/ LoseVisit(v) \/ CheckOpened(v) \/ VisitFails(v)

Invoke(c, a) ==
    ReplayReceipt(c, a) \/ JoinInflight(c, a) \/ AnswerWithoutHost(c, a) \/ BeginExecution(c, a)

\* The coroutines of this run are over; nothing more happens by itself.
AllEnded == (\A t \in Tasks : pc[t] \in Ended) /\ UNCHANGED vars

Next ==
    \/ \E c \in Calls : \E a \in Arguments(c) : Invoke(c, a)
    \/ \E c \in Calls : CallStep(c) \/ CancelCall(c)
    \/ \E q \in Queries : StartQuery(q) \/ QueryStep(q)
    \/ \E v \in Visits : StartVisit(v) \/ VisitStep(v) \/ CancelVisit(v)
    \/ \E o \in orphans : RunOrphan(o) \/ RunOrphanVisit(o)
    \/ \E op \in {"create", "update", "delete"}, i \in Ids : EditDocument(op, i)
    \/ AllEnded

Spec == Init /\ [][Next]_vars

\* asyncio runs every ready coroutine, asyncio.Lock wakes its waiters in turn
\* and every transport call ends within its timeout.
FairSpec ==
    /\ Spec
    /\ \A c \in Calls : WF_vars(CallStep(c))
    /\ \A q \in Queries : WF_vars(QueryStep(q))
    /\ \A v \in Visits : WF_vars(VisitStep(v))

----------------------------------------------------------------------------
(* Properties *)

TypeOK ==
    /\ IsScene(doc) /\ born \in SUBSET Ids /\ edits \in Nat
    /\ orphans \subseteq [by : Calls \cup Visits, op : CommandOps \cup VisitKinds,
                          target : Ids \cup {None}]
    /\ active \in Visits \cup {None} /\ (file # None => IsScene(file))
    /\ lock \in Tasks \cup {None}
    /\ DOMAIN receipts \subseteq Keys /\ \A k \in DOMAIN receipts : receipts[k] \in Receipt
    /\ DOMAIN inflight \subseteq Keys /\ \A k \in DOMAIN inflight : inflight[k] \in Calls
    /\ IsScene(cache.scene) /\ cache.capacity \in Nat
    /\ pc \in [Tasks -> {"idle"} \cup Waiting \cup Locked \cup Ended]
    /\ DOMAIN wire \subseteq Calls \cup Visits /\ DOMAIN future \subseteq Calls
    /\ DOMAIN result \subseteq Calls /\ \A c \in DOMAIN result : result[c] \in Receipt
    /\ \A q \in DOMAIN seen : q \in Queries /\ IsScene(seen[q])
    /\ applied \in [Calls -> Nat] /\ effects \in [Calls -> SUBSET Ids]

SameKey(c, d) == req[c].key # None /\ req[c].key = req[d].key

\* The gateway implements the ledger its callers rely on: a key gets one
\* outcome, once, and every answer given under it is that outcome.
Outcome(receipt) == [payload |-> receipt.payload, status |-> receipt.status]
Ledger == INSTANCE IdempotentLedger WITH
    Outcomes <- [payload : Payloads, status : Statuses],
    ledger <- [k \in DOMAIN receipts |-> Outcome(receipts[k])],
    answer <- [c \in DOMAIN result |-> Outcome(result[c])],
    gone <- {c \in Calls : pc[c] \in {"raised", "cancelled"}}
ImplementsLedger == Ledger!Spec

WasInFlight(c) == \E o \in orphans : o.by = c /\ o \notin orphans'

\* Once a key has a receipt, Rhino runs no command for it any more, but for a
\* write that a lost response or a cancelled caller had left in flight.
NoWorkAfterReceipt ==
    [][\A c \in Calls :
          applied'[c] # applied[c] /\ req[c].key \in DOMAIN receipts => WasInFlight(c)]_vars

\* All callers of a key agree: each gets the one receipt of the key, as a
\* replay when its payload is the key's and as a conflict when it is not.
CallersOfAKeyAgree ==
    \A c \in DOMAIN result :
        /\ req[c].key # None => req[c].key \in DOMAIN receipts /\ result[c] = receipts[req[c].key]
        /\ pc[c] = "replayed" => result[c].payload = req[c].payload
        /\ pc[c] = "conflict" => result[c].payload # req[c].payload

\* Two calls of one key have both changed the document only if the first of
\* them ended without a receipt (cancelled, or its second scene read failed).
RepeatOnlyWithoutReceipt ==
    \A c, d \in Calls :
        c # d /\ SameKey(c, d) /\ applied[c] > 0 /\ applied[d] > 0
        => pc[c] \in {"raised", "cancelled"} \/ pc[d] \in {"raised", "cancelled"}

\* What a status says about the commands Rhino had run for the call when it
\* was written: none for validated and blocked, all for completed; never fewer
\* than the acknowledged ones and at most one more.
StatusTellsWhatRan ==
    \A c \in Calls :
        /\ applied[c] <= work[c].done + 1
        /\ applied[c] >= work[c].done
        /\ pc[c] = "returned" =>
              /\ result[c].status \in {"validated", "blocked"} => applied[c] = 0
              /\ result[c].status = "completed" => applied[c] = Len(Script(c))
              /\ result[c].status = "failed" /\ "malformed" \notin Faults
                    => applied[c] = work[c].done

\* Nobody but the gateway's lock holder writes to the document.
Undisturbed == Faults \cap {"cancel", "loss", "external"} = {}

\* The first command of a call that names a revision runs on that revision.
FirstWriteSeesRevision ==
    [][\A c \in Calls :
          /\ Undisturbed /\ req[c].revision # None
          /\ applied[c] = 0 /\ applied'[c] = 1
          => doc = req[c].revision]_vars

\* The deltas of a receipt name only objects its own call touched: calls under
\* different keys never show in each other's evidence.
DeltaIsOwn ==
    Undisturbed =>
        \A c \in DOMAIN result :
            LET r == result[c] IN
            r.created \cup r.modified \cup r.deleted \subseteq effects[r.by]

\* A scene the cache may answer with is the document, whatever the calls and
\* visits that ended since it was read had done and however they ended; but an
\* open_working_document that raised after Rhino had switched documents left it
\* stale (only its normal end resets the cache).
OpenedThenRaised == \E v \in Visits : active = v /\ pc[v] = "raised"
CacheIsCurrent ==
    /\ Undisturbed /\ ~OpenedThenRaised
    /\ lock = None /\ cache.capacity >= MaxObjects
    => cache.scene = doc

\* A file is written and a document is switched between batches, never in the
\* middle of one: no exported handoff holds half a batch.
VisitsSeeWholeBatches ==
    [][Undisturbed /\ (file' # file \/ active' # active)
       => \A c \in Calls : pc[c] \notin {"before", "sent", "after"}]_vars

\* The gateway makes its document a serial one, each batch a single step, at
\* the moment its call ends: while a batch is being sent, the document is what
\* its call read first.
Committed ==
    IF lock \in Calls /\ pc[lock] \in {"sent", "after"} THEN work[lock].before ELSE doc
DeltaOf(r) == [created |-> r.created, modified |-> r.modified, deleted |-> r.deleted]
Changes(before, after) ==
    [created |-> CreatedIds(before, after), modified |-> ModifiedIds(before, after),
     deleted |-> DeletedIds(before, after)]
Serial == INSTANCE SerialDocument WITH
    Batches <- Calls, Readers <- Queries, Start <- [i \in InitialObjects |-> 1], Saved <- SavedScene,
    Delta <- Changes, Disturbed <- ~Undisturbed,
    document <- Committed,
    evidence <- [c \in {d \in Calls : pc[d] = "returned"} |->
                    [revision |-> req[c].revision, changes |-> DeltaOf(result[c])]],
    silent <- {t \in Calls \cup Visits : pc[t] \in {"raised", "cancelled"}},
    current <- active, told <- seen, exported <- file
ImplementsSerialDocument == Serial!Spec

\* The reading of the docs that the code does not meet.
\*
\* RUNTIME_CONTRACT: reusing a key never repeats geometry.
NeverRepeatsGeometry ==
    \A c, d \in Calls : c # d /\ SameKey(c, d) => applied[c] = 0 \/ applied[d] = 0

\* RHINOMCP_DIRECT_TRANSPORT: unknown is the answer to a lost response.  A call
\* whose every command Rhino ran and acknowledged is answered completed.
AcknowledgedBatchCompletes ==
    \A c \in Calls :
        pc[c] = "returned" /\ work[c].done = Len(Script(c)) => result[c].status = "completed"

\* RHINOMCP_DIRECT_TRANSPORT: a lost response is reconciled only when the scene
\* shows the batch was done; otherwise the receipt is unknown.
ReconciledBatchWasRun ==
    \A c \in Calls :
        pc[c] = "returned" /\ result[c].status = "reconciled" => applied[c] = Len(Script(c))

\* Every coroutine that starts ends: no lock is left held, no future unset.
EveryTaskEnds == \A t \in Tasks : pc[t] # "idle" ~> pc[t] \in Ended
=============================================================================
