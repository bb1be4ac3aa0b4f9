# A TLA+ model of the Hermes AEC runtime

The runtime lets an agent drive Rhino, Blender, FreeCAD and ComfyUI through
*gateways*: asyncio objects that serialise mutations, bind every mutation to an
idempotency key, compare scenes before and after, and answer with a *receipt*
that says what happened. What makes the program hard is not geometry; it is what
a receipt is worth when coroutines interleave, when a response is lost, when a
caller is cancelled while a worker thread goes on, and when a host does half of
what it was asked. These modules state what receipts, locks, caches and
revisions promise, check it with TLC on small instances and prove the most
important parts with TLAPS for every instance.

Source paths below are relative to `src/hermes_aec_runtime/`; line numbers are in
`PROJECT.json` (`map` names the lines each definition stands for, `hazards` the
lines where things are hard).

## 1. The system

| Part | State | Operations | Talks to |
|---|---|---|---|
| Direct Rhino gateway (`rhinomcp_transport.py`, `rhinomcp_mapping.py`) | one `asyncio.Lock`, `_receipts`, `_inflight` futures, `_scene_cache` with capacity and age | `execute_operations`, `scene_index`, `viewport_command`, `export_scene`, `open_working_document`, `health` | RhinoMCP plug-in, one TCP connection per call in a worker thread (`asyncio.to_thread`) |
| Blender and FreeCAD gateways (`blender.py`, `freecad.py`, `host_contract.py`, `*_operations.py`) | one lock, `_receipts` | `execute`, `scene_preprocessing` / `scene_query`, `health` | BlenderMCP / FreeCAD MCP, one script per batch |
| ComfyUI gateway (`comfyui.py`) | one lock, `_receipts`, the output files | `stylize` (queue, poll, download, materialise), reconciliation by prompt history, `health` | ComfyUI over HTTP |
| Legacy Rhino client (`rhino.py`) | module-wide lock, `_recent_receipts`, `_inflight_receipts`, receipts in the Rhino document | `execute_python`, `scene_query`, `save_checkpoint`, recovery | Rhino MCP session per call |
| Workflow orchestrator (`orchestrator.py`, `observability.py`, `router.py`) | none between runs; budgets and metrics in a run | `build_plan`, `run` = query, mutate, verify, finish | a gateway, the memory, the recorder |
| Workflow memory (`memory.py`) | outcomes by project, host and identity, in memory or on disk | `create_outcome`, `put`, `get`, `list` | orchestrator |
| Flight recorder (`flight_recorder.py`) | append-only JSONL file | `make_trace`, `append`, `read`, `export_training_examples` | orchestrator |
| Supervisor (`supervisor.py`) | checkpoint file | `observe`, `classify`, `plan`, `recovery_plan` | process and port probes |
| Runtime contract (`contract.py`, `contracts.py`, `runtime.py`) | none | lifecycle transitions, budgets, envelopes | everybody |
| Verification and scene queries (`verification.py`, `scene_index.py`) | none | `verify_transaction`, `SceneIndex.query` | orchestrator, tools |
| Operation compilers (`operations.py`, `operation_models.py`) | none | typed operations to scripts and commands | gateways |
| MCP tools (`mcp_server.py`, `cli.py`) | the gateway singletons | argument and output checks around the gateways | agents |
| Evaluation, acceptance, installers, offline tools, the vendored plug-in | - | - | - |

How they interact: a tool or the orchestrator awaits a gateway method, usually
under a timeout (`bounded_stage` uses `asyncio.wait_for`, which *cancels* the
coroutine). Gateways share nothing with each other except the host: the direct
gateway and the legacy client can reach the same Rhino under different locks.
Blender and ComfyUI meet the Rhino gateway through files (exports, renders).

The behaviours that are hard, and what must hold:

* **Concurrent callers of one key** (direct gateway: a shared future; Blender,
  FreeCAD, ComfyUI: a second look at the receipts inside the lock). The work
  runs once; everybody gets the one receipt, or a conflict if the payload is
  another one.
* **Endings without a receipt.** `CancelledError` is not an `Exception`; a scene
  read after the batch may fail. Then the key stays free and may run again: this
  must be the *only* way to repeat work.
* **Crashes and restarts.** The legacy client finds its receipts again in the Rhino
  document; the workflow leaves its evidence in two files, written one after the
  other, and a journal line may be torn.
* **Lost, malformed, misleading answers.** What the status claims must not be
  more or less than what the host ran.
* **Worker threads and host scripts outlive their callers.** A write whose
  caller has gone may still run, at any later time, with the lock free.
* **Check then act.** Revisions, output paths and receipts are checked one or
  more awaits before they matter.
* **Caches and paging.** The scene cache answers without asking Rhino; scenes are
  read in capped pages.
* **Termination.** A future, a lock, a poll or a page loop must be left on every
  path.

## 2. The modules

| Module | What it is |
|---|---|
| `IdempotentLedger` | the abstract promise: a key is bound to one outcome, once; who is given an outcome is given the one of its key |
| `SerialDocument` | the abstract promise about the document: batches happen one at a time and at one moment, receipts name exactly what they changed, readers see whole batches |
| `RhinoGateway` | the direct Rhino gateway with its worker threads and a Rhino document |
| `RhinoGatewayProofs`, `RhinoGatewayTypes`, `RhinoGatewayIsolation` | theorems about it |
| `ScenePaging`, `ScenePagingProofs` | the two loops that read a Rhino scene page by page, and theorems about them |
| `HostGateway` | the Blender and FreeCAD gateways over a host that runs scripts |
| `HostGatewayProofs` | theorems about it |
| `ComfyUI` | the ComfyUI gateway, its output files and a ComfyUI server |
| `ComfyUIProofs` | theorems about it |
| `RhinoClient`, `RhinoClientProofs` | the legacy Rhino client with receipts in the document, and theorems about it |
| `Workflow`, `WorkflowProofs` | `aec_run_workflow` over a gateway, with the memory and the flight recorder's journal, and theorems about it |
| `MCRhinoGateway`, `MCScenePaging`, `MCHostGateway`, `MCComfyUI`, `MCRhinoClient`, `MCWorkflow` | constants of the TLC instances |

An action is what a coroutine does between two awaits, so everything that can
interleave in asyncio interleaves in the model; what a handler does without an
await is one action. Worker threads, hosts and people are actions of their own
and interleave with everything.

### RhinoGateway

`pc` says at which await a coroutine is suspended: `locking` and `waiting`
(the lock, another call's future), then inside the lock `capabilities`, `before`
(first scene read), `sent` (a command is with a worker thread), `after` (second
scene read), `indexing`, `checking`. The gateway's fields are `lock`, `receipts`,
`inflight`, `cache`; a coroutine's locals are `req`, `work` (`before`, `aliases`,
`done`, ids named by updates and deletes, `trouble`), `future`; `wire` is the
command its worker thread is sending. Rhino is `doc` (object id to content
version), `born` (ids are never reused), `active` and `file`. `applied` and
`effects` are history: what Rhino ran for whom.

* `execute_operations` up to its first await: `ReplayReceipt`, `JoinInflight`,
  `AnswerWithoutHost` (unmapped operation or dry run), `BeginExecution`.
* `_execute_once`: `AcquireLock` (drops the cache), `ReadCapabilities`,
  `RefuseIncompatiblePlugin`, `ReadBefore` / `RefuseStaleRevision`, then per
  command `RunSentCommand` (Rhino) and `ReceiveResult` (which resolves the next
  command's alias and sends it), or `CommandFails`, `AnswerIsMalformed`,
  `LoseResponse`; finally `ReadAfter`, which computes deltas, recovers a lost id,
  verifies, fills the cache, stores the receipt and leaves the lock in one step.
* Endings without a receipt: `ReadFails`, `CancelCall`. `StopWaiting` turns an
  unanswered write into an orphan, which `RunOrphan` may run at any later time.
* `scene_index`: `AnswerFromCache`, `LockForIndex`, `IndexScene`, `IndexFails`.
* `viewport_command`, `export_scene`, `open_working_document` ("visits"):
  `StartVisit` to `VisitFails`, with their reconciliation of lost answers.

Abstractions. A scene is the function from ids to versions and a revision is the
scene itself: the code's revision is a hash of the scene, and a version never
returns, so equal revisions mean equal scenes. The multi-page scene read is one
step here and has its own module. A caller that names a revision names the one of
the moment it calls; the document may change before it gets the lock. Batches
that fail argument validation never reach the gateway's state. Commands are the
five kinds the mapping's table distinguishes (whether they bind an alias, name an
object, delete it); an alias resolves to one object, as every scalar parameter
requires. Batches are `Normalized`, which is what `normalize_operations` lets
through: a `$name` names an earlier operation, and a name is one operation's. The cache's age is left out: a young enough cache is the worst case.
A keyless call is `KeyOf[c] = None`. `health` only reads.

### ScenePaging

One read of a document by `scene_index` or by the reads around a transaction
(`_scene_unlocked`). `Page` is what the plug-in answers, at most `Cap` objects;
`IndexPage` and `TransactionPage` are one turn of each loop with its own rule for
ending; a person may insert an object anywhere in the object table or delete one
between two pages. A failing page call ends a read with an exception and is
`ReadFails` / `IndexFails` of `RhinoGateway`.

### HostGateway

The two gateways have the same skeleton: check the receipts, wait for the lock,
check again, read the scene, compare the revision, send one script, read the
scene, store a receipt. They differ in two constants. FreeCAD's script runs in a
transaction that is aborted when it fails (`Rollback`); Blender's gateway inspects
success texts for errors (`ChecksAnswers`), because BlenderMCP reports a failed
script as text. A scene is the set of edits made to it with their authors, which
is all that deltas and revisions tell apart. `Refuse` is the output check of the
Blender tools (`mcp_server.py`): an existing output is accepted only when the key
has a receipt; `Files` holds the outputs those tools check.
`Fail` is `except Exception`: any exception between the lock and the second read
binds the key to an `unknown` receipt. `Cancel` binds nothing and `RunOrphan` lets
the host run, later, a script whose caller has gone.

### ComfyUI

`stylize` queues at most one prompt per call, so a prompt id is the call itself;
the graph with its seed determines the picture, so a picture is the payload it
shows. `ReplayBeforeLock` and `ReplayInsideLock` are the two places where a bound
key is answered, with a reconciliation (`AskHistory`, `KeepOrFail`, `FetchAgain`)
when the receipt is unknown and has a prompt id; history is read at one moment and
acted on at a later one. `Materialize` is check, write and rename without an await.
`JobEnds` lets ComfyUI complete, fail or forget a prompt.

### RhinoClient

`execute_python` looks its key up three times: in `_recent_receipts` (`Replay`), in
`_inflight_receipts` (`Join`), and in the Rhino document, by a read under the lock
that is retried there (`Take`, `Retry`, `LookupFinds`, `LookupFindsNothing`,
`LookupUnanswered`). `Own` is everything up to the first await of an owner. A
transaction is sent once (`Send`); when its answer is lost (`LoseAnswer`) the
document is read again (`RelookFinds`, `RelookFindsNothing`), and a script that
failed without an undo record is undone by a command of its own (`Undo`,
`UndoRaises`). `Return` and `Raise` end an owner together with the calls that
joined it. `save_checkpoint` and the four operations that only read are the tasks
in `Others`, with the same lock.

`doc` is what the document holds of each transaction (its receipt string, and how
often its script ran, which is history), `saved` the last checkpoint. `Cancel`
frees lock and future but not what reached Rhino; `Restart` empties the tables of
the process; `Reopen` gives Rhino its checkpoint back. `blind` and `lost` are
history: transactions sent although no look-up was answered, and those whose
receipt a reopening took away.

External, and assumed: Rhino runs the scripts that reached it one at a time on its
UI thread, so a read is answered only after every script that arrived before it.
The client relies on it: without it a retry's look-up could overtake the script of
a cancelled call, and every retry after a cancellation could repeat its work.
Abstracted: a script is its payload, its effect that it ran, and the comparison of
object counts around an undo is part of the status `failed`.

### Workflow

A run of `WorkflowOrchestrator.run` waits at `query`, `mutate` (its batch is with
the gateway), `answered` (the answer is there and the task not yet resumed) and
`verify`; `put` and `append` are the two writes of `_finish`, which follow each
other without an await: `LoopFree` keeps everybody else in the process away in
between, and only a crash may fall there. `Start` is `build_plan`, `Queried` and
`Receive` the branches after the first two stages, `Verify` is
`verify_transaction` on the two focused scenes, `Expire` the deadlines of
`bounded_stage` and what `run` makes of each, `Cancel` the client that goes away.

The gateway is reduced to what its own module shows of it: `HostReplays` (a bound
key), `HostDeclines` (dry run, stale revision), `HostRuns`, `HostFails`, and
`LateEffect` for the batch of a caller that has gone. A `failed` receipt stands for
`reconciled` and `unknown` ones too, which the orchestrator treats alike; the
two-second scene cache is left to `RhinoGateway`; the table of receipts lives in the
process, so `Crash` empties it.

`memory` is the set of outcomes (an outcome's identity has no key of its own but
the receipt's transaction), each renamed into place by `Put`. `journal` is the list
of lines and `tail` says how the last one ends: with its newline, `torn`, `whole`
but without newline, or `cut` inside a character. `Write` is one `os.write`, whose
count nobody looks at: it may be short without an error, and the next append glues
its text to what is there. `KnownIds` and `Readable` are the two readers, which skip
lines that do not parse and raise on a file that does not decode.

### IdempotentLedger

`Settle` (first outcome under a key), `Repeat` (a later call gets it), `Leave` (a
call ends with none). `RhinoGateway` and `HostGateway` implement it, with receipts
as the ledger and exceptions, cancellations and, in `HostGateway`, answers that
bind nothing (a dry run, a stale revision, a refused output) as `Leave`. ComfyUI
overwrites receipts by design, since an unknown outcome may become completed or
failed, so its ledger holds only `Lasting`: the payload and prompt of a receipt, and
all of a receipt that has no prompt. That much is bound once, and a caller who is
given a receipt is given that much of its key's.

### SerialDocument

`Report` (a batch happens at one moment, and its receipt names exactly what it
changed), `EndSilently` (a batch happens, whole or in part, and nobody is told),
`Open`, `Fail`, `Export`, `Answer` (a reader sees what whole batches have left),
`Disturb` (anything, once somebody else may write). The abstract document is
`Committed`: the host's document, but the first scene of the batch that holds the
lock while there is one, so a batch that has sent half of its commands has not
happened yet. In `RhinoGateway` a batch happens when its receipt is stored, or when
its coroutine leaves the lock with an exception. In `HostGateway` only completed
receipts report, unknown ones are silent, and there are no visits and no readers: its
scene queries hold the lock and store nothing. Nothing in either gateway is a transaction (Rhino runs one command after the other and
people can watch): what the refinement shows is that whoever learns about the
document *through the gateway* cannot tell. Its two holes are stated, not left out: a
reader may get any scene after an opening that switched documents and then ended in
an exception (the stale cache of section 6), and everything is possible once
somebody else may write (a person, or a worker thread whose caller stopped waiting:
`external`, `cancel` and `loss` in `Faults`).

## 3. What the runs check

| Run | Instance | Properties |
|---|---|---|
| `gateway_faults` | 3 calls of one key, an unmapped batch, refused commands, lost responses, cancellation, an edit by a person | `CallersOfAKeyAgree`, `RepeatOnlyWithoutReceipt`, `StatusTellsWhatRan`, `NoWorkAfterReceipt`, `ImplementsLedger` |
| `gateway_calm` | a keyed and a keyless call, two scene queries, an export, the opening of a document; failures and malformed answers, but nobody else writes | `TypeOK`, `DeltaIsOwn`, `CacheIsCurrent`, `FirstWriteSeesRevision`, `ImplementsSerialDocument` |
| `gateway_ends` | owner and waiter of a key, a scene query and an opening under losses, unreadable scenes and cancellation | `EveryTaskEnds` |
| `paging` | documents of 0 to 5 objects, cap 2, pages of 3, at most 4 objects, 2 edits | `TypeOK`, `IndexIsWhole`, `ReadsInOrder`, `ReadEnds` |
| `host_faults` | 2 calls of one key, 1 retried query, every fault | `TypeOK`, `CallersOfAKeyAgree`, `RepeatOnlyAfterCancel`, `StatusTellsWhatRan`, `DeltaIsOwn`, `RunsOnItsRevision`, `RefusedForOthersOutput`, `ImplementsLedger`, `EveryTaskEnds` |
| `comfyui_faults` | 2 calls of one key, 1 of another, one output, every fault | `TypeOK`, `OnePromptPerKey`, `CompletedHasItsPicture`, `FailedIsHopeless`, `ImplementsLedger`, `EveryTaskEnds` |
| `rhino_client` | 2 calls of one key with two payloads and a forbidden one, a read or checkpoint, 2 attempts, one restart or reopening, cancellation, failing scripts | `TypeOK`, `RunsAgainOnlyBlind`, `ReceiptsAreTheDocuments`, `CheckpointHasWhatWasTold`, `EveryCallEnds` |
| `workflow` | 2 runs under one key (create, modify, delete, a refused trace, dry run, keyless, inspect, invalid), a client's own trace, one fault of any kind | `TypeOK`, `VerifiedMeansDone`, `EvidenceKept`, `JournalIsSound`, `EveryRunEnds` |
| `finding_*` | see section 6 | one property each, violated |

Why the bounds are enough for the questions. A violation of a per-key property
needs an owner and a caller that arrives before, during or after it, and a third
that arrives in the other window: two or three calls of one key. Isolation needs a
second writer with another key or none. Two commands per batch give every position
a fault can have (before the first, between, after the last); a batch that
creates, one that updates and one that deletes and derives give every shape of
delta. Four ids are the two initial objects and two created ones. In `paging` the
page size, the object limit and the transaction limit all exceed the cap, and
documents lie below, at and above each of them; two edits are an insertion and a
deletion, before or behind the offset. In `host_faults` a script of two steps can
run not at all, half or fully. FreeCAD is not run separately: with `Rollback` a
failing script leaves nothing, and without `textError` in `Faults` an answer needs
no inspection, so its behaviours are among those of the Blender instance.
In `gateway_calm` two queries let one be answered by the cache the other filled.
In `rhino_client` the two calls are one before and one after every point at which the
first can end, `Attempts = 2` has a retried and a last attempt, and one restart or
reopening falls between any two steps. In `workflow`
deadlines are not counted as faults, so both runs may expire anywhere; `MaxFaults`
bounds edits by others, cancelled calls, failing batches, failed and short writes and
ends of the process together. One is enough for every single fault at every place;
two (a torn line and a crash, say) were run once with 4.4 million states and hold
as well, and the theorems have no such bound.
What small instances cannot show is left to the theorems, which have no bounds.

Fairness. The specification with fairness (`FairSpec`, or `Spec` itself in
`RhinoClient` and `Workflow`) asks only that a coroutine that can take its next step
eventually takes it: asyncio runs every ready coroutine, `asyncio.Lock` wakes
waiters in FIFO order, every transport call has a socket or `wait_for` timeout,
requests to ComfyUI end within `request_timeout` and polling within
`timeout_seconds` (`PollingEnds` is therefore always possible while polling). Weak
fairness on the disjunction of a coroutine's steps is enough because a lock is
released by a step of its holder and a waiter's step is then continuously
possible until another waiter takes the lock; every coroutine takes it a bounded
number of times. In `RhinoClient` every call to Rhino has a timeout, so a step that
ends the wait is always possible, with an answer or without. In `Workflow` only the
run's own writes and its deadlines are fair: that the host ever answers is not
assumed, since `bounded_stage` wraps each of the three stages. Nothing is assumed of
invocations, faults, cancellations, orphaned writes, jobs of ComfyUI or people: none
of them has to happen.

Every property of a passing run has a mutant in `PROJECT.json`: a change of the
modelled code (a dropped re-check, a lock left held, a status rule, an offset by
the wrong amount) under which TLC finds the property violated.

## 4. What is proved

All theorems are about `Spec`, for every set of calls, keys, payloads, scripts and
ids and every combination of faults; the assumptions are `GatewayAssumption`,
`HostAssumption`, `ComfyAssumption`, `PagingAssumption`, `ClientConstants`,
`WorkflowConstants` and the two that keep `None` out of the records, which say that
the constants have their types, that `None` is none of the others, and that the
kinds of tasks are disjoint.

**RhinoGateway: keys** (`RhinoGatewayProofs`). `CallersOfAKeyAgree` and the others
are not inductive: they speak of receipts, and a receipt is made of futures,
waiters and running calls. `KeyInv` adds *Owners* (an in-flight future belongs to
a running call of that key and the key has no receipt), *Waiters* (a waiter awaits
a call of its own key that runs or ended by itself), *Answers* (who has a receipt,
and that it is the key's) and *Doers* (who may have changed the document, and
whose writes may be in flight). From it follow `CallersAgree`,
`RepeatNeedsALostReceipt`, `ReceiptEndsWork` (an action property) and
`GatewayImplementsLedger` (refinement: a step that returns is a `Settle`, a replay
or a resumed waiter is a `Repeat`, an exception is a `Leave`, all else stutters).

`OnlyAbandonedKeysRepeat` turns the disagreement `finding_repeat` around: without
`cancel` and `unreadable` in `Faults` the sentence of the contract is true, for every
other fault. Its invariant is `Kept`: no call has raised or was cancelled.

**RhinoGateway: types** (`RhinoGatewayTypes`). `TypeInv` follows values from the
wire through the locals into receipts and orphans.

**RhinoGateway: isolation** (`RhinoGatewayIsolation`). *Holders* ties `pc` to the
lock, *Revisions* keeps the checked revision equal to the document until the first
command, *Deltas* keeps every change since a call's first read inside what Rhino
did for it, *Fresh* keeps the cache empty while a call holds the lock. From them:
`RevisionHolds`, `DeltasAreOwn`, `CacheStaysCurrent`, `VisitsBetweenBatches`, and
`GatewaySerialisesDocument`, the refinement of `SerialDocument` that gathers them: a
step of a batch leaves `Committed` alone until its coroutine ends, and then the
receipt's deltas are the difference between the document that was committed and the
one that is. `PlainBatchesComplete` is what remains of the sentence `finding_alias`
refutes: a batch whose targets were there at the beginning and are not also deleted
is answered `completed` when Rhino acknowledged all of it. Its invariant, `VisibleInv`,
says what the next scene read will show at every place of such a batch (edited objects
with a higher version, deleted ones gone for good, every alias bound to an object that
is there).
`StatusesTell` is there too, and holds whoever else writes: `StatusTellsWhatRan` speaks
of the end of a call, `Progress` says at every place of it how many commands Rhino has
run (the acknowledged ones, and one more when its answer was lost or unusable), and
that a write nobody waits for is the only one of its call and has not run yet. The
last part is what makes an orphan that runs *after* its receipt harmless to it.

**ScenePaging** (`ScenePagingProofs`). `PagingInv` has *Counts* (the offset is the
number of objects received), *NothingBehind* (unless something was deleted, what was
in the document at the start was received or still lies ahead), *Seen*, *Unedited* and
*TruncatedRight*. From it: type correctness, `IndexIsWhole` and `ReadsInOrder`, for
every document, cap, page size and limit and any number of edits. Two more theorems
bound the disagreement of `finding_paging`: `PagingTransactionSeesOnePage` (with a cap
below 1000 the reads around a transaction return exactly one page) and
`PagingTransactionWithinCap` (they are whole for documents that fit one page, and would
be for all with a larger cap).

**RhinoClient** (`RhinoClientProofs`). `ClientInv` has *Places* (who holds the lock,
who owns the future of a key, who has what in hand), *Documents* (a receipt is there
exactly if the script ran), *Once* (a transaction that was not sent blindly is on its
way at most once and has then not run), *Honest* (what a call is about to return is the
document's receipt) and *Kept* (an unacknowledged checkpoint holds what was told).
From it: type correctness, `RunsAgainOnlyBlind`, `ReceiptsAreTheDocuments` and
`CheckpointHasWhatWasTold` (an action property).

**Workflow** (`WorkflowProofs`). `WorkflowInv` has *Shape* (what a run holds at each
place), *Windows* (while nobody else changed the document and the batch has not run,
the document is the one that was queried, so a replayed receipt that claims a change
does not verify), *Evidence* (a run is at its trace only with its outcome stored) and
*Bounded*: traces lost, plus what the next append may still destroy, are at most two
per incomplete write. `DamageIsBounded` alone is not inductive, for a glued line costs
two traces one append after the damage. From it: type correctness,
`VerifiedMeansDone`, `EvidenceKept` and `JournalIsSound`, for any number of runs,
faults, crashes and clients.

**HostGateway** (`HostGatewayProofs`). `HostInv` has *LockHeld*, *Bound* (a call
inside the lock has an unbound key; a receipt names the call that made it),
*Progress* (how far the host is with each script, and that an orphan has not run)
and *Serial* (since a call's first read only it and stray authors have edited).
From it: type correctness, `CallersOfAKeyAgree`, `RepeatOnlyAfterCancel`,
`StatusTellsWhatRan`, `DeltaIsOwn`, `RunsOnItsRevision`, `RefusedForOthersOutput`
and the refinements of `IdempotentLedger` and, when nobody else can write, of
`SerialDocument`, for both gateways at once, since
`Rollback` and `ChecksAnswers` are constants of the theorem.

**ComfyUI** (`ComfyUIProofs`). `ComfyInv` has *LockHeld* (who executes holds the
lock and has an unbound key), *Reconciled* (the receipt a call reconciles still has
the payload and prompt of its key's receipt, though perhaps not its status),
*Answered* (a prompt that a history answer said is over is over), *ReceiptsSound*
(a receipt's prompt was queued by an ended call for the receipt's payload) and
*Prompted* (of the calls of one key that may have made ComfyUI work, at most one is
not cancelled). From it: type correctness, `OnePromptPerKey`,
`CompletedHasItsPicture`, `FailedIsHopeless`, `KeyKeepsItsPrompt` and the refinement of
`IdempotentLedger` by what lasts of a receipt, which needs one more conjunct, `Given`: a
call has a receipt exactly from the moment it returned one. The run has
one call besides the owner of the key, so one reconciliation at a time; the
theorems hold for any number that overtake each other, inside and outside the lock.

**Why everything ends** (the last part of each proof module). Liveness needs fairness
and `ENABLED`, which the prover does not have; what it rests on is proved without them.
`NobodyIsStuck` says that there is no deadlock: behind every coroutine that has begun and
not ended, at most two waits away (a joined call waits for the owner of its future, the
owner for the holder of the lock), is one that can take its next step. It follows from the
invariants above and from a few more on who can be where: *Places* for the kinds of tasks
of `RhinoGateway` and `HostGateway`, *Holding* for ComfyUI's lock, which a reconciliation
may hold too, and *WaitersOwned* for the futures of the legacy client. `EachStepIsNearer`
says that progress is bounded: the steps a coroutine has left (`CallStepsLeft`,
`StepsLeft`, ...) are a natural number that each of its own steps makes smaller and that
nothing else makes larger, neither other callers nor orphans, late prompts, restarts or
edits; a coroutine that ended never begins again. The measures show what the bound
depends on: twice the length of the script in `RhinoGateway`, the attempts a read has
left in `HostGateway` and `RhinoClient`, the owner's steps for a call that joined it. In
`ScenePaging` (`EachPageIsNearer`) it is the objects that lie ahead and the edits a person
has left, because a page that does not end a loop brings an object; `IndexWithinLimit`
comes with it. In `Workflow` nobody waits for another run except for the two writes that
follow each other without an await, so only the measure is stated there.

With weak fairness these two facts give `EveryTaskEnds` and its siblings; that last
temporal step is TLC's. Before the proofs TLC confirmed both properties, and that `CanStep`
is exactly `ENABLED` of a coroutine's own step, on the instances of `gateway_ends`,
`gateway_faults`, `gateway_calm`, `host_faults`, `comfyui_faults` and `rhino_client` (for
the queries of `RhinoGateway`, that `CanStep` implies it); likewise the measures of `paging` and `workflow`.

Only model-checked: the liveness properties themselves (`EveryTaskEnds`, `ReadEnds`,
`EveryCallEnds`, `EveryRunEnds`), and the properties of section 6, which do not hold.
Every invariant, every action property and every refinement of a passing run is a
theorem. Some theorems have no run: `VisitsBetweenBatches` and `ComfyKeyKeepsItsPrompt`
gave their places in `gateway_calm` and `comfyui_faults` to the refinements, and
`HostImplementsSerialDocument`, `OnlyAbandonedKeysRepeat`, `PlainBatchesComplete`,
`PagingTransactionSeesOnePage`, `PagingTransactionWithinCap` (or the invariants they
rest on) and the theorems of the last paragraphs were tried with TLC on such instances
before they were proved.

## 5. What is not modelled

* The two Rhino paths together. The direct gateway and the legacy client have
  different locks (`rhino_apply_operations` executes through the one and saves its
  checkpoint through the other). What a foreign writer does to the direct gateway is
  its `external` fault: keys, statuses and callers' agreement survive it, deltas and
  revisions do not, which is why those properties are stated for `Undisturbed` runs.
* How words of a request select a route, and the scores of a trace: `Requests` lists
  what `build_plan` may come to, `Tainted` and `Accepted` what the recorder decides.
  `workflow_memory_promote` stores what a client supplies, `workflow_memory_query`
  and the in-memory adapter only keep it.
* The supervisor: probes and advice printed for a person, called by no tool of the
  server, with one writer of its checkpoint file.
* The contract types, the scripts the compilers write, `SceneIndex.query` and the
  validation of numbers and fields: pure functions of one argument list. What the
  gateways see of them (commands, aliases, fingerprints, ids) is a constant of the
  modules.
* The plug-ins and hosts: external actions that do what the gateways' code shows
  them to do. Rhino may run connections in any order and may run an abandoned
  write late or never; it never runs one write twice.
* Tool registration, `health`, `readiness`, metrics, formatting, evaluation, installers, offline tools:
  no shared state, or only reads.

## 6. Where the code and its documentation differ

Each is a run that expects a violation; the quotes are in `PROJECT.json`.

* `finding_repeat`: "never repeats geometry" does not hold when the first attempt
  ended without a receipt.
* `finding_alias`: a batch that creates an object and updates it through its alias
  is answered `unknown`, since the updated id is in `created`, not in `modified`.
* `finding_reconciled`: a batch whose first response is lost is answered
  `reconciled` although the later commands were never sent.
* `finding_paging`: the reads around a transaction stop at the plug-in's cap, which
  a comment of `scene_index` in the same file warns of.

Also seen while modelling and not run, since the runs above were kept for the
gateways everybody goes through:

* `comfyui.py`: a call of a bound key with another payload that waited for the lock
  gets the other payload's receipt, not a conflict. `comfyui.py:250` stores what a
  reconciliation returns without looking at the receipts again, so a slow one can put
  `unknown` back over `completed` (the next replay reconciles it again). When the
  answer to `POST /prompt` is lost after ComfyUI accepted the prompt, the receipt is
  `failed` and the job runs on.
* `rhino.py`: the docstring of `execute_python` says "Execute once per idempotency
  key". A look-up that nobody answered counts as "no receipt", so a retry then sends
  the script again; this is the exception in `RunsAgainOnlyBlind`. After such a
  send the document may hold the receipt of another payload, and the second look-up
  returns it without comparing: the exception in `ReceiptsAreTheDocuments`.
* `rhino.py:225`: an `unknown` receipt is cached and replayed for the life of the
  process, although the document may by then hold the real one. A transaction rolled
  back by the client's own command is found as not rolled back after a restart, since
  the document's receipt was written before. A cancelled owner gives its waiters its
  own `CancelledError`.
* `orchestrator.py:150`: outcomes of lost mutations carry no key ("persist enough
  evidence" says the comment), so those of different keys are one outcome in the
  memory. A `reconciled` receipt is never verified. A focus that drops objects, or its
  limit of 40, can only make a verification fail, never succeed: in the model `focus`
  is any set of ids.
* `orchestrator.py:222`: the adapter for the legacy client compares the revision under
  one hold of the lock and mutates under the next.
* `flight_recorder.py:125`: "Each line is complete" does not hold for a short write,
  whose count is not looked at. A line cut inside a character makes every later read
  and append raise, so every later mutation of a workflow raises after it has been
  executed and stored; `JournalIsSound` is stated for files that decode.
* `memory.py`: two processes share the name of the temporary file of an outcome; two
  processes' appends can both find an id absent. One process is modelled.
* `mcp_server.py:549`: the checkpoint is written into the very receipt the gateway
  replays, so a replay may repeat an older checkpoint's result.

## 7. How the project is laid out, and what could follow

Modules were written in the order of their weight: the direct gateway and its ledger,
paging, the script gateways, ComfyUI, the legacy client, then the workflow that uses a
gateway. Each can be proved about as well as checked: constants with named
assumptions, one action per operation, invariants as named conjunctions, no recursion.
What would add most next:

1. `SharedRhino`: the direct gateway and the legacy client composed on one document
   with their two locks, instead of the `external` fault.
2. A refinement between the modules that meet: the gateway inside `Workflow` is an
   abstraction of `RhinoGateway` by construction of its actions, not by a mapping that
   is checked.
3. Two processes on one memory directory and one journal.
