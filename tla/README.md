# Silk: a verification project

TLA+ models of the Silk tool chain, model-checked with TLC and proved with TLAPS. Four subsystems
are modelled:

- the language server's project scheduler and its workers (`packages/lsp`), the concurrent,
  fault-handling core of the repository, whose promises are written down in
  `openspec/specs/language-server-synchronization/spec.md`;
- the editor's end of that connection (`packages/vscode`): the session that owns the server process,
  and the diagnostics it pulls and shows;
- the hash map of the standard library (`compiler/stdlib/silk/hash_map.silk`);
- the memory of a compiled WebAssembly module: the allocator and the shadow stack that
  `compiler/src/WasmMemory.ts` and `WasmBackend.ts` emit.

## 1. Inventory

| Component | State | Operations | What makes it correct |
|---|---|---|---|
| **Workspace engine** `lsp/src/WorkspaceEngine.ts` | source ledger, associations, project contexts (generation, state, pending/active/superseded generation, worker slot, dirty paths, circuit), waiters, queries, retirements, a sliding signal queue | accept, request, shutdown; supervisor (retire, supersede, discover, debounce, start), one listener per worker, watchdogs | nothing but the accepted text is ever queried or answered; obsolete work is pre-empted; the newest text is committed in the end; every request settles; no thread is forgotten |
| **Project worker runtime** `lsp/src/ProjectWorkerRuntime.ts` | active analysis, committed snapshot and its generation, running queries | Initialize, Analyze, SupersedeAnalysis, Query, CancelQuery, Shutdown; ends and defects of analyses and queries | a verdict on a generation is final; partial work is never reused; a query reads the generation it names, once |
| **Worker threads** `lsp/src/ProjectWorker.ts`, `ProjectWorkerMain.ts`, `WorkerProtocol.ts` | thread, inbox, outbox, exit status | spawn, send, take, shutdown, terminate; message, error and exit events | a thread that does not cooperate is terminated within the deadline; its loss is noticed |
| **Source ledger** `lsp/src/SourceLedger.ts` | version and bytes per open document | Open, Change, Close, Invalidate, clear | versions increase while a document is open |
| **Workspace catalog** `lsp/src/WorkspaceCatalog.ts` | inventory of the closed modules, carried by the last commit | refresh (full or by dirty path) | the inventory reflects disk and open documents |
| **Server** `lsp/src/Server.ts` | protocol bindings, result identifiers | LSP handlers, refresh notifications | an unchanged report is really unchanged |
| **Editor queries** `lsp/src/Document.ts`, `Inspection.ts` | none | pure functions of a snapshot | — |
| **Editor session** `vscode/src/EditorSession.mts`, `ServerProcess.mts` | session status, editor versions, process generation | start, restart, stop, request, documentChanged/Closed; synchronisation barrier | one process at a time, a new one only after the old one is dead; ready only after the server accepted every document |
| **Editor diagnostics** `vscode/src/EditorDiagnostics.mts` | running pull, result id, collection | pull, clear, refresh | what is shown describes the text that is shown |
| **WebContainer platform** `platform-webcontainer/src` | booted container, scoped processes, subscriptions | boot, spawn, exit, release, teardown | every acquired resource is released once |
| **Collections** `compiler/stdlib/silk/hash_map.silk` and others | a buffer of slot states and one of entries, `length`, `used`, `capacity` | insert, remove, lookups, growth, drop | a finite map whatever the history; probes end; every value and buffer has one owner |
| **Linear memory** `compiler/src/WasmMemory.ts`, `WasmBackend.ts` | stack pointer, heap pointer, free lists by size class, block headers | allocate, release, reserve and restore a frame | live data never overlaps; a block is handed out once and comes back |
| **Compiler front end** `compiler/src` (Parser … Elaboration) | — | functions of the sources | — |
| **Incremental reuse** `compiler/src/IncrementalReuse.ts`, `SemanticInvalidation.ts`, `ModuleClosure.ts` | results kept from the last analysis | select what is recomputed | same result as a full analysis |
| **Ownership and suspension** `compiler/src/Ownership.ts`, `CleanupPlan.ts`, `SuspensionOwnership.ts`, `CoroutineRuntime.ts` | frames and owned resources | suspend, resume, cancel, clean up | each resource is released once |
| **Bootstrap evaluation, other back ends, encoders** `compiler/src`, `llvm`, `wasm` | — | interpreter and code generators | — |
| **Command line, documentation, formatter, doctest, inspector, site** | files | sequential workflows and renderers | — |

How they interact: the editor session starts a language server process and speaks LSP to it; the
server hands every document event to the engine (`accept`, synchronous) and every query to
`request` (asynchronous, with a deadline). The engine runs one supervisor fiber, woken by a sliding
queue of capacity one, and drives one worker thread per project by messages. Worker and engine share
no memory: a message may always be behind the state it speaks of, and this is where the hard
behaviours are — edits, closes and deadlines between any two steps of the supervisor; commits,
supersede replies and query results that come late; workers that are slow, hang, die with or without
an error, or cannot be started; retirements during which everything else goes on. The editor's end
has the same nature: a server that crashes or hangs at any step of a command, edits while a start
waits for the server, reports and conversions that come late.

The map and the memory are sequential. What is hard there is the history: marks that removals leave
behind, growth in the middle of an insert, allocations that fail half way, sums that wrap at the
width of a word, and blocks that come back in any order. Every hazard is listed at its line in
`PROJECT.json`.

## 2. Modules

| Module | Models | Composes |
|---|---|---|
| `WorkerRuntime` | the transitions of one worker as operators: state × message → state × replies | — |
| `ProjectWorkerRuntime` | one worker under an arbitrary host | `WorkerRuntime` |
| `WorkerRuntimeProofs` | lemmas about a worker's transitions and its channels | `WorkerRuntime` |
| `ProjectWorkerRuntimeProofs` | theorems about one worker | `WorkerRuntimeProofs` |
| `SnapshotService` | what the server promises about texts, without saying how | — |
| `WorkspaceEngine` | the engine, its workers (`WorkerRuntime`) and their threads; implements `SnapshotService` | `WorkerRuntime`, `SnapshotService` |
| `WorkspaceEngineProofs` | theorems about the engine: types, no forgotten thread, what is committed is what the project holds | `WorkerRuntimeProofs` |
| `WorkspaceServiceProofs` | theorems about the engine: texts, answers, preemption, waiting requests, the refinement of `SnapshotService`; no project fails by itself, and what follows while nothing fails | `WorkspaceEngineProofs` |
| `EditorSession` | the session's commands, the server processes, the editor's documents and the notifications about them | — |
| `EditorDiagnostics` | the diagnostics beside the session, and the reports of the server | `EditorSession` |
| `EditorProofs` | theorems about both: types, one server at a time, nothing stale on display, an unchanged report is the one on display | `EditorDiagnostics` |
| `FiniteMap` | what the hash map promises its caller | — |
| `HashMap` | the table of `hash_map.silk`; implements `FiniteMap` | `FiniteMap` |
| `HashMapProofs` | theorems about the table: types, searches, counts, the end of probes, owners, the refinement | `HashMap` |
| `WasmMemory` | the linear memory of a compiled module | — |
| `WasmMemoryProofs` | theorems about the memory: types, free lists, owners, disjointness, exact refusals | `WasmMemory` |
| `MCProjectWorkerRuntime`, `MCWorkspaceEngine`, `MCEditor`, `MCHashMap`, `MCWasmMemory` | small instances for TLC | |

### WorkerRuntime and ProjectWorkerRuntime

`runtime` is `[active, committed, queries]`: `activeAnalysis`, `committed` with
`committedGeneration`, and `queries`. A document's bytes are a natural number (a stamp of the edit
that produced them), and what is known of the closed files is a stamp of the disk state. Each
operator is one handler with everything it calls: `StartAnalysis` supersedes the analysis it
displaces, `StartQuery` cancels the query with the same identifier, `Completed` installs the result,
clears the active analysis and posts the commit in one step (the code does not yield between its
check at line 260 and the assignment at 271). An analysis or a query may also end in a defect; a
query's defect posts nothing. `emitted` is the log of everything the worker posted: properties about
order are stated on it. The host keeps the only discipline the engine keeps (generations increase,
a request identifier is used once) and is otherwise arbitrary, so the results hold in the
composition. `Progress` messages are left out: they only feed the host's watchdog.

### WorkspaceEngine

JavaScript runs one fiber at a time up to the next real wait, so an action is what one fiber does
between two waits. The waits are: taking the signal, the debounce, `options.discover`, a worker's
readiness, a worker's exit, a message, a timer. Everything else (`accept`, sending, interrupting a
fiber, settling a deferred) is immediate.

| Code | Model |
|---|---|
| `accept`, `applyAccepted`, `detach` | `Open`, `ChangeAssociated`, `ChangeUndiscovered`, `Close`, `Invalidate` |
| `requestCurrent`, `registerWaiter`, `dispatch` | `Ask`, `Resume`, `Dispatch`; the deadline and cancellation are `Abandon` |
| `scheduleProject`, `settleProject`, `cancelQueries` | `Schedule`, `Settle`, `Affected` |
| `supervisor`, `awaitDebounce`, `processRetirements`, `processSupersedes`, `processDiscovery` | `TakeSignal`, `FinishRetirements`, `SupersedeThenDiscover`, `Discovered`, `Adopt`; `sup.pc` says at which wait the fiber is |
| `startPending`, `ensureWorker` | `DebounceIdle`, `DebounceStart`, `DebounceSpawn`, `SpawnFails`, `WorkerIsReady`, `WorkerNeverReady`, `ReadinessExpires` |
| `listen`, `handleWorkerMessage` | `ReceiveStale` … `ReceiveDied`, one per message |
| `retire` | `Retired` and `Dismiss` at once; the wait for the exit is in `sup`, `failing` or `leasing`; `Terminate` is the deadline |
| `failProject` | `Fail`, and after the wait `FinishFailure` |
| `resetWatchdog`, supersede lease | `NoProgress`, `Stall`, `LeaseExpires`, `FinishLease` |
| `shutdown` | `ShutdownBegins`, `ShutdownEnds` |
| worker thread | `WorkerAccepts`, `WorkerCommits`, `WorkerAnswers`, and the faults `WorkerDefects`, `WorkerForgetsQuery`, `WorkerDies`, `WorkerHangs` |

Abstractions, all of data or of time:

- One workspace directory with all its documents. A context that lost its last document is replaced
  by a new one when a document opens again, so old and new contexts coexist as in the code.
- A text is the stamp of its edit; a version restarts at 1 when a document is opened again.
- Timers: the debounce ends at any time no signal waits (a signal that waits wins the race of line
  704). A watchdog fires when the worker really does not work on the generation and nothing is on its
  way (`NoProgress`), and otherwise only as a counted fault (`Stall`, `lease`, `slowStart`).
- A dead thread is known to be dead at once; its error event, if any, is read later by the listener.
  Messages nobody reads any more are dropped.
- A commit covers every document of its analysis; a notification about a file of no interest is
  `foreign`.
- A waiter that was woken resumes at any later time, which allows more than the runtime does.
- Not modelled here: `refreshDiagnostics` and the `events` queue, a document that moves between two
  projects, events the ledger rejects, messages that fail to decode.

### EditorSession and EditorDiagnostics

An action is again what one fiber or callback does between two waits. A command holds the session's
one permit from `Begin` to its end; `command.at` says at which wait it is.

| Code | Model |
|---|---|
| `start`, `restart`, `stop`, `startUnlocked` | `Command` queues it, `Begin` gives it the permit, `Construct` up to the spawn |
| `makeProcess` in `ServerProcess.mts` | `Constructed`, `ConstructRefused`; `process[g]` and `exited` are the child and its exit event |
| `client.start`, `synchronize` | `ClientStarted`, `Ask`, `Answered`, `Woken`; a failure or the deadline is `StartFails` |
| `retire` | `Retire`, then `ExitAcknowledged` or `Terminate` |
| `documentChanged`, `documentClosed`, the client's notifications | `DocumentChanged`, `DocumentClosed`, `OpenDoc`; `Send` is the delivery |
| `start` and `pull` of the diagnostics, the server's handler | `StartDiagnostics`, `Pull`, `Reported`, `Converted` |
| a retriggered cancellation | `Deferred`, `Retry` |
| `clear`, `dispose`, `refresh` | `Clear`, `Dispose`, `Revise` (the server's side), `Refresh` |
| `diagnosticResultId` in `Server.ts`, `reportIdentifier` of the worker runtime | `Report`, `Identifier`, `numbered` |

A document is the number of its opening and its version, which is all a report can be compared by.
`revision` stands for everything else a report depends on, and `numbered` for the generation of the
document's project context in the server, which is what identifiers are built from. The reports
`unavailable:<version>` that the server gives of a project without a committed snapshot
(`Server.ts:252-258`) are not modelled: what is said of reports is about projects that can be
analysed. The server
accepts notifications in order and answers a pull after those that were sent before it. Fibers,
conversions and timers of a disposed generation are dropped at once; in the code they find their
scope closed. Not modelled: `request` and the invalidation subscribers (they change no session
state), a conversion that throws, and a kill that fails.

### HashMap and FiniteMap

The operations that the code runs to their end without a caller in between (a replacement, a removal,
a drop) are one action each; an insert that adds an entry is split at its allocations and at every
slot the growth moves: `BeginInsert`, `AllocateStates`, `AllocateEntries`, `OutOfMemory`, `Rehome`
per slot, `Install`, `Place`. The probe loops are written as what they find: `FoundAt` and `FreeAt`
say that every slot from the home slot to the result was passed for the reason the loop passes it.
That the loops end is then a property (`ProbesEnd`) and no assumption. A hash is any number: keys
stand for the classes of keys that compare equal. Values are told apart, so that who owns each of
them can be said.

`FiniteMap` has one step per operation. `Dict` is what both tables hold together, and the value of a
running insert is still the caller's until `Place`: the steps of the growth are stutters.

### WasmMemory

One action per function that is emitted: `heapAllocate` is `Reuse` or `Carve`, `heapRelease` is
`Release`, `reserveFrame` is `Enter`, `Overflow` or `WrapTrap`, `restoreFrame` is `Leave`. All
addresses are taken modulo `2 ^ WordBits`, as the emitted `i32` arithmetic is. A request that is
refused changes nothing and has no action. Memory that the host does not grow is such a refusal: the
bound of the address space stands for it. The blocks that the frames of a trap owned are leaked in
the code; here they may also be released, which allows more. The code's constants are a word of 32
bits, pages of 2^16 bytes, headers of 2^4 bytes and 27 classes.

## 3. Properties and runs

`SnapshotService` is the abstract specification: `accepted` texts, the `view` that can be queried,
and the `answer` of each request. The view holds accepted texts only, is withdrawn from a document in
the very step that revises it, and a request is answered from it with the text it was bound to, or
refused. `ImplementsService` maps the ledger to `accepted`, the documents of the committed project to
`view` and the requests to `answer`.

Passing runs:

| Run | Question | Bounds |
|---|---|---|
| `MCProjectWorkerRuntime` | Are verdicts final, is partial work never reused, does a query read its own generation, once, and is every generation reported ended? | 3 generations, 2 messages under way, 1 supersede, 1 query, 2 disk states |
| `EngineEdits` | Every interleaving of edits, notifications, closing and opening again, supervisor, workers, a request and a shutdown, also when a worker cannot be spawned: is the service implemented, is obsolete work pre-empted, does no healthy project fail, is no thread forgotten, does the newest text commit, does every request settle? | 1 document, 4 events, 2 contexts × 2 workers, 1 spawn that fails, `source` notifications |
| `EngineFaults` | One fault of any kind at any point: is stale work never committed, does a committed project rest on the accepted text, is no thread forgotten, is every answer current? | 1 document, 4 events, 2 contexts × 2 workers, 1 fault |
| `EngineShutdown` | Does shutdown end even if the worker hangs, dies or exits silently, with no running thread forgotten on the way, also with batches of two documents, discovered again after manifest notifications? | 2 documents, 3 events, 2 workers, 1 fault, `manifest` and `foreign` notifications, no request |
| `MCEditor` | Whatever the server does at any step of a start, restart or stop: do servers never overlap, is nothing stale shown, does every command end (but where `client.start` awaits a server that hangs), and does an edited document end up with its newest report? | 1 document, 2 openings, 2 versions, 1 restart and 1 stop, 1 fault, 1 revision |
| `MCHashMap` | Is the table a finite map whatever collides, wraps, is removed, grows or fails half way, and has everything one owner? | 6 keys, 3 values, widths 4, 8, 16 |
| `MCWasmMemory` | Do blocks and frames never overlap, are owners served and blocks found again, at every boundary of the classes and of the word? | words of 6 bits, pages of 16 bytes, 2 classes, 6 layouts, 3 frame sizes, 3 frames |

Why these bounds. In the engine, three stamps are what it takes to have an old generation, the
running one and the pending one; a fourth event lets something happen after a commit, and closing
and opening again, with its replacement context, fit in the four. One fault with two workers covers
a fault, the retirement it causes and the replacement. Two documents are needed only for discovery
batches. In the editor, one restart and
the stop give a start, a retirement with a successor and one without; the second opening has the
versions of the first again, and the revision makes two reports of one version. Documents do not
interact there except through the barrier and the server's numbering, which one document has too.
The six hashes of the map are chosen so that probe runs collide, wrap round the end of the table, or
do both, at every width; three widths give a first growth, a second one, and a third that is refused.
In the memory, the layouts lie on both sides of every class boundary, of the largest class, of the
header's alignment and of the end of the address space, and the word is small enough for all sums to
wrap. Symmetry is used nowhere. `CHECK_DEADLOCK FALSE` is said throughout because the bounded client
stops and a server at rest takes no step.

`SnapshotService` has no run of its own: it is the property of `EngineEdits`. `FiniteMap` is the property of `MCHashMap`.

Fairness in the engine and the worker (`Fairness` in the two modules): the JavaScript event loop
keeps running every fiber that can run, and a worker thread keeps taking messages and ends what it
started, so these are weakly fair, each fiber and each thread by itself; a timer whose condition
persists fires, so the watchdogs, the retirement deadline and the readiness deadline are weakly fair
too. The client owes nothing (no edit, request, cancellation or deadline of a request is fair),
faults are not fair, and no property relies on strong fairness. `RequestsSettle` therefore holds
without the deadline's help.

Fairness in the editor (`FairSpec`): the session's fiber (`Lifecycle`, with its deadlines), the
client's notifications, pulls, conversions, retries and refreshes, the answers of a server that runs,
and the exit event of a process that is dead. The editor, the user, faults, clean exits and `Revise`
are not fair. A server that hangs answers nothing, which is why `CommandsEnd` needs the deadlines,
and why it names the one step that has none (`StartHangs`).

Each property has a faulty variant of one of the modelled definitions beside it (named after what it
gets wrong) which violates it under the same configuration.

## 4. Known divergences

Runs that show a disagreement of the code with its own documents. Each is a finding in
`PROJECT.json`, with the line it contradicts:

| Run | What happens |
|---|---|
| `EngineLostEdit` | an edit accepted while a failed worker is retired is never analysed, because the circuit opens over it |
| `EditorStaleIdentity` | a document is discovered in another project whose context counts its generations anew; two reports get one identifier, the server answers that nothing changed, and the old report stays |
| `EditorUnreportedOpen` | a document opened in a session that is ready is pulled by nobody, and a refresh discards its report: no diagnostics until it is edited |
| `WasmHugeRequest` | a request of 2^32 - 15 bytes or more wraps past the overflow test and is granted a block of no bytes |
| `WasmStaticData` | more than 64 KiB of static data reach over the allocator's table, which the compiler does not test; the first block is carved over the data |

More were met and have no run of their own. The instance that shows each of them:

| What happens | Where | Instance |
|---|---|---|
| a document discovered during an analysis leaves a supersede nobody sends; the healthy project fails by its watchdog | `WorkspaceEngine.ts:655` | `HealthyProjectsDoNotFail` with 2 documents, 2 events |
| a supersede meant for a retired worker is sent to its replacement, whose commit is then ignored; the project stays pending | `WorkspaceEngine.ts:579` | `NewestCommits` with 2 documents, 3 events, 3 workers, no fault |
| a document edited, or closed and opened again, while the rest of its discovery batch is discovered gets its old text back, and requests are answered from it | `WorkspaceEngine.ts:624` | `AnswersAreCurrent` with 2 documents, 4 events, `manifest` |
| the dirty paths of a superseded analysis are lost; only the inventory of closed files (completion, auto-import) is affected | `WorkspaceEngine.ts:690` | `CommittedSeesDisk` with 1 document, 3 events, `source` |
| a worker that exits without an error event stays in its slot until the next edit | `ProjectWorker.ts:150` | `LostWorkerIsNoticed` with 1 document, 1 event, fault `exit` |
| a request bound to an edit that was accepted while a failed worker is retired is skipped by every later commit and ends at its deadline | `WorkspaceEngine.ts:411`, 189 | `RequestsSettle` with the fault `defect` |
| `shutdown` forgets a worker whose project was closed just before: the interrupted supervisor never drains `retirements` | `WorkspaceEngine.ts:863` | `NoOrphanWorker` without its exception for a closed engine |
| a server that hangs before it answers `initialize` blocks the command for ever, and a restart or stop behind it: the deadline begins after `client.start`. `packages/vscode/README.md:107` says that a restart "also recovers when the old server is unresponsive" | `EditorSession.mts:249` | `CommandsEnd` without its exception `StartHangs`, in `MCEditor` |
| of two conversions of one version that end out of order the older stays on display | `EditorDiagnostics.mts:78` | `ResultIsShown` with `InOrder = FALSE` |
| only the head of the irregular list is measured: two sizes that alternate carve without bound | `WasmMemory.ts:409` | `ReleasedBlocksAreReused` without its condition on the class |

The passing runs stay where these do not occur, and this is said by their constants:

- `HealthyProjectsDoNotFail`, `NewestCommits`, `RequestsSettle` and the refinement are checked with
  one document and no manifest notification: a document discovered while its project is analysed is
  what loses the signal. `OpenTextsAreCommitted` and `AnswersAreCurrent` are checked with one
  document, under every fault: what breaks them takes a batch of two.
- The only fault of `EngineEdits` is a worker that cannot be spawned. There is no worker in the slot
  then, so `failProject` awaits no exit and goes on at once: the situations in which its continuation
  breaks `ImplementsService`, `ObsoleteWorkIsPreempted` and `WaitersAwaitTheNewest` do not arise, nor
  does a lease. `PendingIsOwned` is not checked with two documents, because the supersede meant for a
  retired worker leaves a pending project that nobody owns.
- `EngineShutdown` says nothing of texts. With two documents and manifest notifications
  `OpenTextsAreCommitted` and `AnswersAreCurrent` are false from four events on, as said above;
  `CommittedTextsAreNewest` and `AnswersCurrent` (section 5) prove them up to that exception.
- In `MCEditor` `InOrder` is true and `Moves` false; its liveness is about documents that were
  edited. A server that hangs before it answers `initialize` is in the run, and `CommandsEnd` names
  it.
- `MCWasmMemory` has no layout within a header of the end of the address space, and its static data
  ends below the table.

Under faults the answers themselves are still current (`AnswersAreCurrent` in `EngineFaults`), and
what is shown as committed is what was analysed (`CommittedMatchesWorker`, proved for every fault).

The theorems do not avoid these situations by their constants: they name them, as hypotheses about
the behaviour, and show that nothing else breaks the promise.

| Hypothesis | The situation it excludes | Where | Needed for |
|---|---|---|---|
| `FoundIsUnrevised` | a document is found, and then revised before the rest of its batch is discovered | `WorkspaceEngine.ts:624` | `OpenTextsAreCommitted`, `AnswersAreCurrent`, `ImplementsService` |
| `RetriesFindNothingActive`, `RetriesFindNoWaiter`, `RetriesFindNoQuery` | while `failProject` waits for the exit of the worker, an edit starts a replacement or a request arrives; the retry counts a new generation and neither supersedes the one nor settles the other | `WorkspaceEngine.ts:411` | `ObsoleteWorkIsPreempted`, `WaitersAwaitTheNewest`, `ImplementsService` |
| `LeasesForgetNothing` | the continuation of an expired lease forgets a supersede sent to the replacement | `WorkspaceEngine.ts:604` | `ObsoleteWorkIsPreempted` |
| `SupersedesAreOfActive` | a supersede meant for a retired worker is noted against its replacement | `WorkspaceEngine.ts:579` | `PendingIsOwned` |
| `DiscoveryIsSeen` | a document discovered during an analysis leaves a supersede nobody sends | `WorkspaceEngine.ts:655` | `HealthyProjectsDoNotFail` |
| `NotReopened` | a request woken by a commit has not gone on when its document is closed and opened again, with the same version 1 | | `ImplementsService` |

The last is a behaviour of the model only: it lets a woken fiber resume at any later time, and the
runtime resumes it before the next message of the client is read. With one document
`FoundIsUnrevised` and `NotReopened` always hold; with one document, no manifest notification and no
fault all of them do. Both are proved.

The memory's hypotheses are about its constants:

| Hypothesis | The situation it excludes | Where | Needed for |
|---|---|---|---|
| `LayoutsFit` | a layout ends within a header of the end of the address space, as in `WasmHugeRequest` | `WasmMemory.ts:467` | `OwnersAreServed`, `LiveDataIsDisjoint`, `RefusedOnlyWhenFull` |
| `StaticEnd <= TableBase` | the static data reaches the allocator's table, as in `WasmStaticData` | `WasmBackend.ts:5930` | `LiveDataIsDisjoint` |

## 5. Proofs

`ProjectWorkerRuntimeProofs`, for every set of documents, requests and source sets and all bounds,
from `SourcesAssumption` (what a host sends is a snapshot, and there is one) and `BoundsAssumption`:

- `Typing`: `TypeOK`.
- `Finality` and `Basis`: `VerdictsAreFinal` and `BasisIsLastCommit`. Neither is inductive. The
  invariant `GenerationInv` adds that analyses wait in the inbox in increasing order and were issued
  (`InboxOrdered`, `InboxIssued`), that a generation reported ended is older than every analysis that
  waits or is issued later (`EndedAreOlder`), and that the running generation was issued, is older
  than those that wait and was never reported ended (`ActiveIsOpen`). With these a verdict, which is
  always on the running generation, cannot follow another report of it; a supersede for a generation
  that does not run is harmless for the same reason.
- `GenerationReads` and `SingleAnswers`: `AnswersReadTheirGeneration` and `OneAnswerPerRequest`,
  from `RequestInv`: a query that runs carries the text issued for its generation, which was reported
  committed (`QueriesRead`), and a request is at one place only: in the inbox, running, or answered
  (`InboxAsked`, `QueriesAsked`, `ResultsAsked`). `BasisIsLastCommit` provides the committed text.

These proofs have one lemma per kind of step; what a message does to the state is summarised once
(`AcceptCases`, `EndCases`). Both invariants were checked by TLC as invariants before they were
proved.

`WorkspaceEngineProofs`, for any documents, requests, faults, policy and bounds, from
`EngineAssumption` alone (the bounds are numbers, the kinds of faults and notifications are known
ones, and at least one context and one worker may exist):

- `Typing`: `TypeOK` of the engine with everything it drives. It is not inductive by itself:
  `Discovered` takes a new context when it has to, a woken request reads the context it names, and
  the records of fibers name workers. `TypeInv` adds `RequestsAreBound` (a request that waits for a
  context or asked its worker names a context and a document), `VersionsCount` and `BatchIsDated` (a
  document under discovery was open at a version that counts from one, so `Unrevised` implies that it
  is open still), `ContextsRemain` (when contexts are used up nothing can ask for another) and
  `LedgerIsCleared` (after shutdown no document is open). `ContextsRemain` is also why the bound in
  the guard of `Close` is as it is: the proof found an earlier form too weak.
- `NoOrphans`: `NoOrphanWorker`. Given the types, every step is *accounted for* (`Accounted`): slots
  are kept or given up under a deadline, a deadline is dropped only when its worker is gone, and a
  context that is left is queued for retirement or has no worker. `FailCovers` shows it for all
  callers of `failProject` at once; the only step that starts a thread (`DebounceSpawn`) is treated
  by itself. The theorem ends where the engine is closed, because closing it forgets the worker of a
  context that was closed just before (section 4).

There is one lemma per action (`OpenType` … `ShutdownEndsType`), a frame lemma per kind of step
(`ClientStepType`, `FiberStepType`, `QuietReceiveType`, `ThreadStepType`) and one lemma per helper of
the engine (`ScheduleType`, `FailType`, `SendType`, …).

- `CommittedWork`: `CommittedMatchesWorker`. A commit is taken when its generation is the project's
  and the active one; that the worker's basis is then really of the texts the project holds depends
  on everything on its way. `CommitInv` says what: the analyses in a worker and in its inbox have
  ever newer generations, none newer than the project's, older than it while one is pending, and the
  one of the project's generation carries its documents (`WorkOrdered`); a commit on its way from a
  running thread is of its basis or of an older one (`CommitsKnown`); the active generation is never a
  pending one (`ContextsMatch`, `EnsuredIsPending`); only the current context has documents
  (`CurrentInv`); a worker that was not spawned yet is not alive (`EpochsInOrder`); and the conclusion
  itself, for every context (`CommitHolds`). `CommitInv` is inductive relative to `TypeInv`.
- The host's steps are reduced to what they do to a context: `Held` and `Kept` allow a generation to
  grow, the active one and the slot to be given up, and nothing else; `HostKeeps` and `FrameCommits`
  conclude for all of them. The two steps that really advance, sending an analysis
  (`StartAnalysisOnCommits`) and taking a commit (`ReceiveCommitCommits`), are treated by themselves,
  and `ThreadKeeps` covers the workers. The theorem holds in the scenarios of section 4 as well: they
  lose work or answer from old text, but never show as committed what was not analysed.

`WorkspaceServiceProofs`, under the same assumption and for every fault, with the hypotheses of
section 4:

- `CommittedTextsAreNewest` and, for one document without a hypothesis, `OneCommittedTextIsNewest`:
  `OpenTextsAreCommitted`. `TextsInv` says when a project may hold an older text: only while
  the document waits in `discovery`, with a signal that will make the supervisor look
  (`DiscoveryIsSignaled`), or is in the batch under discovery, and while neither a commit nor the
  active analysis is of the project's newest generation (`Outdated`, `Lags`).
- `QueryableTextsAreNewest`: `ViewIsAccepted`, under the hypothesis of `CommittedTextsAreNewest`. It
  is about the engine's state that is the `view` of the service, every document of it: none that is
  closed is in it, and one that waits to be discovered again is in it with its accepted text only.
  `StoppedIsUncommitted` adds that nothing is in it once a shutdown has begun.
- `AnswersCurrent` and `OneAnswerIsCurrent`: `AnswersAreCurrent`. A query is answered by a worker
  that knows nothing of the engine's texts, so the invariant `AnswersHeld` follows a request through
  its worker's inbox, its queries and its outbox: as long as the request asks, the text
  it is bound to is the one its project holds and the accepted one (`QueryBound`), and every message
  about it carries that text (`Told`). An edit breaks that for its own project, and must therefore
  cancel the project's queries in the same step, which it does (`Settle`).
- `ObsoleteIsPreempted`, `PendingProjectsAreOwned`, `WaitersAwait`: the invariants of the scheduler.
  All rest on one summary of what a step may do to a context (`Move`: schedule, hand out, give up,
  fail, retry, commit, …), to the requests of a context it moves (`Served`), and to the
  contexts in use and in `retirements` (`Placed`); `WorkStep` proves it for every action once, so
  each of the three theorems is an argument about nine moves instead of forty actions.
- `EngineImplementsService` and `EngineImplementsServiceOfOne`: `ImplementsService`. `ServesInv`
  joins the invariants above; `RequestsExpect` adds what a waiting or woken request is bound to, by
  version and text. An accepted edit maps to `Revise`, a commit to `Publish`, what is scheduled again
  or fails to `Withdraw`, requests that are settled to `Refuse`, a request's registration to `Ask`
  and its result to `Answer`; every other step leaves the service's variables as they are.

`WorkspaceServiceProofs` shows, under the same assumption, that no project fails by itself:

- `HealthyDoNotFail` (`HealthyProjectsDoNotFail`, with `DiscoveryIsSeen`) and `OneHealthyDoesNotFail`
  (one document and no manifest notification, with no hypothesis about the behaviour). What must be
  excluded is that a watchdog, a lease or a failure report of a worker is the engine's own doing. The
  invariant is that an analysis the engine takes to be active is really on its way, running or
  reported, or is obsolete and its supersede is on its way (`Linked`, `Behind`, `Fields`); that a
  supersede is asked for only while a signal or the supervisor will send it (`Asked`); and that a
  worker in a slot is alive and listened to (`Attends`, `Slotted`). No step of such a state needs a
  fault, and `NoProgress`, `LeaseExpires` and the failures are not possible in it. The invariant was
  checked by TLC before it was proved. For one document, `Rediscovered` says that a document that has
  its project is discovered again only before the project is started, hence `DiscoveryIsSeen`.
- `HealthyEngineKeepsItsPromises`, `HealthyEngineOfOneKeepsItsPromises`: as long as no fault happens
  the invariant implies the remaining hypotheses of the theorems above, so a project keeps the three
  promises of the scheduler, and with one document the engine implements the service. This also shows
  that those hypotheses can be met: for one document, by every behaviour without faults and
  manifest notifications.

`HashMapProofs`, for any keys, values, hashes and widths, from `HashAssumption`, `WidthAssumption` and
`NothingAssumption`:

- `Typing` (`TypeOK`), `Reachability` (`StoredKeysAreFound`) and `Counting` (`CountsAreExact`). The
  invariant is `Inv`: the types; `Searches` (every occupied slot of the table that is being searched
  is found at its place, and the key that is being inserted is in none); `Unmoved` (during the growth
  the keys not yet moved differ from each other and from those that were); the exact counts; and
  `Room` (`length <= used <= capacity - capacity \div 4`).
- `Termination`: `ProbesEnd`. With as many marked slots as `used` counts, and `Room` above them, a
  vacant slot is left; the replacement is twice as wide and holds no more entries than the table.
- `Refinement`: `ImplementsFiniteMap`. `Pending` is the state of the map as a caller sees it; there
  is one simulation lemma for each step that decides something (`Exchange`, `Place`, `OutOfMemory`,
  `Remove`, `Drop`), and all other steps leave `Dict` and `Hands` as they are.
- `Ownership`: `StorageHasOneOwner`. That owners are counted to at most one is not inductive;
  `AllOnce` says it by places: a value is in one slot of one table, in the insert that runs, or in
  the caller's hands, and no two of them. `Buffered` counts the buffers by the phase of the growth,
  so that each of the two allocations of `rehome` may fail. `Slots` of a table after a write, a
  removal and a move are lemmas of their own.

`EditorProofs`, for any documents, commands, faults and bounds. The first three theorems assume of
the constants only that the bounds are numbers and the faults known ones (`EditorAssumption`,
`DiagnosticsAssumption`): they hold for conversions that end in any order (`InOrder`), documents that
move (`Moves`) and a server that hangs while it starts.

- `Typing`: `TypeOK`, which includes the bounds on generations and versions. That generations stay
  within theirs is an argument about commands: each that waits, and a restart that is still retiring,
  may construct one process, a stop none, and no command follows a stop (`Constructible`).

- `NoOverlap`: `NoServerOverlap`. It needs `Named` (the session names a generation from the
  construction of its process until its exit was observed, and says so in its status at every point
  of a command) and `ConstructedOnce` (no process exists for a generation still to come, and an exit
  that was observed is the death of the process). The two steps that matter are `ConstructInv`, which
  is only possible when no generation is named, and `ExitAcknowledged`, which gives up the name only
  of a process that is dead.
- `Freshness`: `ShownIsOfTheVersion`. The pulls that are not cancelled and the versions the gate
  accepts are of the version the document has (`PullsAreOfTheVersion`). A report is of the version it
  was pulled for because the server answers after the notifications sent before the pull: what it
  has accepted, or is still being sent, is what the editor has (`Connection`). That a conversion keeps
  the version of its report is part of its type (`Conversions`).
- `Identity`: `ResultIsShown`, assuming `InOrder` and `~Moves`: exactly what the run
  `EditorStaleIdentity` and the out-of-order divergence of section 4 give up. `ResultsInv` says of a
  document whose identifier is kept that the client is connected, nothing is unsent and the gate
  accepts its version (`Current`); that its report was numbered no later than the server has counted,
  and at the same count is of the same text and revision, so that `unchanged` is only answered for
  that report (`Identified`); that this report is the last being converted, or is shown (`Latest`);
  and that a pull names the identifier that is kept (`Previous`).

`WasmMemoryProofs`, for any width of a word, any number of classes, any layouts and any sizes of
frames, from `MemoryAssumption`: headers have at least four bytes and pages are no smaller, the table
has a class for powers of two of the word only, a layout and a frame have sizes that are words, and
the first block begins at least a header below the end of the address space (in the code, at
65536 + 112 of 2^32).
They are about modules whose static data ends below the table, or is zero there, as `Init` says.

- `Typing` (`TypeOK`), `Lists` (`EveryBlockIsOwnedOrListed`) and `Reused`
  (`ReleasedBlocksAreReused`), with no further hypothesis. The property of the lists is not
  inductive: it counts steps along `next` from each head, and says nothing of where a block in the
  middle points. `HeapInv` says that each list is a chain (`Chain`): an enumeration, without
  repetition, of exactly the blocks of this list that have no owner, along `next`, down to 0. Taking
  a head shortens one chain at its end, releasing a block lengthens one, and carving touches none. The
  headers (`HeadersInv`) are aligned, above the table and below `heapPointer`, so that a fresh block
  is none of the old ones, and a block of a class has the capacity of the class, which is why a
  head of a class needs no measuring. `HeapInv` holds even when a size wraps past the overflow test.
- `Served` (`OwnersAreServed`), if `LayoutsFit`: `OwnersInv` (the payload is aligned and large enough)
  and `FitInv` (blocks lie one above the other, below `heapPointer` and in mapped pages).
- `Disjoint` (`LiveDataIsDisjoint`), if also `StaticEnd <= TableBase`: `FitInv`, and `StackInv`, by
  which frames lie one above the other between the static data and the table.
- `RefusedOnlyWhenFull`: if `LayoutsFit`, `heapAllocate` refuses a fresh block exactly when the block
  would reach the end of the address space, computed without a width. The sums of the code wrap, and
  it tests two of them; this is the statement that two are enough. The same lemma (`RefusalIs`)
  carries the theorems above, and `LayoutsFit` is the condition it fails without.

The arithmetic is proved first. The provers know nothing of `2 ^ n` for a variable `n`, so
`PowerIsCount` identifies it with the number of subsets of `1 .. n`, from which powers double, grow
and divide each other. Induction over numbers (`Induction`) is the least number of a set, which comes
from the well-founded order of finite sets and needs no operator as a parameter; `WalkIs` uses it for
the recursive function `After`. What rounding down and wrapping do to multiples is stated once
(`CursorIs`, and the lemmas on remainders before it). `FitInv`, `StackInv` and the bounds of
`heapPointer` were checked by TLC, on the instance of `MCWasmMemory`, before they were proved; that
lists are chains is what `EveryBlockIsOwnedOrListed` says there.

Only model-checked: liveness (`EveryGenerationEnds`, `NewestCommits`, `RequestsSettle`,
`ShutdownCompletes`, `CommandsEnd`, `EditedDocumentsAreReported`), which TLAPS does not cover. Every
invariant and every action property of a passing run, and both refinements, are theorems. The
divergences of section 4 are shown by TLC on their instances.

## 6. Not modelled, and plan

1. Several workspaces in the engine: `ProjectAssociation`, documents that move between projects,
   `WorkspaceCatalog`'s per-module inventory, `SourceLedger`'s rejected events, and the composition of
   the editor with `SnapshotService` through result identifiers that name contexts.
2. Two-fault instances for the late error event, the late end of a lease, and the failure count.
3. Incremental reuse against full recomputation; the life of a coroutine frame.

Not planned:

- the WebContainer platform: what its scoped processes guarantee rests on the interruption and scope
  semantics of a library outside the repository, which a model would have to take on trust;
- the other collections: `hash_set` repeats the map's algorithm without values; `vector` and
  `raw_buffer` are single steps;
- parsers, type checking, bootstrap evaluation, code generators, encoders, renderers and
  command-line workflows. They are deterministic functions of large data or sequences of file
  operations, where TLC reaches little and the repository's own tests reach far. They are most of
  the repository's lines, so what is modelled is a small share of them: the part that keeps state.

## 7. Running

    tlc -config EngineEdits.cfg MCWorkspaceEngine.tla     # every Engine*.cfg
    tlc -config MCProjectWorkerRuntime.cfg MCProjectWorkerRuntime.tla
    tlc -config MCEditor.cfg MCEditor.tla                 # and Editor*.cfg
    tlc -config MCHashMap.cfg MCHashMap.tla
    tlc -config MCWasmMemory.cfg MCWasmMemory.tla         # and WasmHugeRequest.cfg, WasmStaticData.cfg
    tlapm ProjectWorkerRuntimeProofs.tla
    tlapm WorkspaceEngineProofs.tla
    tlapm WorkspaceServiceProofs.tla
    tlapm HashMapProofs.tla
    tlapm EditorProofs.tla
    tlapm WasmMemoryProofs.tla
