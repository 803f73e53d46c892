--------------------------- MODULE WorkspaceEngine ---------------------------
(***************************************************************************)
(* The language server's scheduler (packages/lsp/src/WorkspaceEngine.ts)   *)
(* with the compiler workers it drives (ProjectWorkerRuntime.ts, through   *)
(* WorkerRuntime) and the threads that carry them (ProjectWorker.ts).      *)
(*                                                                         *)
(* The engine runs in one JavaScript thread.  Its fibers (the supervisor,  *)
(* one listener per worker, the watchdogs, the requests) run without       *)
(* interruption up to the next point where they really wait, so an action  *)
(* here is what one fiber does between two such points, and everything     *)
(* else may happen in between.                                             *)
(*                                                                         *)
(* One workspace directory is modelled, with all its documents; a project  *)
(* context that lost its last document is replaced by a new context when a *)
(* document is opened again.  A worker is named <<context, epoch>>.        *)
(***************************************************************************)
EXTENDS WorkerRuntime, FiniteSets

CONSTANTS MaxContexts,   \* bound: project contexts created
          MaxEpoch,      \* bound: workers spawned for one context
          MaxEvents,     \* bound: source events accepted
          MaxFaults,     \* bound: faults of workers and timers
          FailureLimit,  \* policy.failureLimit
          FaultKinds,    \* which faults may happen
          FileEvents,    \* which file-system notifications arrive
          AllowShutdown  \* whether the client shuts the server down

AllFaults ==
  {"crash", "exit", "hang", "defect", "queryDefect", "stall", "lease", "spawn", "slowStart"}
AllFileEvents == {"foreign", "source", "manifest"}

ASSUME EngineAssumption ==
  /\ MaxContexts \in Nat \ {0} /\ MaxEpoch \in Nat \ {0}
  /\ MaxEvents \in Nat /\ MaxFaults \in Nat
  /\ FailureLimit \in Nat \ {0}
  /\ FaultKinds \subseteq AllFaults
  /\ FileEvents \subseteq AllFileEvents
  /\ AllowShutdown \in BOOLEAN

Contexts == 1..MaxContexts
Epochs == 1..MaxEpoch
Workers == Contexts \X Epochs

VARIABLES ledger,        \* SourceLedger: the accepted text of each open document
          events,        \* how many source events were accepted; stamps texts
          disk,          \* stamp of the closed files on disk
          discovery,     \* documents whose project must be discovered
          project,       \* the project contexts
          current,       \* the context in `projects', 0 if there is none
          created,       \* how many contexts were created
          retirements,   \* contexts whose worker the supervisor must retire
          signal,        \* the sliding queue of capacity one
          sup,           \* where the supervisor fiber waits, and for which workers
          batch,         \* the discovery the supervisor is in
          failing,       \* failProject calls waiting for the worker they retire
          leasing,       \* workers a superseded lease is retiring
          proc,          \* worker threads
          ready,         \* the deferred of each worker slot
          listening,     \* workers whose listener fiber has not returned
          shuttingDown,  \* workers under a retirement deadline
          inbox,         \* messages on their way to a worker
          outbox,        \* messages and thread errors on their way to the host
          runtime,       \* the state inside each worker
          req,           \* the client's requests
          faults,        \* how many faults happened
          engine         \* open, closing or closed, and the workers shutdown awaits

sourceVars == <<ledger, events, disk>>
projectVars == <<project, current, created, retirements>>
fiberVars == <<sup, batch, failing, leasing>>
threadVars == <<proc, ready, listening, runtime>>
vars == <<sourceVars, discovery, projectVars, signal, fiberVars, threadVars,
          shuttingDown, inbox, outbox, req, faults, engine>>

-----------------------------------------------------------------------------
\* Values.

Unopened == [version |-> 0, text |-> NoText]

NewProject ==
  [docs |-> NoSources, gen |-> 0, state |-> "Pending", pending |-> FALSE,
   active |-> 0, supersedeRequested |-> 0, awaitingSupersede |-> 0,
   epoch |-> 0, slot |-> 0, dirty |-> FALSE, rediscover |-> FALSE,
   failureCount |-> 0, circuit |-> "Closed"]

NoBatch == [doc |-> 0, version |-> 0, text |-> NoText, rest |-> {}, found |-> NoSources]

NewRequest == [pc |-> "idle", doc |-> 0, version |-> 0, gen |-> 0, ctx |-> 0,
               outcome |-> "none", text |-> NoText, epoch |-> 0]

Settled(r, outcome) == [NewRequest EXCEPT !.pc = "done", !.doc = r.doc, !.outcome = outcome]

Died == [tag |-> "Died"]

Supervisor(pc, on) == [pc |-> pc, on |-> on]

IsOpen(d) == ledger[d] # Unopened
Associated(d) == current # 0 /\ project[current].docs[d] # NoText
HasDocuments(p) == p.docs # NoSources
SlotOf(c) == <<c, project[c].slot>>
Alive(w) == proc[w] \in {"live", "hung"}
Running == engine.phase = "open"

Init ==
  /\ ledger = [d \in Docs |-> Unopened]
  /\ events = 0
  /\ disk = 0
  /\ discovery = {}
  /\ project = [c \in Contexts |-> NewProject]
  /\ current = 0
  /\ created = 0
  /\ retirements = {}
  /\ signal = FALSE
  /\ sup = Supervisor("idle", {})
  /\ batch = NoBatch
  /\ failing = {}
  /\ leasing = {}
  /\ proc = [w \in Workers |-> "unborn"]
  /\ ready = [w \in Workers |-> "waiting"]
  /\ listening = {}
  /\ shuttingDown = {}
  /\ inbox = [w \in Workers |-> <<>>]
  /\ outbox = [w \in Workers |-> <<>>]
  /\ runtime = [w \in Workers |-> Fresh]
  /\ req = [r \in Requests |-> NewRequest]
  /\ faults = 0
  /\ engine = [phase |-> "open", on |-> {}]

-----------------------------------------------------------------------------
\* What the handlers are built from.

\* Deferreds: the waiters of a document, the waiters and the queries of a context.
DiscoveryWaiters(S) == {r \in Requests : req[r].pc = "discovering" /\ req[r].doc \in S}
ProjectWaiters(c) == {r \in Requests : req[r].pc = "waiting" /\ req[r].ctx = c}
ProjectQueries(c) == {r \in Requests : req[r].pc = "querying" /\ req[r].ctx = c}

\* Faulty variants of Affected: the queries run on; the waiters wait on.
AffectedWaitersOnly(c) == ProjectWaiters(c)
AffectedQueriesOnly(c) == ProjectQueries(c)

\* What settleProject and cancelQueries settle.
Affected(c) == ProjectWaiters(c) \cup ProjectQueries(c)

Settle(S, outcome) ==
  req' = [r \in Requests |-> IF r \in S THEN Settled(req[r], outcome) ELSE req[r]]

\* Faulty variants of Schedule: the running generation is not superseded; the
\* new generation is not marked as pending; the state is the one the old
\* generation ends in.
ScheduleWithoutSupersede(p) ==
  IF p.state = "Closed" THEN p
  ELSE [p EXCEPT !.gen = @ + 1, !.state = "Pending", !.pending = TRUE]
ScheduleUnmarked(p) ==
  IF p.state = "Closed" THEN p
  ELSE [p EXCEPT !.supersedeRequested = IF p.active # 0 THEN p.active ELSE @,
                 !.gen = @ + 1, !.state = "Pending"]
ScheduleAsSuperseded(p) ==
  [p EXCEPT !.gen = @ + 1, !.state = "Superseded", !.pending = TRUE]

\* scheduleProject on the context's fields; the caller settles its waiters and
\* queries as superseded.
Schedule(p) ==
  IF p.state = "Closed" THEN p
  ELSE [p EXCEPT !.circuit = IF @ = "Open" THEN "HalfOpen" ELSE @,
                 !.supersedeRequested = IF p.active # 0 THEN p.active ELSE @,
                 !.gen = @ + 1,
                 !.state = "Pending",
                 !.pending = TRUE]

\* The part of retire that runs before the worker is awaited.
Retired(p) == [p EXCEPT !.slot = 0, !.active = 0, !.awaitingSupersede = 0]

Send(w, m) == inbox' = IF Alive(w) THEN [inbox EXCEPT ![w] = Append(@, m)] ELSE inbox

\* Faulty variant of Dismiss: no deadline is put on the retirement.
DismissForever(S) ==
  /\ UNCHANGED shuttingDown
  /\ inbox' = [w \in Workers |->
                 IF w \in S /\ Alive(w) THEN Append(inbox[w], Shutdown) ELSE inbox[w]]

\* A worker slot is given up: the thread is asked to shut down and comes under
\* the retirement deadline.
Dismiss(S) ==
  /\ shuttingDown' = shuttingDown \cup S
  /\ inbox' = [w \in Workers |->
                 IF w \in S /\ Alive(w) THEN Append(inbox[w], Shutdown) ELSE inbox[w]]

Exited(S) == \A w \in S : proc[w] = "exited"

StopListening(w) ==
  /\ listening' = listening \ {w}
  /\ outbox' = [outbox EXCEPT ![w] = <<>>]

\* Faulty variant of AfterFailure: the limit is one failure too low.
AfterFailureTooEarly(p, halfOpen) ==
  IF ~HasDocuments(p) THEN p
  ELSE IF halfOpen \/ p.failureCount + 1 >= FailureLimit
  THEN [p EXCEPT !.circuit = "Open"]
  ELSE [p EXCEPT !.gen = @ + 1, !.state = "Pending", !.pending = TRUE]

\* failProject after the worker is gone: the failure opens the circuit or is
\* retried as a new generation.
AfterFailure(p, halfOpen) ==
  IF ~HasDocuments(p) THEN p
  ELSE IF halfOpen \/ p.failureCount >= FailureLimit
  THEN [p EXCEPT !.circuit = "Open"]
  ELSE [p EXCEPT !.gen = @ + 1, !.state = "Pending", !.pending = TRUE]

\* failProject on context c with fields p, called by the supervisor or not.
\* It waits for the worker it retires, if there is one.
Fail(c, p, supervised) ==
  LET failed == [p EXCEPT !.state = "Failed", !.failureCount = @ + 1]
      halfOpen == p.circuit = "HalfOpen"
      next == AfterFailure(Retired(failed), halfOpen)
      w == <<c, p.slot>>
  IN /\ Settle(Affected(c), "analysisFailed")
     /\ IF p.slot = 0
        THEN /\ project' = [project EXCEPT ![c] = next]
             /\ signal' = (signal \/ next.state = "Pending")
             /\ sup' = IF supervised THEN Supervisor("idle", {}) ELSE sup
             /\ UNCHANGED <<failing, shuttingDown, inbox>>
        ELSE /\ project' = [project EXCEPT ![c] = Retired(failed)]
             /\ failing' = failing \cup
                  {[worker |-> w, halfOpen |-> halfOpen, supervised |-> supervised]}
             /\ Dismiss({w})
             /\ sup' = IF supervised THEN Supervisor("failing", {w}) ELSE sup
             /\ UNCHANGED signal

Fault(kind) ==
  /\ kind \in FaultKinds
  /\ faults < MaxFaults
  /\ faults' = faults + 1

-----------------------------------------------------------------------------
\* Source events.  accept applies an event at once and signals the supervisor.

SourceEvent ==
  /\ Running
  /\ events < MaxEvents
  /\ events' = events + 1
  /\ signal' = TRUE
  /\ UNCHANGED <<fiberVars, threadVars, shuttingDown, inbox, outbox, faults, engine>>

\* A document is opened with version 1.
Open(d) ==
  /\ SourceEvent
  /\ ~IsOpen(d)
  /\ current # 0 \/ created < MaxContexts
  /\ ledger' = [ledger EXCEPT ![d] = [version |-> 1, text |-> events + 1]]
  /\ discovery' = discovery \cup {d}
  /\ Settle(DiscoveryWaiters({d}), "superseded")
  /\ UNCHANGED <<disk, projectVars>>

\* An edit of a document that has a project.
ChangeAssociated(d) ==
  /\ SourceEvent
  /\ IsOpen(d) /\ Associated(d)
  /\ ledger' = [ledger EXCEPT ![d] = [version |-> @.version + 1, text |-> events + 1]]
  /\ project' = [project EXCEPT ![current] = Schedule([@ EXCEPT !.docs[d] = events + 1])]
  /\ Settle(DiscoveryWaiters({d}) \cup Affected(current),
            "superseded")
  /\ UNCHANGED <<disk, discovery, current, created, retirements>>

\* An edit of a document whose project is not discovered yet.
ChangeUndiscovered(d) ==
  /\ SourceEvent
  /\ IsOpen(d) /\ ~Associated(d)
  /\ ledger' = [ledger EXCEPT ![d] = [version |-> @.version + 1, text |-> events + 1]]
  /\ discovery' = discovery \cup {d}
  /\ Settle(DiscoveryWaiters({d}), "superseded")
  /\ UNCHANGED <<disk, projectVars>>

\* Contexts are bounded: the last document of the last context is closed only
\* when no document and no discovery could ask for another context.
ContextsSuffice(d) ==
  \/ created < MaxContexts
  \/ \A e \in Docs : (e = d \/ ~IsOpen(e) \/ Associated(e)) /\ batch.found[e] = NoText

\* Faulty variant of Leaving: the worker of a closed context is forgotten.
LeavingUnretired(c, last) == retirements

\* The retirements after a document left context c.
Leaving(c, last) == IF last THEN retirements \cup {c} ELSE retirements

\* detach closes the context that loses its last document, and reschedules any
\* other.  The waiters of the document settle as closed, the others as superseded.
Close(d) ==
  /\ SourceEvent
  /\ IsOpen(d)
  /\ ContextsSuffice(d)
  /\ ledger' = [ledger EXCEPT ![d] = Unopened]
  /\ discovery' = discovery \ {d}
  /\ IF ~Associated(d)
     THEN Settle(DiscoveryWaiters({d}), "closed") /\ UNCHANGED projectVars
     ELSE LET c == current
              left == [project[c] EXCEPT !.docs[d] = NoText]
              last == ~HasDocuments(left)
          IN /\ req' = [r \in Requests |->
                   IF r \in Affected(c) /\ ~last /\ ~(r \in ProjectWaiters(c) /\ req[r].doc = d)
                   THEN Settled(req[r], "superseded")
                   ELSE IF r \in Affected(c) \cup DiscoveryWaiters({d})
                   THEN Settled(req[r], "closed") ELSE req[r]]
             /\ project' = [project EXCEPT ![c] =
                   IF last THEN [left EXCEPT !.state = "Closed"] ELSE Schedule(left)]
             /\ current' = IF last THEN 0 ELSE c
             /\ retirements' = Leaving(c, last)
             /\ UNCHANGED created
  /\ UNCHANGED disk

\* A file-system notification: a source file of the project (its path becomes
\* dirty), a manifest (every open document is rediscovered), or a file of
\* neither kind, which only wakes the supervisor.
Invalidate(kind) ==
  /\ SourceEvent
  /\ kind \in FileEvents
  /\ disk' = IF kind = "source" THEN events + 1 ELSE disk
  /\ discovery' = IF kind = "manifest" THEN discovery \cup {d \in Docs : IsOpen(d)} ELSE discovery
  /\ IF current = 0 THEN UNCHANGED <<project, req>>
     ELSE LET p == [project[current] EXCEPT !.dirty = @ \/ kind = "source",
                                            !.rediscover = @ \/ kind = "manifest"]
          IN IF p.dirty \/ kind = "manifest"
             THEN /\ project' = [project EXCEPT ![current] = Schedule(p)]
                  /\ Settle(Affected(current), "superseded")
             ELSE UNCHANGED <<project, req>>
  /\ UNCHANGED <<ledger, current, created, retirements>>

-----------------------------------------------------------------------------
\* Requests.  requestCurrent answers at once, waits for a discovery or a
\* commit, or asks the worker.

ClientStep ==
  /\ Running
  /\ UNCHANGED <<sourceVars, discovery, projectVars, signal, fiberVars, threadVars,
                 shuttingDown, outbox, faults, engine>>

\* dispatch: the query goes to the worker in the slot; a slot that is empty or
\* a thread that is gone makes the answer unavailable.
Dispatch(r, d, c) ==
  LET w == SlotOf(c)
  IN IF project[c].slot = 0 \/ ~Alive(w)
     THEN /\ req' = [req EXCEPT ![r] = Settled([@ EXCEPT !.doc = d], "unavailable")]
          /\ UNCHANGED inbox
     ELSE /\ req' = [req EXCEPT ![r] =
                [NewRequest EXCEPT !.pc = "querying", !.doc = d, !.ctx = c,
                                   !.version = ledger[d].version, !.text = ledger[d].text,
                                   !.gen = project[c].gen, !.epoch = project[c].slot]]
          /\ Send(w, Query(project[c].gen, r, d))

Ask(r, d) ==
  /\ ClientStep
  /\ req[r].pc = "idle"
  /\ LET asked == [NewRequest EXCEPT !.doc = d, !.version = ledger[d].version,
                                    !.text = ledger[d].text]
         p == project[current]
     IN \/ /\ ~IsOpen(d)
           /\ req' = [req EXCEPT ![r] = Settled(asked, "closed")]
           /\ UNCHANGED inbox
        \/ /\ IsOpen(d) /\ ~Associated(d)
           /\ req' = [req EXCEPT ![r] = [asked EXCEPT !.pc = "discovering"]]
           /\ UNCHANGED inbox
        \/ /\ IsOpen(d) /\ Associated(d) /\ p.state = "Committed"
           /\ Dispatch(r, d, current)
        \/ /\ IsOpen(d) /\ Associated(d) /\ p.state = "Failed"
           /\ req' = [req EXCEPT ![r] = Settled(asked, "analysisFailed")]
           /\ UNCHANGED inbox
        \/ /\ IsOpen(d) /\ Associated(d) /\ p.state = "Pending"
           /\ req' = [req EXCEPT ![r] =
                [asked EXCEPT !.pc = "waiting", !.gen = p.gen, !.ctx = current]]
           /\ UNCHANGED inbox

\* A waiter whose generation committed goes on: it checks that the document and
\* the context did not change since, and asks the worker.
Resume(r) ==
  /\ ClientStep
  /\ req[r].pc = "woken"
  /\ LET d == req[r].doc
         c == req[r].ctx
     IN IF ledger[d].version = req[r].version /\ project[c].state = "Committed"
             /\ project[c].docs[d] # NoText
        THEN Dispatch(r, d, c)
        ELSE /\ req' = [req EXCEPT ![r] = Settled(@, "superseded")]
             /\ UNCHANGED inbox

\* A deadline or the client's cancellation interrupts the request: its waiter is
\* removed, and a query that runs is cancelled in the worker.
Abandon(r) ==
  /\ ClientStep
  /\ req[r].pc \in {"discovering", "waiting", "woken", "querying"}
  /\ req' = [req EXCEPT ![r] = Settled(@, "abandoned")]
  /\ IF req[r].pc = "querying"
     THEN Send(<<req[r].ctx, req[r].epoch>>, CancelQuery(r))
     ELSE UNCHANGED inbox

-----------------------------------------------------------------------------
\* The supervisor: retirements, supersedes, discovery, debounce, start.

\* processSupersedes and the beginning of processDiscovery, in contexts whose
\* retirements are done.  A supersede that cannot be sent retires the worker,
\* which is gone already.
SupersedeThenDiscover(P, signaled) ==
  LET c == current
      p == P[c]
      wanted == c # 0 /\ p.supersedeRequested # 0 /\ p.slot # 0
      gone == wanted /\ ~Alive(<<c, p.slot>>)
      marked == [p EXCEPT !.supersedeRequested = 0, !.awaitingSupersede = p.supersedeRequested]
      open == {d \in discovery : IsOpen(d)}
  IN /\ project' = IF wanted
                   THEN [P EXCEPT ![c] = IF gone THEN Retired(marked) ELSE marked]
                   ELSE P
     /\ signal' = (signaled \/ gone)
     /\ IF wanted
        THEN Send(<<c, p.slot>>, SupersedeAnalysis(p.supersedeRequested))
        ELSE UNCHANGED inbox
     /\ discovery' = {}
     /\ IF open = {}
        THEN batch' = NoBatch /\ sup' = Supervisor("debounce", {})
        ELSE /\ \E d \in open :
                  batch' = [doc |-> d, version |-> ledger[d].version, text |-> ledger[d].text,
                            rest |-> discovery \ {d}, found |-> NoSources]
             /\ sup' = Supervisor("discovering", {})

SupervisorStep ==
  /\ Running
  /\ UNCHANGED <<sourceVars, faults, engine>>

\* The supervisor takes the signal, in its outer loop or while it debounces.
TakeSignal ==
  /\ SupervisorStep
  /\ sup.pc \in {"idle", "debounce"}
  /\ signal
  /\ LET slots == {SlotOf(c) : c \in {k \in retirements : project[k].slot # 0}}
         left == [c \in Contexts |->
                    IF c \in retirements THEN Retired(project[c]) ELSE project[c]]
     IN \/ /\ slots = {}
           /\ SupersedeThenDiscover(left, FALSE)
           /\ UNCHANGED shuttingDown
        \/ /\ slots # {}
           /\ project' = left
           /\ Dismiss(slots)
           /\ sup' = Supervisor("retiring", slots)
           /\ signal' = FALSE
           /\ UNCHANGED <<discovery, batch>>
  /\ retirements' = {}
  /\ UNCHANGED <<current, created, failing, leasing, threadVars, outbox, req>>

\* The retired workers are gone.
FinishRetirements ==
  /\ SupervisorStep
  /\ sup.pc = "retiring"
  /\ Exited(sup.on)
  /\ SupersedeThenDiscover(project, signal)
  /\ shuttingDown' = shuttingDown \ sup.on
  /\ UNCHANGED <<current, created, retirements, failing, leasing, threadVars, outbox, req>>

\* The end of processDiscovery: every document found joins the project in one
\* step, in a new context if there is none, and the project is scheduled once.
Adopt(found) ==
  LET touched == {d \in Docs : found[d] # NoText}
      c == IF current # 0 THEN current ELSE created + 1
      p == project[c]
      docs == [d \in Docs |-> IF d \in touched THEN found[d] ELSE p.docs[d]]
  IN IF touched = {} THEN UNCHANGED <<project, current, created, req>>
     ELSE /\ project' = [project EXCEPT ![c] =
               Schedule([p EXCEPT !.docs = docs, !.rediscover = FALSE])]
          /\ current' = c
          /\ created' = IF current # 0 THEN created ELSE created + 1
          /\ Settle(DiscoveryWaiters(touched) \cup Affected(c),
                    "superseded")

\* Faulty variant of Unrevised: the version is not compared.
UnrevisedIfOpen(d, version) == IsOpen(d)

\* The document did not change since its discovery began.
Unrevised(d, version) == ledger[d].version = version

\* options.discover returns for one document.  A document that changed while it
\* was discovered is left to a later discovery; one that did not is kept until
\* the rest of the batch is done.
Discovered ==
  /\ SupervisorStep
  /\ sup.pc = "discovering"
  /\ LET d == batch.doc
         same == Unrevised(d, batch.version)
         found == IF same THEN [batch.found EXCEPT ![d] = batch.text] ELSE batch.found
         rest == {e \in batch.rest : IsOpen(e)}
     IN /\ discovery' = IF ~same /\ IsOpen(d) THEN discovery \cup {d} ELSE discovery
        /\ IF rest # {}
           THEN /\ \E e \in rest :
                     batch' = [doc |-> e, version |-> ledger[e].version, text |-> ledger[e].text,
                               rest |-> batch.rest \ {e}, found |-> found]
                /\ UNCHANGED <<project, current, created, req, sup>>
           ELSE /\ Adopt(found)
                /\ batch' = NoBatch
                /\ sup' = Supervisor("debounce", {})
  /\ UNCHANGED <<retirements, signal, failing, leasing, threadVars, shuttingDown, inbox, outbox>>

Startable(c) ==
  /\ c # 0
  /\ project[c].pending
  /\ project[c].active = 0
  /\ project[c].awaitingSupersede = 0
  /\ project[c].circuit # "Open"

\* The end of startPending for context c: the newest documents go to worker w.
\* A worker that is gone makes the generation fail.
StartAnalysisOn(c, w) ==
  LET p == project[c]
      started == [p EXCEPT !.pending = FALSE, !.active = p.gen,
                           !.dirty = FALSE, !.rediscover = FALSE]
  IN IF Alive(w)
     THEN /\ project' = [project EXCEPT ![c] = started]
          /\ Send(w, Analyze(p.gen, p.docs, p.dirty \/ p.rediscover))
          /\ sup' = Supervisor("idle", {})
          /\ UNCHANGED <<signal, failing, shuttingDown, req>>
     ELSE Fail(c, started, TRUE)

\* The debounce ends with nothing to start, or the project that has a worker and is
\* to be started failed.
DebounceIdle ==
  /\ SupervisorStep
  /\ sup.pc = "debounce" /\ ~signal
  /\ Startable(current) => project[current].slot # 0 /\ project[current].state # "Pending"
  /\ sup' = Supervisor("idle", {})
  /\ UNCHANGED <<discovery, projectVars, signal, batch, failing, leasing, threadVars,
                 shuttingDown, inbox, outbox, req>>

\* The debounce ends and the project's worker is there.
DebounceStart ==
  /\ SupervisorStep
  /\ sup.pc = "debounce" /\ ~signal
  /\ Startable(current) /\ project[current].slot # 0 /\ project[current].state = "Pending"
  /\ StartAnalysisOn(current, SlotOf(current))
  /\ UNCHANGED <<discovery, current, created, retirements, batch, leasing, threadVars, outbox>>

\* The debounce ends and a worker is spawned; the supervisor waits until it is ready.
DebounceSpawn ==
  /\ SupervisorStep
  /\ sup.pc = "debounce" /\ ~signal
  /\ Startable(current) /\ project[current].slot = 0
  /\ project[current].epoch < MaxEpoch
  /\ LET e == project[current].epoch + 1
         w == <<current, e>>
     IN /\ project' = [project EXCEPT ![current].epoch = e, ![current].slot = e]
        /\ proc' = [proc EXCEPT ![w] = "live"]
        /\ listening' = listening \cup {w}
        /\ inbox' = [inbox EXCEPT ![w] = <<Initialize>>]
        /\ sup' = Supervisor("ensuring", {w})
  /\ UNCHANGED <<discovery, current, created, retirements, signal, batch, failing, leasing,
                 ready, runtime, shuttingDown, outbox, req>>

\* The debounce ends and the worker cannot be spawned.
SpawnFails ==
  /\ Running
  /\ UNCHANGED <<sourceVars, engine>>
  /\ Fault("spawn")
  /\ sup.pc = "debounce" /\ ~signal
  /\ Startable(current) /\ project[current].slot = 0
  /\ Fail(current, [project[current] EXCEPT !.epoch = @ + 1], TRUE)
  /\ UNCHANGED <<discovery, current, created, retirements, batch, leasing, threadVars, outbox>>

\* The worker is ready.  The project may have been closed or have failed while
\* the supervisor waited.
WorkerIsReady ==
  /\ SupervisorStep
  /\ sup.pc = "ensuring"
  /\ \E w \in sup.on :
       /\ ready[w] = "ready"
       /\ IF project[w[1]].state # "Pending"
          THEN /\ sup' = Supervisor("idle", {})
               /\ UNCHANGED <<project, signal, failing, shuttingDown, inbox, req>>
          ELSE StartAnalysisOn(w[1], w)
  /\ UNCHANGED <<discovery, current, created, retirements, batch, leasing, threadVars, outbox>>

\* The worker's thread reported an error before it was ready.
WorkerNeverReady ==
  /\ SupervisorStep
  /\ sup.pc = "ensuring"
  /\ \E w \in sup.on :
       /\ ready[w] = "failed"
       /\ Fail(w[1], project[w[1]], TRUE)
  /\ UNCHANGED <<discovery, current, created, retirements, batch, leasing, threadVars, outbox>>

\* The worker is not ready within the retirement deadline: it is slow, or its
\* thread exited without an error.
ReadinessExpires ==
  /\ Running
  /\ UNCHANGED <<sourceVars, engine>>
  /\ sup.pc = "ensuring"
  /\ \E w \in sup.on :
       /\ ready[w] = "waiting"
       /\ IF proc[w] = "live" THEN Fault("slowStart") ELSE UNCHANGED faults
       /\ Fail(w[1], project[w[1]], TRUE)
  /\ UNCHANGED <<discovery, current, created, retirements, batch, leasing, threadVars, outbox>>

-----------------------------------------------------------------------------
\* The listener of a worker: one message of its outbox.

Receive(w, tag) ==
  /\ Running
  /\ w \in listening
  /\ outbox[w] # <<>>
  /\ Head(outbox[w]).tag = tag
  /\ UNCHANGED <<sourceVars, discovery, current, created, retirements, batch, leasing, proc,
                 runtime, faults, engine>>

InSlot(w) == project[w[1]].slot = w[2]
Consume(w) == outbox' = [outbox EXCEPT ![w] = Tail(@)] /\ UNCHANGED listening
NoFailure == UNCHANGED <<failing, shuttingDown, inbox, sup>>

\* A message of a worker that is not in the slot any more is dropped, and the
\* listener returns.
ReceiveStale(w) ==
  /\ \E tag \in {"Ready", "Superseded", "Commit", "Failure", "Result", "Stopped"} : Receive(w, tag)
  /\ ~InSlot(w)
  /\ StopListening(w)
  /\ NoFailure
  /\ UNCHANGED <<project, signal, ready, req>>

ReceiveReady(w) ==
  /\ Receive(w, "Ready") /\ InSlot(w)
  /\ Consume(w)
  /\ ready' = [ready EXCEPT ![w] = "ready"]
  /\ NoFailure
  /\ UNCHANGED <<project, signal, req>>

ReceiveSuperseded(w) ==
  /\ Receive(w, "Superseded") /\ InSlot(w)
  /\ Consume(w)
  /\ LET c == w[1]
         g == Head(outbox[w]).gen
     IN IF project[c].awaitingSupersede # 0 /\ project[c].awaitingSupersede = g
        THEN /\ project' = [project EXCEPT ![c].awaitingSupersede = 0, ![c].active = 0]
             /\ signal' = TRUE
        ELSE UNCHANGED <<project, signal>>
  /\ NoFailure
  /\ UNCHANGED <<ready, req>>

\* Faulty variant of Committing: any commit of the running generation counts.
CommittingActive(p, g) == p.active = g

\* A commit counts only for the generation that is both the newest and the one
\* the engine believes is active.  The waiters of that generation go on.
Committing(p, g) == p.gen = g /\ p.active = g

ReceiveCommit(w) ==
  /\ Receive(w, "Commit") /\ InSlot(w)
  /\ Consume(w)
  /\ LET c == w[1]
         g == Head(outbox[w]).gen
     IN IF Committing(project[c], g)
        THEN /\ project' = [project EXCEPT ![c].active = 0, ![c].state = "Committed",
                                           ![c].failureCount = 0, ![c].circuit = "Closed"]
             /\ req' = [r \in Requests |->
                  IF r \in ProjectWaiters(c) /\ req[r].gen = g
                  THEN [req[r] EXCEPT !.pc = "woken"] ELSE req[r]]
        ELSE UNCHANGED <<project, req>>
  /\ NoFailure
  /\ UNCHANGED <<signal, ready>>

\* A failure counts only for the newest generation; its listener runs
\* failProject and then returns, because the slot is empty.
ReceiveFailure(w) ==
  /\ Receive(w, "Failure") /\ InSlot(w)
  /\ IF project[w[1]].gen = Head(outbox[w]).gen
     THEN StopListening(w) /\ Fail(w[1], project[w[1]], FALSE)
     ELSE Consume(w) /\ NoFailure /\ UNCHANGED <<project, signal, req>>
  /\ UNCHANGED ready

\* A result settles its query if the query still waits for that generation.
ReceiveResult(w) ==
  /\ Receive(w, "Result") /\ InSlot(w)
  /\ Consume(w)
  /\ LET m == Head(outbox[w])
         r == m.req
         expected == /\ r \in ProjectQueries(w[1])
                     /\ req[r].gen = m.gen /\ req[r].epoch = w[2]
     IN req' = IF ~expected THEN req
               ELSE IF m.text = NoText
               THEN [req EXCEPT ![r] = Settled(@, "unavailable")]
               ELSE [req EXCEPT ![r] = [Settled(@, "ready") EXCEPT !.text = m.text]]
  /\ NoFailure
  /\ UNCHANGED <<project, signal, ready>>

\* The thread reported an error: failProject, for whichever worker is in the
\* slot by now.
ReceiveDied(w) ==
  /\ Receive(w, "Died")
  /\ StopListening(w)
  /\ ready' = IF ready[w] = "waiting" THEN [ready EXCEPT ![w] = "failed"] ELSE ready
  /\ Fail(w[1], project[w[1]], FALSE)

-----------------------------------------------------------------------------
\* Watchdogs and the ends of retirements.

\* The supervisor has nothing left to send to worker w, and no message is on its
\* way from it.
Silent(w) ==
  /\ sup.pc = "idle" /\ ~signal
  /\ outbox[w] = <<>>
  /\ proc[w] = "live" => inbox[w] = <<>>

WorksOn(w, g) == proc[w] = "live" /\ runtime[w].active.gen = g

WatchdogStep ==
  /\ Running
  /\ UNCHANGED <<sourceVars, discovery, current, created, retirements, batch, threadVars,
                 outbox, engine>>

\* The no-progress lease of the active generation expires because the worker
\* does not work on it ...
NoProgress(c) ==
  /\ WatchdogStep
  /\ project[c].active # 0
  /\ project[c].slot # 0 => Silent(SlotOf(c)) /\ ~WorksOn(SlotOf(c), project[c].active)
  /\ Fail(c, project[c], FALSE)
  /\ UNCHANGED <<leasing, faults>>

\* ... or because its work takes too long.
Stall(c) ==
  /\ WatchdogStep
  /\ Fault("stall")
  /\ project[c].active # 0
  /\ Fail(c, project[c], FALSE)
  /\ UNCHANGED leasing

\* The lease of a supersede expires: the reply will never come, or comes late.
LeaseExpires(c) ==
  /\ WatchdogStep
  /\ project[c].awaitingSupersede # 0 /\ project[c].slot # 0
  /\ IF Silent(SlotOf(c)) THEN UNCHANGED faults ELSE Fault("lease")
  /\ project' = [project EXCEPT ![c] = Retired(@)]
  /\ leasing' = leasing \cup {SlotOf(c)}
  /\ Dismiss({SlotOf(c)})
  /\ UNCHANGED <<signal, sup, failing, req>>

\* The worker a lease retired is gone.
FinishLease(w) ==
  /\ SupervisorStep
  /\ w \in leasing /\ Exited({w})
  /\ leasing' = leasing \ {w}
  /\ shuttingDown' = shuttingDown \ {w}
  /\ project' = [project EXCEPT ![w[1]].awaitingSupersede = 0]
  /\ signal' = TRUE
  /\ UNCHANGED <<discovery, current, created, retirements, sup, batch, failing, threadVars,
                 inbox, outbox, req>>

\* The worker a failure retired is gone: failProject goes on.
FinishFailure(f) ==
  /\ SupervisorStep
  /\ f \in failing /\ Exited({f.worker})
  /\ failing' = failing \ {f}
  /\ shuttingDown' = shuttingDown \ {f.worker}
  /\ LET c == f.worker[1]
         next == AfterFailure(project[c], f.halfOpen)
     IN /\ project' = [project EXCEPT ![c] = next]
        /\ signal' = (signal \/ next.gen # project[c].gen)
  /\ sup' = IF f.supervised THEN Supervisor("idle", {}) ELSE sup
  /\ UNCHANGED <<discovery, current, created, retirements, batch, leasing, threadVars,
                 inbox, outbox, req>>

-----------------------------------------------------------------------------
\* The worker threads.

ThreadStep ==
  UNCHANGED <<sourceVars, discovery, projectVars, signal, fiberVars, ready, listening,
              req, engine>>

\* A message nobody will read is not kept.
PostToHost(w, messages) ==
  outbox' = IF w \in listening THEN [outbox EXCEPT ![w] = @ \o messages] ELSE outbox

Exit(w) ==
  /\ proc' = [proc EXCEPT ![w] = "exited"]
  /\ inbox' = [inbox EXCEPT ![w] = <<>>]
  /\ runtime' = [runtime EXCEPT ![w] = Fresh]

\* The worker handles one message; after Shutdown its thread ends.
WorkerAccepts(w) ==
  /\ ThreadStep
  /\ proc[w] = "live" /\ inbox[w] # <<>>
  /\ LET step == Accepted(runtime[w], Head(inbox[w]), disk)
     IN /\ PostToHost(w, step.replies)
        /\ IF Head(inbox[w]).tag = "Shutdown" THEN Exit(w)
           ELSE /\ runtime' = [runtime EXCEPT ![w] = step.state]
                /\ inbox' = [inbox EXCEPT ![w] = Tail(@)]
                /\ UNCHANGED proc
  /\ UNCHANGED <<shuttingDown, faults>>

WorkerRuns(w, step) ==
  /\ ThreadStep
  /\ PostToHost(w, step.replies)
  /\ runtime' = [runtime EXCEPT ![w] = step.state]
  /\ UNCHANGED <<proc, inbox, shuttingDown>>

WorkerCommits(w) ==
  /\ proc[w] = "live" /\ runtime[w].active.gen # 0
  /\ WorkerRuns(w, Completed(runtime[w]))
  /\ UNCHANGED faults

WorkerDefects(w) ==
  /\ proc[w] = "live" /\ runtime[w].active.gen # 0
  /\ Fault("defect")
  /\ WorkerRuns(w, Defected(runtime[w]))

WorkerAnswers(w) ==
  /\ proc[w] = "live"
  /\ \E q \in runtime[w].queries : WorkerRuns(w, Answered(runtime[w], q))
  /\ UNCHANGED faults

WorkerForgetsQuery(w) ==
  /\ proc[w] = "live"
  /\ Fault("queryDefect")
  /\ \E q \in runtime[w].queries : WorkerRuns(w, QueryDefected(runtime[w], q))

\* The thread dies: with an error event the host's listener reads, or silently.
WorkerDies(w) ==
  /\ ThreadStep
  /\ proc[w] = "live"
  /\ \/ Fault("crash") /\ PostToHost(w, <<Died>>)
     \/ Fault("exit") /\ UNCHANGED outbox
  /\ Exit(w)
  /\ UNCHANGED shuttingDown

\* The thread computes without ever yielding: it takes no message any more.
WorkerHangs(w) ==
  /\ ThreadStep
  /\ proc[w] = "live"
  /\ Fault("hang")
  /\ proc' = [proc EXCEPT ![w] = "hung"]
  /\ UNCHANGED <<inbox, outbox, runtime, shuttingDown>>

\* Faulty variant of Terminate: only a thread that takes messages is terminated.
TerminateCooperative(w) ==
  /\ ThreadStep
  /\ proc[w] = "live" /\ w \in shuttingDown
  /\ Exit(w)
  /\ UNCHANGED <<shuttingDown, outbox, faults>>

\* The retirement deadline: a worker that did not stop by itself is terminated.
Terminate(w) ==
  /\ ThreadStep
  /\ Alive(w) /\ w \in shuttingDown
  /\ Exit(w)
  /\ UNCHANGED <<shuttingDown, outbox, faults>>

-----------------------------------------------------------------------------
\* Shutdown of the engine.

ShutdownBegins ==
  /\ AllowShutdown
  /\ Running
  /\ ledger' = [d \in Docs |-> Unopened]
  /\ IF current = 0
     THEN /\ engine' = [phase |-> "closing", on |-> {}]
          /\ UNCHANGED <<project, shuttingDown, inbox>>
     ELSE LET slots == IF project[current].slot = 0 THEN {} ELSE {SlotOf(current)}
          IN /\ engine' = [phase |-> "closing", on |-> slots]
             /\ project' = [project EXCEPT ![current] = [Retired(@) EXCEPT !.state = "Closed"]]
             /\ Dismiss(slots)
  /\ Settle({r \in Requests : req[r].pc \in {"discovering", "waiting", "woken", "querying"}},
            "closed")
  /\ UNCHANGED <<events, disk, discovery, current, created, retirements, signal, fiberVars,
                 threadVars, outbox, faults>>

\* The worker of the project is gone; closing the scope interrupts every fiber.
ShutdownEnds ==
  /\ engine.phase = "closing"
  /\ Exited(engine.on)
  /\ engine' = [phase |-> "closed", on |-> {}]
  /\ current' = 0
  /\ sup' = Supervisor("interrupted", {})
  /\ batch' = NoBatch
  /\ failing' = {} /\ leasing' = {}
  /\ listening' = {} /\ outbox' = [w \in Workers |-> <<>>]
  /\ shuttingDown' = {}
  /\ UNCHANGED <<sourceVars, discovery, project, created, retirements, signal, proc, ready,
                 runtime, inbox, req, faults>>

-----------------------------------------------------------------------------

Client ==
  \/ \E d \in Docs : Open(d) \/ ChangeAssociated(d) \/ ChangeUndiscovered(d) \/ Close(d)
  \/ \E kind \in FileEvents : Invalidate(kind)
  \/ \E r \in Requests, d \in Docs : Ask(r, d)
  \/ \E r \in Requests : Abandon(r)
  \/ ShutdownBegins

SupervisorNext ==
  \/ TakeSignal \/ FinishRetirements \/ Discovered
  \/ DebounceIdle \/ DebounceStart \/ DebounceSpawn
  \/ WorkerIsReady \/ WorkerNeverReady \/ ReadinessExpires

ListenerNext(w) ==
  \/ ReceiveStale(w) \/ ReceiveReady(w) \/ ReceiveSuperseded(w) \/ ReceiveCommit(w)
  \/ ReceiveFailure(w) \/ ReceiveResult(w) \/ ReceiveDied(w)

Faulty ==
  \/ SpawnFails
  \/ \E c \in Contexts : Stall(c)
  \/ \E w \in Workers : WorkerDefects(w) \/ WorkerForgetsQuery(w) \/ WorkerDies(w) \/ WorkerHangs(w)

ThreadNext(w) == WorkerAccepts(w) \/ WorkerCommits(w) \/ WorkerAnswers(w) \/ Terminate(w)

Next ==
  \/ Client
  \/ SupervisorNext
  \/ \E r \in Requests : Resume(r)
  \/ \E w \in Workers : ListenerNext(w) \/ ThreadNext(w) \/ FinishLease(w)
  \/ \E c \in Contexts : NoProgress(c) \/ LeaseExpires(c)
  \/ \E f \in failing : FinishFailure(f)
  \/ Faulty
  \/ ShutdownEnds

Spec == Init /\ [][Next]_vars

\* Every fiber of the host and every worker thread keeps running, and a timer
\* whose condition persists fires.  The client and the faults owe nothing.
Fairness ==
  /\ WF_vars(SupervisorNext)
  /\ \A r \in Requests : WF_vars(Resume(r))
  /\ \A w \in Workers :
       /\ WF_vars(ListenerNext(w)) /\ WF_vars(FinishLease(w))
       /\ WF_vars(WorkerAccepts(w)) /\ WF_vars(Terminate(w))
       /\ WF_vars(WorkerCommits(w)) /\ WF_vars(WorkerAnswers(w))
  /\ \A c \in Contexts : WF_vars(NoProgress(c)) /\ WF_vars(LeaseExpires(c))
  /\ WF_vars(\E f \in failing : FinishFailure(f))
  /\ WF_vars(ShutdownEnds)

FairSpec == Spec /\ Fairness

-----------------------------------------------------------------------------
\* Properties.

ProjectRecord ==
  [docs : Snapshot, gen : Nat, state : {"Pending", "Committed", "Failed", "Closed"},
   pending : BOOLEAN, active : Nat, supersedeRequested : Nat, awaitingSupersede : Nat,
   epoch : Nat, slot : {0} \cup Epochs, dirty : BOOLEAN, rediscover : BOOLEAN,
   failureCount : Nat, circuit : {"Closed", "Open", "HalfOpen"}]

Outcomes ==
  {"none", "ready", "superseded", "closed", "unavailable", "analysisFailed", "abandoned"}

RequestRecord ==
  [pc : {"idle", "discovering", "waiting", "woken", "querying", "done"}, doc : {0} \cup Docs,
   version : Nat, gen : Nat, ctx : {0} \cup Contexts, text : Nat, epoch : {0} \cup Epochs,
   outcome : Outcomes]

SupervisorRecord ==
  [pc : {"idle", "debounce", "retiring", "discovering", "ensuring", "failing", "interrupted"},
   on : SUBSET Workers]

BatchRecord ==
  [doc : {0} \cup Docs, version : Nat, text : Nat, rest : SUBSET Docs, found : Snapshot]

FailureRecord == [worker : Workers, halfOpen : BOOLEAN, supervised : BOOLEAN]

\* Every variable keeps its type.
TypeOK ==
  /\ ledger \in [Docs -> [version : Nat, text : Nat]]
  /\ events \in Nat /\ disk \in Nat /\ faults \in Nat
  /\ discovery \in SUBSET Docs
  /\ project \in [Contexts -> ProjectRecord]
  /\ current \in {0} \cup Contexts /\ created \in {0} \cup Contexts
  /\ retirements \in SUBSET Contexts
  /\ signal \in BOOLEAN
  /\ sup \in SupervisorRecord
  /\ batch \in BatchRecord
  /\ failing \in SUBSET FailureRecord
  /\ leasing \in SUBSET Workers
  /\ proc \in [Workers -> {"unborn", "live", "hung", "exited"}]
  /\ ready \in [Workers -> {"waiting", "ready", "failed"}]
  /\ listening \in SUBSET Workers
  /\ shuttingDown \in SUBSET Workers
  /\ inbox \in [Workers -> Seq(HostMessage)]
  /\ outbox \in [Workers -> Seq(WorkerMessage \cup {Died})]
  /\ runtime \in [Workers -> RuntimeState]
  /\ req \in [Requests -> RequestRecord]
  /\ engine \in [phase : {"open", "closing", "closed"}, on : SUBSET Workers]

CurrentState(state) == current # 0 /\ project[current].state = state

\* A committed project is committed on what it holds: the worker in its slot has,
\* as its committed basis, the newest generation with exactly the documents of
\* the project.  Superseded, failed and displaced work never gets here.
CommittedMatchesWorker ==
  CurrentState("Committed") =>
    LET p == project[current]
        w == SlotOf(current)
    IN /\ ~p.pending /\ p.active = 0
       /\ p.slot # 0 /\ Alive(w) =>
            /\ runtime[w].committed.gen = p.gen
            /\ runtime[w].committed.sources = p.docs

\* The document waits for its discovery, or is in the batch being discovered.
UnderDiscovery(d) == d \in discovery \/ (sup.pc = "discovering" /\ d \in {batch.doc} \cup batch.rest)

\* A committed project holds every open document that belongs to it, and is not to
\* be discovered again, as it was last accepted, however the discoveries, the edits
\* and the closing and opening again interleaved: with no other event the project is
\* not analysed again, so it must not rest on an older text.  It holds of one
\* document under every fault.  Of more it holds up to one exception: a document
\* found and then revised before the rest of its batch is discovered gets its old
\* text back (WorkspaceEngine.ts:624; the hypothesis FoundIsUnrevised of the proofs).
OpenTextsAreCommitted ==
  CurrentState("Committed") =>
    \A d \in Docs : IsOpen(d) /\ Associated(d) /\ ~UnderDiscovery(d) =>
      project[current].docs[d] = ledger[d].text

\* A committed project was analysed with the closed files as of the last
\* accepted notification about them.
CommittedSeesDisk ==
  CurrentState("Committed") =>
    LET w == SlotOf(current)
    IN project[current].slot # 0 /\ Alive(w) => runtime[w].committed.disk >= disk

\* A request is answered with the text that is accepted for its document at
\* that moment.
AnswersAreCurrent ==
  [][\A r \in Requests :
       req'[r].outcome = "ready" /\ req[r].outcome # "ready" =>
         req'[r].text = ledger[req[r].doc].text]_vars

\* Work on an obsolete generation is being preempted: the supervisor has been
\* asked to supersede it or waits for the worker's reply.
ObsoleteWorkIsPreempted ==
  \A c \in Contexts :
    LET p == project[c]
    IN p.active # 0 /\ p.active # p.gen /\ p.state # "Closed" =>
         p.active \in {p.supersedeRequested, p.awaitingSupersede}

\* A pending project is waiting to be started or being analysed.
PendingIsOwned ==
  CurrentState("Pending") =>
    project[current].pending \/ project[current].active = project[current].gen

\* A request that waits for a commit waits for the newest generation of a
\* project that is pending.
WaitersAwaitTheNewest ==
  \A c \in Contexts : \A r \in ProjectWaiters(c) :
    project[c].state = "Pending" /\ req[r].gen = project[c].gen

\* Until the engine is closed, a thread that runs is in the slot of the current
\* context, or in that of a context whose worker is to be retired, or under a
\* retirement deadline.
NoOrphanWorker ==
  engine.phase # "closed" =>
    \A w \in Workers : Alive(w) =>
      \/ InSlot(w) /\ (w[1] = current \/ w[1] \in retirements)
      \/ w \in shuttingDown

\* A project fails only when something failed.
HealthyProjectsDoNotFail == faults = 0 => ~CurrentState("Failed")

\* Once the client stops, every open document ends up in a project that is
\* committed with its newest text, and stays there.
NewestCommits ==
  <>[](\A d \in Docs : IsOpen(d) =>
         CurrentState("Committed") /\ project[current].docs[d] = ledger[d].text)

\* A pending project does not stay pending: it commits, fails or is closed.
PendingEnds == CurrentState("Pending") ~> ~CurrentState("Pending")

\* A committed project whose worker is gone is noticed: it does not keep the
\* dead worker in its slot.
LostWorkerIsNoticed ==
  LET Lost == CurrentState("Committed") /\ proc[SlotOf(current)] = "exited"
  IN Lost ~> ~Lost

\* A request is settled without the help of its deadline.
RequestsSettle == \A r \in Requests : req[r].pc # "idle" ~> req[r].pc = "done"

\* Shutdown ends, whatever the worker it awaits is doing.
ShutdownCompletes == engine.phase = "closing" ~> engine.phase = "closed"

-----------------------------------------------------------------------------
\* The engine implements SnapshotService: the accepted texts are the ledger's,
\* the view is the documents of the committed project, and a request that was
\* not answered ends refused, whatever the reason it is given.

AnswerOf(r) ==
  [doc |-> r.doc, text |-> r.text,
   state |-> CASE r.pc = "idle" -> "notAsked"
               [] r.pc = "done" -> IF r.outcome = "ready" THEN "answered" ELSE "refused"
               [] OTHER -> "waiting"]

Service == INSTANCE SnapshotService WITH
  Texts <- Nat \ {NoText},
  accepted <- [d \in Docs |-> ledger[d].text],
  view <- IF CurrentState("Committed") THEN project[current].docs ELSE NoSources,
  answer <- [r \in Requests |-> AnswerOf(req[r])]

\* Every step of the engine is a step of the snapshot service.
ImplementsService == Service!Spec
=============================================================================
