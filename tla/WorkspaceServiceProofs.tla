----------------------- MODULE WorkspaceServiceProofs -----------------------
(***************************************************************************)
(* Proofs about the texts a client is served: the texts a committed        *)
(* project holds are the accepted ones, a request is answered with the     *)
(* text that is accepted at that moment, the requests that wait wait for   *)
(* the newest generation, obsolete work is being preempted, and the engine *)
(* implements SnapshotService.                                             *)
(*                                                                         *)
(* And proof that a project does not fail by itself: as long as no worker  *)
(* and no timer misbehaves, no edit, discovery, supersede or retirement,   *)
(* in whatever order, makes a project fail or a lease expire.  The         *)
(* argument: an analysis the engine takes to be active is really on its    *)
(* way, running or reported, or it is obsolete and its supersede is on its *)
(* way.                                                                    *)
(*                                                                         *)
(* The engine does not keep these promises in every behaviour.  Each       *)
(* theorem names, as hypotheses about the behaviour, the situations in     *)
(* which the code breaks its promise, and shows that nothing else does:    *)
(* no other interleaving of edits, discoveries, commits, queries, faults   *)
(* and restarts.  In a workspace of one document some of these situations  *)
(* cannot arise, and further theorems say so.                              *)
(***************************************************************************)
EXTENDS WorkspaceEngineProofs

-----------------------------------------------------------------------------
\* The texts: the invariant.

\* Hypothesis on a step: a document that was found is not revised before the rest
\* of its batch is discovered.
FoundIsUnrevised ==
  Running' => \A d \in Docs : batch.found[d] # NoText => ledger'[d] = ledger[d]

\* A context that is left has no documents.
OnlyCurrentHasDocuments ==
  Running => \A c \in Contexts : HasDocuments(project[c]) => c = current

\* Nothing is to be discovered without a signal, or the supervisor is about to look.
DiscoveryIsSignaled ==
  Running =>
    /\ discovery # {} => signal \/ sup.pc = "retiring"
    /\ sup.pc = "discovering" /\ ~Unrevised(batch.doc, batch.version) => signal

\* The supervisor waits for the one failure that is its own.
SupervisorWaits ==
  /\ \A f \in failing : f.supervised => sup.pc = "failing"
  /\ \A f, g \in failing : f.supervised /\ g.supervised => f = g

\* The document being discovered has its text still, or is seen to have another, or
\* was closed and is to be discovered again.
BatchSettles ==
  Running /\ sup.pc = "discovering" =>
    LET d == batch.doc
    IN \/ d \in discovery
       \/ ~IsOpen(d)
       \/ ledger[d].version > batch.version
       \/ ledger[d].version = batch.version /\ ledger[d].text = batch.text

\* So has a document that was found.
FoundHeld ==
  Running /\ sup.pc = "discovering" =>
    \A d \in Docs : batch.found[d] # NoText =>
      IsOpen(d) /\ (batch.found[d] = ledger[d].text \/ d \in discovery)

\* The document will join its project when the discovery ends, or the next one.
ToBeFound(d) ==
  \/ d \in discovery
  \/ sup.pc = "discovering" /\ (d \in {batch.doc} \cup batch.rest \/ batch.found[d] # NoText)

\* A project whose newest generation was not started is neither committed nor will
\* it be by the analysis that is active.
Lags(p) == p.state # "Committed" /\ p.active < p.gen

\* Context c holds an older text of document d: the supervisor goes on to discover
\* it before it starts anything.
Outdated(c, d) ==
  sup.pc \in {"debounce", "retiring", "discovering"} /\ ToBeFound(d) /\ Lags(project[c])

TextHeld(c, d) ==
  project[c].docs[d] # NoText =>
    IsOpen(d) /\ (project[c].docs[d] = ledger[d].text \/ Outdated(c, d))

TextsHeld == Running => \A c \in Contexts : \A d \in Docs : TextHeld(c, d)

\* A text is numbered by the event that brought it.
TextsNumbered ==
  /\ \A d \in Docs : ledger[d].text <= events /\ (IsOpen(d) => ledger[d].text # NoText)
  /\ sup.pc = "discovering" => batch.text # NoText

TextsInv ==
  /\ TextsNumbered /\ OnlyCurrentHasDocuments /\ DiscoveryIsSignaled /\ SupervisorWaits
  /\ BatchSettles /\ FoundHeld /\ TextsHeld

LEMMA DocumentIsOf ==
  ASSUME NEW p \in ProjectRecord, NEW d \in Docs, p.docs[d] # NoText
  PROVE  HasDocuments(p)
  BY DEF HasDocuments, NoSources

\* The texts a committed context holds.
LEMMA CommittedTexts ==
  ASSUME TypeOK, TextsInv, Running, NEW c \in Contexts, NEW d \in Docs,
         project[c].docs[d] # NoText, ~Lags(project[c])
  PROVE  c = current /\ IsOpen(d) /\ project[c].docs[d] = ledger[d].text
<1>1. HasDocuments(project[c])
  BY DocumentIsOf DEF TypeOK
<1> QED BY <1>1 DEF TextsInv, OnlyCurrentHasDocuments, TextsHeld, TextHeld, Outdated

-----------------------------------------------------------------------------
\* The texts: steps that neither accept nor discover a text.

\* What a context may become while the supervisor does not start it.
LagsOn(p, q) == q.docs = p.docs /\ (Lags(p) => Lags(q))

LEMMA KeptLags ==
  ASSUME NEW p \in ProjectRecord, NEW q \in ProjectRecord, Kept(p, q)
  PROVE  LagsOn(p, q)
<1>1. p.gen \in Nat /\ q.gen \in Nat /\ p.active \in Nat /\ q.active \in Nat
  BY DEF ProjectRecord
<1>2. q.gen >= p.gen
  BY <1>1 DEF Kept, Held, SentKept
<1> QED BY <1>1, <1>2 DEF Kept, Held, LagsOn, Lags

\* The supervisor leaves its debounce, or goes on after it.
SupervisorGoesOn ==
  /\ sup.pc \notin {"discovering", "retiring"} /\ (sup.pc = "debounce" => ~signal)
  /\ sup'.pc \notin {"discovering", "retiring", "debounce"}

LEMMA TextsFrame ==
  ASSUME TypeOK, TypeOK', TextsInv, UNCHANGED <<ledger, events, discovery, current, batch>>,
         Running' => Running, signal => signal', SupervisorWaits',
         \A c \in Contexts : project'[c].docs = project[c].docs,
         \/ sup' = sup /\ \A c \in Contexts : Lags(project[c]) => Lags(project'[c])
         \/ SupervisorGoesOn
  PROVE  TextsInv'
<1>1. TextsNumbered'
  BY DEF TextsInv, TextsNumbered, IsOpen, SupervisorGoesOn
<1>2. CASE ~Running'
  BY <1>1, <1>2 DEF TextsInv, OnlyCurrentHasDocuments, DiscoveryIsSignaled, BatchSettles, FoundHeld,
              TextsHeld
<1>3. CASE Running' /\ Running
  <2>1. OnlyCurrentHasDocuments'
    BY <1>3 DEF TextsInv, OnlyCurrentHasDocuments, HasDocuments
  <2>2. DiscoveryIsSignaled' /\ BatchSettles' /\ FoundHeld'
    BY <1>3 DEF TextsInv, DiscoveryIsSignaled, BatchSettles, FoundHeld, Unrevised, IsOpen,
                SupervisorGoesOn
  <2>3. TextsHeld'
    <3> SUFFICES ASSUME NEW c \in Contexts, NEW d \in Docs, project[c].docs[d] # NoText
                 PROVE  IsOpen(d)' /\ (project[c].docs[d] = ledger[d].text \/ Outdated(c, d)')
      BY <1>3 DEF TextsHeld, TextHeld
    <3>1. IsOpen(d) /\ (project[c].docs[d] = ledger[d].text \/ Outdated(c, d))
      BY <1>3 DEF TextsInv, TextsHeld, TextHeld
    <3>2. CASE sup' = sup /\ (Lags(project[c]) => Lags(project'[c]))
      BY <3>1, <3>2 DEF IsOpen, Outdated, ToBeFound
    <3>3. CASE SupervisorGoesOn
      <4>1. ~Outdated(c, d)
        BY <1>3, <3>3 DEF TextsInv, DiscoveryIsSignaled, SupervisorGoesOn, Outdated, ToBeFound
      <4> QED BY <3>1, <4>1 DEF IsOpen
    <3> QED BY <3>2, <3>3
  <2> QED BY <1>1, <2>1, <2>2, <2>3 DEF TextsInv
<1> QED BY <1>1, <1>2, <1>3

\* The supervisor starts to wait for a failure only when it waits for none.
LEMMA WaitsKept ==
  ASSUME SupervisorWaits,
         \/ failing' \subseteq failing /\ (sup' = sup \/ sup.pc # "failing")
         \/ \E f : failing' = failing \cup {f} /\ ~f.supervised /\ sup' = sup
         \/ \E f : /\ failing' = failing \cup {f} /\ f.supervised
                   /\ sup.pc # "failing" /\ sup'.pc = "failing"
         \/ \E f \in failing : failing' = failing \ {f} /\ f.supervised
  PROVE  SupervisorWaits'
  BY DEF SupervisorWaits

\* failProject.
LEMMA FailTexts ==
  ASSUME TypeOK, TypeOK', TextsInv, NEW c \in Contexts, NEW p \in ProjectRecord,
         NEW supervised \in BOOLEAN,
         p.gen = project[c].gen, p.docs = project[c].docs, p.epoch >= project[c].epoch,
         p.pending => project[c].pending, Fail(c, p, supervised),
         UNCHANGED frameVars,
         supervised => sup.pc \in {"debounce", "ensuring"} /\ (sup.pc = "debounce" => ~signal)
  PROVE  TextsInv'
<1>1. /\ \A k \in Contexts : Kept(project[k], project'[k])
      /\ IF supervised THEN sup'.pc # "ensuring" ELSE sup' = sup
  BY FailHolds
<1>2. \A k \in Contexts : LagsOn(project[k], project'[k])
  BY <1>1, KeptLags DEF TypeOK
<1>3. signal => signal'
  BY DEF Fail
<1>4. supervised => SupervisorGoesOn
  BY DEF Fail, SupervisorGoesOn, Supervisor
<1>5. SupervisorWaits'
  <2>1. CASE p.slot = 0
    BY <2>1, WaitsKept DEF Fail, TextsInv
  <2>2. CASE p.slot # 0
    <3> DEFINE f == [worker |-> <<c, p.slot>>, halfOpen |-> p.circuit = "HalfOpen",
                     supervised |-> supervised]
    <3>1. failing' = failing \cup {f} /\ f.supervised = supervised
      BY <2>2 DEF Fail
    <3>2. supervised => sup'.pc = "failing" /\ sup.pc # "failing"
      BY <2>2 DEF Fail, Supervisor
    <3> HIDE DEF f
    <3> QED BY <1>1, <3>1, <3>2, WaitsKept DEF TextsInv
  <2> QED BY <2>1, <2>2
<1> QED BY <1>1, <1>2, <1>3, <1>4, <1>5, TextsFrame DEF frameVars, sourceVars, Running, LagsOn

\* An analysis is started, or fails because its worker is gone.
LEMMA StartAnalysisOnTexts ==
  ASSUME TypeOK, TypeOK', TextsInv, NEW w \in Workers, StartAnalysisOn(w[1], w),
         UNCHANGED frameVars,
         sup.pc \in {"debounce", "ensuring"}, sup.pc = "debounce" => ~signal
  PROVE  TextsInv'
<1> DEFINE c == w[1]
<1> DEFINE p == project[c]
<1> DEFINE started == [p EXCEPT !.pending = FALSE, !.active = p.gen,
                                !.dirty = FALSE, !.rediscover = FALSE]
<1>1. c \in Contexts /\ p \in ProjectRecord
  BY DEF TypeOK, Workers
<1>2. /\ started.gen = p.gen /\ started.docs = p.docs /\ started.epoch = p.epoch
      /\ started.pending = FALSE /\ p.epoch >= p.epoch
  BY <1>1 DEF ProjectRecord
<1>3. started \in ProjectRecord
  <2> DEFINE idle == [p EXCEPT !.pending = FALSE, !.dirty = FALSE, !.rediscover = FALSE]
  <2>1. idle \in ProjectRecord
    BY <1>1 DEF ProjectRecord
  <2>2. started = [idle EXCEPT !.active = p.gen]
    BY <1>1 DEF ProjectRecord
  <2> HIDE DEF idle
  <2> QED BY <1>1, <2>1, <2>2 DEF ProjectRecord
<1> HIDE DEF started
<1>4. CASE Alive(w)
  <2>1. /\ project' = [project EXCEPT ![c] = started] /\ sup' = Supervisor("idle", {})
        /\ UNCHANGED <<signal, failing>>
    BY <1>4 DEF StartAnalysisOn, started
  <2>2. SupervisorGoesOn
    BY <2>1 DEF SupervisorGoesOn, Supervisor
  <2>3. SupervisorWaits'
    BY <2>1, WaitsKept DEF TextsInv
  <2>4. \A k \in Contexts : project'[k].docs = project[k].docs
    BY <1>1, <1>2, <2>1 DEF TypeOK
  <2> QED BY <2>1, <2>2, <2>3, <2>4, TextsFrame DEF frameVars, sourceVars, Running
<1>5. CASE ~Alive(w)
  <2>1. Fail(c, started, TRUE)
    BY <1>5 DEF StartAnalysisOn, started
  <2> HIDE DEF c
  <2> QED BY <1>1, <1>2, <1>3, <2>1, FailTexts
<1> QED BY <1>4, <1>5

LEMMA SupervisorTexts ==
  ASSUME TypeInv, TypeOK', TextsInv,
         \/ DebounceIdle \/ DebounceStart \/ DebounceSpawn \/ WorkerIsReady \/ WorkerNeverReady
         \/ ReadinessExpires \/ SpawnFails
  PROVE  TextsInv'
<1> USE DEF TypeInv
<1>1. UNCHANGED frameVars
  <2>1. DebounceIdle => UNCHANGED projectVars
    BY DEF DebounceIdle
  <2> QED BY <2>1 DEF DebounceIdle, DebounceStart, DebounceSpawn, WorkerIsReady,
       WorkerNeverReady, ReadinessExpires, SpawnFails, SupervisorStep, frameVars, projectVars
<1>2. sup.pc \in {"debounce", "ensuring"} /\ (sup.pc = "debounce" => ~signal)
  BY DEF DebounceIdle, DebounceStart, DebounceSpawn, WorkerIsReady, WorkerNeverReady,
         ReadinessExpires, SpawnFails
<1>3. ASSUME sup' \in {Supervisor("idle", {})}
                       \cup {Supervisor("ensuring", on) : on \in SUBSET Workers},
             \A k \in Contexts : project'[k].docs = project[k].docs, UNCHANGED <<signal, failing>>
      PROVE  TextsInv'
  <2>1. SupervisorGoesOn
    BY <1>2, <1>3 DEF SupervisorGoesOn, Supervisor
  <2>2. SupervisorWaits'
    BY <1>2, <1>3, WaitsKept DEF TextsInv
  <2> QED BY <1>1, <1>3, <2>1, <2>2, TextsFrame DEF frameVars, sourceVars, Running
<1>4. ASSUME NEW w \in Workers, Fail(w[1], project[w[1]], TRUE) PROVE TextsInv'
  <2>1. w[1] \in Contexts /\ project[w[1]] \in ProjectRecord
    BY DEF Workers, TypeOK
  <2>2. project[w[1]].epoch >= project[w[1]].epoch
    BY <2>1 DEF ProjectRecord
  <2> QED BY <1>1, <1>2, <1>4, <2>1, <2>2, FailTexts
<1>5. sup.on \subseteq Workers
  BY DEF TypeOK, SupervisorRecord
<1>6. CASE DebounceIdle
  BY <1>3, <1>6 DEF DebounceIdle, projectVars
<1>7. CASE DebounceStart
  <2>1. /\ current \in Contexts /\ project[current].slot # 0
        /\ StartAnalysisOn(current, SlotOf(current))
    BY <1>7 DEF DebounceStart, Startable, TypeOK
  <2>2. SlotOf(current) \in Workers /\ SlotOf(current)[1] = current
    BY <2>1, SlotType DEF SlotOf, TypeOK
  <2> QED BY <1>1, <1>2, <2>1, <2>2, StartAnalysisOnTexts
<1>8. CASE DebounceSpawn
  <2> DEFINE e == project[current].epoch + 1
  <2>1. /\ current \in Contexts /\ UNCHANGED <<signal, failing>>
        /\ project' = [project EXCEPT ![current].epoch = e, ![current].slot = e]
        /\ sup' = Supervisor("ensuring", {<<current, e>>})
    BY <1>8 DEF DebounceSpawn, Startable, TypeOK
  <2>2. \A k \in Contexts : project'[k].docs = project[k].docs
    BY <2>1 DEF TypeOK, ProjectRecord
  <2>3. sup'.on \subseteq Workers /\ sup' = Supervisor("ensuring", sup'.on)
    BY <2>1 DEF TypeOK, SupervisorRecord, Supervisor
  <2> QED BY <1>3, <2>1, <2>2, <2>3
<1>9. CASE WorkerIsReady
  <2>1. PICK w \in sup.on :
          IF project[w[1]].state # "Pending"
          THEN sup' = Supervisor("idle", {}) /\ UNCHANGED <<project, signal, failing>>
          ELSE StartAnalysisOn(w[1], w)
    BY <1>9 DEF WorkerIsReady
  <2> QED BY <1>1, <1>2, <1>3, <1>5, <2>1, StartAnalysisOnTexts
<1>10. CASE WorkerNeverReady \/ ReadinessExpires
  BY <1>4, <1>5, <1>10 DEF WorkerNeverReady, ReadinessExpires
<1>11. CASE SpawnFails
  <2> DEFINE p == [project[current] EXCEPT !.epoch = @ + 1]
  <2>1. current \in Contexts /\ Fail(current, p, TRUE)
    BY <1>11 DEF SpawnFails, Startable, TypeOK
  <2>2. /\ p \in ProjectRecord /\ p.gen = project[current].gen /\ p.docs = project[current].docs
        /\ p.epoch >= project[current].epoch /\ p.pending = project[current].pending
    <3>1. project[current] \in ProjectRecord
      BY <2>1 DEF TypeOK
    <3> QED BY <3>1 DEF ProjectRecord
  <2> HIDE DEF p
  <2> QED BY <1>1, <1>2, <2>1, <2>2, FailTexts
<1> QED BY <1>6, <1>7, <1>8, <1>9, <1>10, <1>11

\* The listener: a commit that counts is of the generation that is active.
LEMMA ListenerTexts ==
  ASSUME TypeInv, TypeOK', TextsInv, NEW w \in Workers, ListenerNext(w)
  PROVE  TextsInv'
<1> USE DEF TypeInv
<1> DEFINE p == project[w[1]]
<1>1. PICK tag : Receive(w, tag)
  BY DEF ListenerNext, ReceiveStale, ReceiveReady, ReceiveSuperseded, ReceiveCommit,
         ReceiveFailure, ReceiveResult, ReceiveDied
<1>2. UNCHANGED frameVars
  BY <1>1, ReceiveFrame
<1>3. w[1] \in Contexts /\ p \in ProjectRecord /\ p.gen \in Nat /\ p.active \in Nat
  BY DEF TypeOK, Workers, ProjectRecord
<1>4. ASSUME NoFailure, signal => signal',
             \/ UNCHANGED project
             \/ \E q \in ProjectRecord : LagsOn(p, q) /\ project' = [project EXCEPT ![w[1]] = q]
      PROVE  TextsInv'
  <2>1. SupervisorWaits'
    BY <1>4, WaitsKept DEF TextsInv, NoFailure
  <2>2. \A k \in Contexts : LagsOn(project[k], project'[k])
    BY <1>3, <1>4 DEF TypeOK, LagsOn
  <2> QED BY <1>2, <1>4, <2>1, <2>2, TextsFrame
          DEF frameVars, sourceVars, Running, LagsOn, NoFailure
<1>5. ASSUME Fail(w[1], project[w[1]], FALSE) PROVE TextsInv'
  <2>1. project[w[1]].epoch >= project[w[1]].epoch
    BY <1>3 DEF ProjectRecord
  <2> QED BY <1>2, <1>3, <1>5, <2>1, FailTexts
<1>6. CASE ReceiveStale(w) \/ ReceiveReady(w) \/ ReceiveResult(w)
  BY <1>4, <1>6 DEF ReceiveStale, ReceiveReady, ReceiveResult
<1>7. CASE ReceiveFailure(w) \/ ReceiveDied(w)
  BY <1>4, <1>5, <1>7 DEF ReceiveFailure, ReceiveDied
<1>8. CASE ReceiveCommit(w)
  <2> DEFINE q == [p EXCEPT !.active = 0, !.state = "Committed",
                            !.failureCount = 0, !.circuit = "Closed"]
  <2>1. NoFailure /\ UNCHANGED signal
    BY <1>8 DEF ReceiveCommit
  <2>2. \/ UNCHANGED project
        \/ p.gen = p.active /\ project' = [project EXCEPT ![w[1]] = q]
    BY <1>8 DEF ReceiveCommit, Committing
  <2>3. q \in ProjectRecord /\ q.docs = p.docs
    BY <1>3 DEF ProjectRecord
  <2>4. p.gen = p.active => LagsOn(p, q)
    BY <1>3, <2>3 DEF LagsOn, Lags
  <2> HIDE DEF q
  <2> QED BY <1>4, <2>1, <2>2, <2>3, <2>4
<1>9. CASE ReceiveSuperseded(w)
  <2> DEFINE q == [p EXCEPT !.awaitingSupersede = 0, !.active = 0]
  <2>1. NoFailure /\ (signal => signal')
    BY <1>9 DEF ReceiveSuperseded
  <2>2. UNCHANGED project \/ project' = [project EXCEPT ![w[1]] = q]
    BY <1>9 DEF ReceiveSuperseded
  <2>3. /\ q \in ProjectRecord /\ q.docs = p.docs /\ q.gen = p.gen /\ q.state = p.state
        /\ q.active = 0
    BY <1>3 DEF ProjectRecord
  <2> HIDE DEF q
  <2>4. LagsOn(p, q)
    BY <1>3, <2>3 DEF LagsOn, Lags
  <2> QED BY <1>4, <2>1, <2>2, <2>3, <2>4
<1> QED BY <1>6, <1>7, <1>8, <1>9 DEF ListenerNext

LEMMA WatchdogTexts ==
  ASSUME TypeInv, TypeOK', TextsInv,
         \/ \E c \in Contexts : NoProgress(c) \/ Stall(c) \/ LeaseExpires(c)
         \/ \E w \in Workers : FinishLease(w)
         \/ \E f \in failing : FinishFailure(f)
  PROVE  TextsInv'
<1> USE DEF TypeInv
<1>1. UNCHANGED frameVars
  BY DEF NoProgress, Stall, LeaseExpires, FinishLease, FinishFailure, WatchdogStep,
         SupervisorStep, frameVars
<1>2. ASSUME NEW c \in Contexts, NEW q \in ProjectRecord, Kept(project[c], q),
             project' = [project EXCEPT ![c] = q], signal => signal',
             sup' = sup \/ SupervisorGoesOn, SupervisorWaits'
      PROVE  TextsInv'
  <2>1. \A k \in Contexts : LagsOn(project[k], project'[k])
    BY <1>2, KeptLags DEF TypeOK, LagsOn
  <2> QED BY <1>1, <1>2, <2>1, TextsFrame DEF frameVars, sourceVars, Running, LagsOn
<1>3. ASSUME NEW c \in Contexts, NoProgress(c) \/ Stall(c) PROVE TextsInv'
  <2>1. project[c] \in ProjectRecord /\ project[c].epoch >= project[c].epoch
    BY DEF TypeOK, ProjectRecord
  <2>2. Fail(c, project[c], FALSE)
    BY <1>3 DEF NoProgress, Stall
  <2> QED BY <1>1, <2>1, <2>2, FailTexts
<1>4. ASSUME NEW c \in Contexts, LeaseExpires(c) PROVE TextsInv'
  <2>1. /\ project' = [project EXCEPT ![c] = Retired(project[c])]
        /\ UNCHANGED <<signal, sup, failing>>
    BY <1>4 DEF LeaseExpires
  <2>2. project[c] \in ProjectRecord /\ SupervisorWaits'
    BY <2>1, WaitsKept DEF TypeOK, TextsInv
  <2> QED BY <1>2, <2>1, <2>2, RetiredKept, RetiredType
<1>5. ASSUME NEW w \in Workers, FinishLease(w) PROVE TextsInv'
  <2> DEFINE p == project[w[1]]
  <2> DEFINE q == [p EXCEPT !.awaitingSupersede = 0]
  <2>1. w[1] \in Contexts /\ p \in ProjectRecord
    BY DEF TypeOK, Workers
  <2>2. /\ project' = [project EXCEPT ![w[1]] = q]
        /\ signal' = TRUE /\ UNCHANGED <<sup, failing>>
    BY <1>5 DEF FinishLease
  <2>3. q \in ProjectRecord /\ Kept(p, q)
    BY <2>1 DEF ProjectRecord, Kept, Held, SentKept
  <2>4. SupervisorWaits'
    BY <2>2, WaitsKept DEF TextsInv
  <2> HIDE DEF q
  <2> QED BY <1>2, <2>1, <2>2, <2>3, <2>4
<1>6. ASSUME NEW f \in failing, FinishFailure(f) PROVE TextsInv'
  <2> DEFINE c == f.worker[1]
  <2>1. c \in Contexts /\ project[c] \in ProjectRecord
    BY DEF TypeOK, FailureRecord, Workers
  <2>2. /\ project' = [project EXCEPT ![c] = AfterFailure(project[c], f.halfOpen)]
        /\ failing' = failing \ {f} /\ (signal => signal')
        /\ sup' = IF f.supervised THEN Supervisor("idle", {}) ELSE sup
    BY <1>6 DEF FinishFailure
  <2>3. SupervisorWaits'
    BY <2>2, WaitsKept DEF TextsInv
  <2>4. sup' = sup \/ SupervisorGoesOn
    BY <2>2 DEF TextsInv, SupervisorWaits, SupervisorGoesOn, Supervisor
  <2> HIDE DEF c
  <2> QED BY <1>2, <2>1, <2>2, <2>3, <2>4, AfterFailureKept, AfterFailureType
<1> QED BY <1>3, <1>4, <1>5, <1>6

\* Requests, worker threads and the end of the engine.
LEMMA OtherTexts ==
  ASSUME TypeInv, TypeOK', TextsInv,
         \/ \E r \in Requests, d \in Docs : Ask(r, d)
         \/ \E r \in Requests : Abandon(r) \/ Resume(r)
         \/ \E w \in Workers :
              \/ ThreadNext(w) \/ WorkerDefects(w) \/ WorkerForgetsQuery(w)
              \/ WorkerDies(w) \/ WorkerHangs(w)
         \/ UNCHANGED vars
  PROVE  TextsInv'
<1>1. UNCHANGED <<ledger, events, discovery, current, batch, engine, signal, sup, failing,
                  project>>
  <2>1. \A w \in Workers :
          ThreadNext(w) \/ WorkerDefects(w) \/ WorkerForgetsQuery(w) \/ WorkerDies(w)
            \/ WorkerHangs(w) => ThreadStep
    BY DEF ThreadNext, WorkerAccepts, WorkerCommits, WorkerAnswers, Terminate, WorkerDefects,
           WorkerForgetsQuery, WorkerDies, WorkerHangs, WorkerRuns
  <2> QED BY <2>1 DEF Ask, Abandon, Resume, ClientStep, ThreadStep, vars, sourceVars, projectVars,
                      fiberVars
<1>2. SupervisorWaits'
  BY <1>1, WaitsKept DEF TextsInv
<1> QED BY <1>1, <1>2, TextsFrame DEF TypeInv, Running

LEMMA ShutdownTexts ==
  ASSUME TypeOK, TextsInv, ShutdownBegins \/ ShutdownEnds
  PROVE  TextsInv'
<1>1. ~Running'
  BY DEF ShutdownBegins, ShutdownEnds, Running
<1>2. SupervisorWaits'
  BY WaitsKept DEF ShutdownBegins, ShutdownEnds, TextsInv, SupervisorWaits, fiberVars
<1>3. TextsNumbered'
  <2>1. CASE ShutdownBegins
    BY <2>1 DEF ShutdownBegins, TextsInv, TextsNumbered, IsOpen, Unopened, NoText, fiberVars, TypeOK
  <2>2. CASE ShutdownEnds
    BY <2>2 DEF ShutdownEnds, TextsInv, TextsNumbered, IsOpen, Supervisor, sourceVars
  <2> QED BY <2>1, <2>2
<1> QED BY <1>1, <1>2, <1>3
        DEF TextsInv, OnlyCurrentHasDocuments, DiscoveryIsSignaled, BatchSettles, FoundHeld,
            TextsHeld

-----------------------------------------------------------------------------
\* The texts: steps that accept one.

\* A context that is scheduled lags: nothing that was started is of its generation.
LEMMA ScheduleLags ==
  ASSUME NEW p \in ProjectRecord, NEW q \in ProjectRecord, q.state # "Closed",
         GenerationsMatch(p), q.gen = p.gen, q.active = p.active
  PROVE  Schedule(q).docs = q.docs /\ Schedule(q).state = "Pending" /\ Lags(Schedule(q))
<1> DEFINE next == Schedule(q)
<1>1. /\ next.gen = q.gen + 1 /\ next.state = "Pending" /\ next.active = q.active
      /\ next.docs = q.docs
  BY DEF Schedule, ProjectRecord
<1> HIDE DEF next
<1>2. q.active < next.gen
  BY <1>1 DEF GenerationsMatch, ProjectRecord
<1> QED BY <1>1, <1>2 DEF Lags, next

\* What an event on document d, or on none, does to the documents that are discovered.
LEMMA EventDiscovers ==
  ASSUME TypeInv, TypeOK', TextsInv, SourceEvent, FoundIsUnrevised, NEW d,
         \A e \in Docs : e # d => ledger'[e] = ledger[e],
         \/ discovery \subseteq discovery'
         \/ ledger'[d] = Unopened /\ \A e \in discovery : e # d => e \in discovery',
         \/ ledger'[d] = Unopened
         \/ d \in discovery'
         \/ IsOpen(d) /\ ledger'[d].version = ledger[d].version + 1
         \/ ledger'[d] = ledger[d]
  PROVE  DiscoveryIsSignaled' /\ SupervisorWaits' /\ BatchSettles' /\ FoundHeld'
<1> USE DEF TypeInv
<1>1. Running /\ Running' /\ signal' = TRUE /\ UNCHANGED <<sup, batch, failing>>
  BY DEF SourceEvent, fiberVars, Running
<1>2. DiscoveryIsSignaled' /\ SupervisorWaits'
  BY <1>1, WaitsKept DEF DiscoveryIsSignaled, TextsInv
<1>3. BatchSettles'
  <2> SUFFICES ASSUME sup.pc = "discovering"
               PROVE  \/ batch.doc \in discovery'
                      \/ ledger'[batch.doc] = Unopened
                      \/ ledger'[batch.doc].version > batch.version
                      \/ /\ ledger'[batch.doc].version = batch.version
                         /\ ledger'[batch.doc].text = batch.text
    BY <1>1 DEF BatchSettles, IsOpen
  <2>1. /\ batch.doc \in Docs /\ batch.version \in Nat
        /\ ledger[batch.doc].version \in Nat /\ ledger'[batch.doc].version \in Nat
    BY DEF BoundsInv, BatchIsDated, TypeOK, BatchRecord
  <2>2. batch.doc \in discovery => batch.doc \in discovery' \/ ledger'[batch.doc] = Unopened
    BY <1>1 DEF IsOpen
  <2>3. CASE ledger'[batch.doc] = ledger[batch.doc]
    BY <1>1, <2>1, <2>2, <2>3 DEF TextsInv, BatchSettles, IsOpen
  <2>4. CASE ledger'[batch.doc] # ledger[batch.doc]
    <3>1. batch.doc = d
      BY <2>1, <2>4
    <3> QED BY <1>1, <2>1, <2>2, <2>4, <3>1 DEF TextsInv, BatchSettles, IsOpen
  <2> QED BY <2>3, <2>4
<1>4. FoundHeld'
  <2> SUFFICES ASSUME sup.pc = "discovering", NEW e \in Docs, batch.found[e] # NoText
               PROVE  IsOpen(e)' /\ (batch.found[e] = ledger'[e].text \/ e \in discovery')
    BY <1>1 DEF FoundHeld
  <2>1. IsOpen(e) /\ (batch.found[e] = ledger[e].text \/ e \in discovery)
    BY <1>1 DEF TextsInv, FoundHeld
  <2>2. ledger'[e] = ledger[e] /\ IsOpen(e)'
    BY <1>1, <2>1 DEF FoundIsUnrevised, IsOpen
  <2> QED BY <2>1, <2>2 DEF IsOpen
<1> QED BY <1>2, <1>3, <1>4

LEMMA EventNumbers ==
  ASSUME TypeOK, TextsInv, SourceEvent,
         \A e \in Docs : \/ ledger'[e] = ledger[e]
                        \/ ledger'[e] = Unopened
                        \/ ledger'[e].text = events + 1
  PROVE  TextsNumbered'
<1>1. events \in Nat /\ events' = events + 1 /\ UNCHANGED <<sup, batch>>
  BY DEF TypeOK, SourceEvent, fiberVars
<1>2. \A e \in Docs : ledger[e].text \in Nat
  BY DEF TypeOK
<1> QED BY <1>1, <1>2 DEF TextsInv, TextsNumbered, IsOpen, Unopened, NoText

\* A text that a context keeps is held as it was.
LEMMA TextCarried ==
  ASSUME TextsInv, Running, Running', UNCHANGED <<sup, batch>>,
         NEW c \in Contexts, NEW e \in Docs, ledger'[e] = ledger[e],
         e \in discovery => e \in discovery',
         project'[c].docs[e] = project[c].docs[e], Lags(project[c]) => Lags(project'[c])
  PROVE  TextHeld(c, e)'
<1> SUFFICES ASSUME project[c].docs[e] # NoText
             PROVE  IsOpen(e)' /\ (project[c].docs[e] = ledger[e].text \/ Outdated(c, e)')
  BY DEF TextHeld
<1>1. IsOpen(e) /\ (project[c].docs[e] = ledger[e].text \/ Outdated(c, e))
  BY DEF TextsInv, TextsHeld, TextHeld
<1>2. ToBeFound(e) => ToBeFound(e)'
  BY DEF ToBeFound
<1> QED BY <1>1, <1>2 DEF IsOpen, Outdated

\* A document without a project is in no context.
LEMMA InNoContext ==
  ASSUME TypeOK, TextsInv, Running, NEW d \in Docs, NEW c \in Contexts,
         ~Associated(d) \/ c # current
  PROVE  project[c].docs[d] = NoText
<1>1. project[c].docs[d] # NoText => c = current
  BY DocumentIsOf DEF TypeOK, TextsInv, OnlyCurrentHasDocuments
<1>2. 0 \notin Contexts
  BY DEF Contexts
<1> QED BY <1>1, <1>2 DEF Associated

\* The contexts stay as they are, and document d, which is revised, is in none.
LEMMA UnassociatedTexts ==
  ASSUME TypeOK, TextsInv, SourceEvent, UNCHANGED <<project, current>>, NEW d,
         ~Associated(d) \/ ~IsOpen(d) \/ ledger'[d] = ledger[d],
         \A e \in Docs : e # d => ledger'[e] = ledger[e],
         \A e \in discovery : e # d => e \in discovery',
         ledger'[d] = ledger[d] => discovery \subseteq discovery'
  PROVE  OnlyCurrentHasDocuments' /\ TextsHeld'
<1>1. Running /\ Running' /\ UNCHANGED <<sup, batch>>
  BY DEF SourceEvent, fiberVars, Running
<1>2. OnlyCurrentHasDocuments'
  BY <1>1 DEF TextsInv, OnlyCurrentHasDocuments
<1>3. ASSUME NEW c \in Contexts, NEW e \in Docs PROVE TextHeld(c, e)'
  <2>1. CASE e # d \/ ledger'[d] = ledger[d]
    BY <1>1, <2>1, TextCarried
  <2>2. CASE e = d /\ ledger'[d] # ledger[d]
    <3>1. project[c].docs[d] = NoText
      BY <1>1, <2>2, InNoContext DEF TextsInv, TextsHeld, TextHeld
    <3> QED BY <2>2, <3>1 DEF TextHeld
  <2> QED BY <2>1, <2>2
<1> QED BY <1>2, <1>3 DEF TextsHeld

\* The context in use is scheduled, with the new text of document d or without it.
LEMMA ScheduledTexts ==
  ASSUME TypeOK, TypeOK', CommitInv, TextsInv, SourceEvent, current # 0, UNCHANGED current,
         NEW q \in ProjectRecord, project' = [project EXCEPT ![current] = Schedule(q)],
         q.state = project[current].state, q.gen = project[current].gen,
         q.active = project[current].active, NEW d,
         \A e \in Docs : e # d => ledger'[e] = ledger[e] /\ q.docs[e] = project[current].docs[e],
         \A e \in discovery : e # d => e \in discovery',
         \/ q.docs[d] = NoText
         \/ q.docs[d] = ledger'[d].text /\ ledger'[d] # Unopened
         \/ /\ q.docs[d] = project[current].docs[d] /\ ledger'[d] = ledger[d]
            /\ discovery \subseteq discovery'
  PROVE  OnlyCurrentHasDocuments' /\ TextsHeld'
<1>1. Running /\ Running' /\ UNCHANGED <<sup, batch>>
  BY DEF SourceEvent, fiberVars, Running
<1>2. /\ current \in Contexts /\ project[current] \in ProjectRecord
      /\ project[current].state # "Closed" /\ GenerationsMatch(project[current])
  BY <1>1, CurrentIsOpen DEF CommitInv, ContextsMatch
<1>3. Schedule(q).docs = q.docs /\ Lags(Schedule(q))
  BY <1>2, ScheduleLags
<1>4. /\ project'[current].docs = q.docs /\ Lags(project'[current])
      /\ \A c \in Contexts \ {current} : project'[c] = project[c]
  BY <1>2, <1>3 DEF TypeOK
<1>5. OnlyCurrentHasDocuments'
  BY <1>1, <1>4 DEF TextsInv, OnlyCurrentHasDocuments
<1>6. ASSUME NEW c \in Contexts, NEW e \in Docs PROVE TextHeld(c, e)'
  <2>1. CASE c # current
    <3>1. project'[c].docs[e] = NoText
      BY <1>1, <1>4, <2>1, InNoContext
    <3> QED BY <3>1 DEF TextHeld
  <2>2. CASE c = current
    <3>1. CASE /\ q.docs[e] = project[current].docs[e] /\ ledger'[e] = ledger[e]
               /\ e \in discovery => e \in discovery'
      BY <1>1, <1>4, <2>2, <3>1, TextCarried
    <3>2. CASE /\ e = d
               /\ q.docs[d] = NoText \/ (q.docs[d] = ledger'[d].text /\ ledger'[d] # Unopened)
      BY <1>4, <2>2, <3>2 DEF TextHeld, IsOpen
    <3> QED BY <3>1, <3>2
  <2> QED BY <2>1, <2>2
<1> QED BY <1>5, <1>6 DEF TextsHeld

LEMMA OpenTexts ==
  ASSUME TypeInv, TypeOK', TextsInv, FoundIsUnrevised, NEW d \in Docs,
         Open(d) \/ ChangeUndiscovered(d)
  PROVE  TextsInv'
<1> USE DEF TypeInv
<1>1. /\ SourceEvent /\ UNCHANGED <<project, current>>
      /\ ~Associated(d) \/ ~IsOpen(d)
      /\ \A e \in Docs : e # d => ledger'[e] = ledger[e]
      /\ discovery' = discovery \cup {d} /\ ledger'[d].text = events + 1
  BY DEF Open, ChangeUndiscovered, projectVars, TypeOK
<1>2. OnlyCurrentHasDocuments' /\ TextsHeld'
  BY <1>1, UnassociatedTexts
<1>3. DiscoveryIsSignaled' /\ SupervisorWaits' /\ BatchSettles' /\ FoundHeld'
  BY <1>1, EventDiscovers
<1>4. TextsNumbered'
  BY <1>1, EventNumbers
<1> QED BY <1>2, <1>3, <1>4 DEF TextsInv

LEMMA ChangeTexts ==
  ASSUME TypeInv, TypeOK', CommitInv, TextsInv, FoundIsUnrevised, NEW d \in Docs,
         ChangeAssociated(d)
  PROVE  TextsInv'
<1> USE DEF TypeInv
<1> DEFINE q == [project[current] EXCEPT !.docs[d] = events + 1]
<1>1. /\ SourceEvent /\ UNCHANGED <<discovery, current>> /\ IsOpen(d) /\ current # 0
      /\ project' = [project EXCEPT ![current] = Schedule(q)]
      /\ ledger'[d] = [version |-> ledger[d].version + 1, text |-> events + 1]
      /\ \A e \in Docs : e # d => ledger'[e] = ledger[e]
  BY DEF ChangeAssociated, Associated, TypeOK
<1>2. events + 1 \in Nat /\ events + 1 # NoText
  BY DEF TypeOK, NoText
<1>3. Running /\ current \in Contexts /\ project[current] \in ProjectRecord
  BY <1>1, CurrentIsOpen DEF SourceEvent
<1>4. /\ q \in ProjectRecord /\ q.docs[d] = events + 1
      /\ q.state = project[current].state /\ q.gen = project[current].gen
      /\ q.active = project[current].active
      /\ \A e \in Docs : e # d => q.docs[e] = project[current].docs[e]
  BY <1>2, <1>3, DocumentType DEF ProjectRecord, Snapshot
<1> HIDE DEF q
<1>5. /\ ledger'[d].version = ledger[d].version + 1 /\ ledger'[d] # Unopened
      /\ q.docs[d] = ledger'[d].text /\ \A e \in discovery : e # d => e \in discovery'
  BY <1>1, <1>2, <1>4 DEF Unopened
<1>6. OnlyCurrentHasDocuments' /\ TextsHeld'
  <2>1. \A e \in Docs : e # d =>
          ledger'[e] = ledger[e] /\ q.docs[e] = project[current].docs[e]
    BY <1>1, <1>4
  <2>2. \/ q.docs[d] = NoText
        \/ q.docs[d] = ledger'[d].text /\ ledger'[d] # Unopened
        \/ /\ q.docs[d] = project[current].docs[d] /\ ledger'[d] = ledger[d]
           /\ discovery \subseteq discovery'
    BY <1>5
  <2> QED BY <1>1, <1>4, <1>5, <2>1, <2>2, ScheduledTexts
<1>7. DiscoveryIsSignaled' /\ SupervisorWaits' /\ BatchSettles' /\ FoundHeld'
  BY <1>1, <1>5, EventDiscovers
<1>8. TextsNumbered'
  BY <1>1, EventNumbers
<1> QED BY <1>6, <1>7, <1>8 DEF TextsInv

LEMMA CloseTexts ==
  ASSUME TypeInv, TypeOK', CommitInv, TextsInv, FoundIsUnrevised, NEW d \in Docs, Close(d)
  PROVE  TextsInv'
<1> USE DEF TypeInv
<1>1. /\ SourceEvent /\ Running /\ IsOpen(d) /\ ledger'[d] = Unopened
      /\ \A e \in Docs : e # d => ledger'[e] = ledger[e]
      /\ discovery' = discovery \ {d}
  BY DEF Close, TypeOK, IsOpen, SourceEvent
<1>2. DiscoveryIsSignaled' /\ SupervisorWaits' /\ BatchSettles' /\ FoundHeld'
  BY <1>1, EventDiscovers
<1>3. OnlyCurrentHasDocuments' /\ TextsHeld'
  <2>1. CASE ~Associated(d)
    <3>1. UNCHANGED <<project, current>> /\ ledger'[d] # ledger[d]
      BY <1>1, <2>1 DEF Close, projectVars, IsOpen
    <3> QED BY <1>1, <2>1, <3>1, UnassociatedTexts
  <2>2. CASE Associated(d)
    <3> DEFINE left == [project[current] EXCEPT !.docs[d] = NoText]
    <3> DEFINE last == ~HasDocuments(left)
    <3> DEFINE closed == [left EXCEPT !.state = "Closed"]
    <3>1. /\ current # 0
          /\ project' = [project EXCEPT ![current] = IF last THEN closed ELSE Schedule(left)]
          /\ current' = IF last THEN 0 ELSE current
      BY <2>2 DEF Close, Associated
    <3>2. current \in Contexts /\ project[current] \in ProjectRecord /\ NoText \in Nat
      BY <1>1, <3>1, CurrentIsOpen DEF NoText
    <3>3. left \in ProjectRecord
      BY <3>2, DocumentType
    <3>4. /\ left.docs[d] = NoText /\ left.state = project[current].state
          /\ left.gen = project[current].gen
          /\ left.active = project[current].active
          /\ \A e \in Docs : e # d => left.docs[e] = project[current].docs[e]
      BY <3>2 DEF ProjectRecord, Snapshot
    <3> HIDE DEF left
    <3>5. CASE ~last
      <4>1. \A e \in Docs : e # d =>
              ledger'[e] = ledger[e] /\ left.docs[e] = project[current].docs[e]
        BY <1>1, <3>4
      <4> QED BY <1>1, <3>1, <3>3, <3>4, <3>5, <4>1, ScheduledTexts
    <3>6. CASE last
      <4>1. closed.docs = NoSources
        BY <3>3, <3>6 DEF HasDocuments, ProjectRecord
      <4> HIDE DEF closed
      <4>2. /\ project'[current].docs = NoSources
            /\ \A c \in Contexts \ {current} : project'[c] = project[c]
        BY <3>1, <3>2, <3>6, <4>1 DEF TypeOK
      <4>3. \A c \in Contexts : ~HasDocuments(project'[c])
        BY <1>1, <4>2 DEF HasDocuments, TextsInv, OnlyCurrentHasDocuments
      <4>4. \A c \in Contexts : \A e \in Docs : project'[c].docs[e] = NoText
        BY <4>3, DocumentIsOf DEF TypeOK
      <4> QED BY <4>3, <4>4 DEF OnlyCurrentHasDocuments, HasDocuments, TextsHeld, TextHeld
    <3> QED BY <3>5, <3>6
  <2> QED BY <2>1, <2>2
<1>4. TextsNumbered'
  BY <1>1, EventNumbers
<1> QED BY <1>2, <1>3, <1>4 DEF TextsInv

LEMMA InvalidateTexts ==
  ASSUME TypeInv, TypeOK', CommitInv, TextsInv, FoundIsUnrevised,
         NEW kind \in FileEvents, Invalidate(kind)
  PROVE  TextsInv'
<1> USE DEF TypeInv
<1> DEFINE q == [project[current] EXCEPT !.dirty = @ \/ kind = "source",
                                         !.rediscover = @ \/ kind = "manifest"]
<1>1. /\ SourceEvent /\ Running /\ UNCHANGED <<ledger, current>>
      /\ discovery \subseteq discovery'
  BY DEF Invalidate, SourceEvent
<1>2. \/ UNCHANGED project
      \/ current # 0 /\ project' = [project EXCEPT ![current] = Schedule(q)]
  BY DEF Invalidate
<1>3. OnlyCurrentHasDocuments' /\ TextsHeld'
  <2>1. CASE UNCHANGED project
    BY <1>1, <2>1, UnassociatedTexts
  <2>2. CASE current # 0 /\ project' = [project EXCEPT ![current] = Schedule(q)]
    <3>1. project[current] \in ProjectRecord
      BY <1>1, <2>2, CurrentIsOpen
    <3>2. /\ q \in ProjectRecord /\ q.docs = project[current].docs
          /\ q.state = project[current].state /\ q.gen = project[current].gen
          /\ q.active = project[current].active
      BY <3>1 DEF ProjectRecord
    <3> HIDE DEF q
    <3> QED BY <1>1, <2>2, <3>2, ScheduledTexts
  <2> QED BY <1>2, <2>1, <2>2
<1>4. DiscoveryIsSignaled' /\ SupervisorWaits' /\ BatchSettles' /\ FoundHeld'
  BY <1>1, EventDiscovers
<1>5. TextsNumbered'
  BY <1>1, EventNumbers
<1> QED BY <1>3, <1>4, <1>5 DEF TextsInv

-----------------------------------------------------------------------------
\* The texts: steps that discover them.

\* The supervisor begins to discover what was accepted: every document that is
\* outdated is in the batch.
LEMMA DiscoverTexts ==
  ASSUME TypeOK, TypeOK', TextsInv, NEW P \in [Contexts -> ProjectRecord], NEW signaled,
         \A c \in Contexts : Kept(project[c], P[c]), SupersedeThenDiscover(P, signaled),
         UNCHANGED <<ledger, events, current, engine, failing>>, Running,
         sup.pc \in {"idle", "debounce", "retiring"}
  PROVE  TextsInv'
<1> DEFINE open == {d \in discovery : IsOpen(d)}
<1>1. \A c \in Contexts : LagsOn(project[c], project'[c])
  <2>1. \A c \in Contexts : Kept(P[c], project'[c])
    BY SupersedeThenDiscoverHolds
  <2> QED BY <2>1, KeptTwice, KeptLags DEF TypeOK
<1>2. /\ discovery' = {} /\ Running'
      /\ \/ open = {} /\ batch' = NoBatch /\ sup' = Supervisor("debounce", {})
         \/ /\ sup' = Supervisor("discovering", {})
            /\ \E d \in open :
                 batch' = [doc |-> d, version |-> ledger[d].version, text |-> ledger[d].text,
                           rest |-> discovery \ {d}, found |-> NoSources]
  BY DEF SupersedeThenDiscover, Running
<1>3. discovery \subseteq Docs
  BY DEF TypeOK
<1>4. sup'.pc \in {"debounce", "discovering"}
  BY <1>2 DEF Supervisor
<1>5. sup'.pc = "discovering" =>
        /\ \E d \in open :
             batch' = [doc |-> d, version |-> ledger[d].version, text |-> ledger[d].text,
                       rest |-> discovery \ {d}, found |-> NoSources]
        /\ batch'.doc \in Docs /\ IsOpen(batch'.doc) /\ batch'.found = NoSources
        /\ batch'.version = ledger[batch'.doc].version /\ batch'.text = ledger[batch'.doc].text
        /\ discovery = {batch'.doc} \cup batch'.rest
  BY <1>2, <1>3 DEF Supervisor
<1>6. TextsNumbered' /\ OnlyCurrentHasDocuments' /\ SupervisorWaits'
  <2>1. SupervisorWaits'
    BY WaitsKept DEF TextsInv
  <2>2. OnlyCurrentHasDocuments'
    BY <1>1 DEF LagsOn, TextsInv, OnlyCurrentHasDocuments, HasDocuments
  <2>3. TextsNumbered'
    BY <1>5 DEF TextsInv, TextsNumbered, IsOpen
  <2> QED BY <2>1, <2>2, <2>3
<1>7. DiscoveryIsSignaled' /\ BatchSettles' /\ FoundHeld'
  <2>1. sup'.pc = "discovering" => \A d \in Docs : batch'.found[d] = NoText
    BY <1>5 DEF NoSources
  <2> QED BY <1>2, <1>5, <2>1 DEF DiscoveryIsSignaled, Unrevised, BatchSettles, FoundHeld
<1>8. ASSUME NEW c \in Contexts, NEW d \in Docs PROVE TextHeld(c, d)'
  <2> SUFFICES ASSUME project[c].docs[d] # NoText
               PROVE  IsOpen(d)' /\ (project[c].docs[d] = ledger[d].text \/ Outdated(c, d)')
    BY <1>1 DEF LagsOn, TextHeld
  <2>1. IsOpen(d) /\ (project[c].docs[d] = ledger[d].text \/ Outdated(c, d))
    BY DEF TextsInv, TextsHeld, TextHeld
  <2>2. ASSUME Outdated(c, d) PROVE Outdated(c, d)'
    <3>1. d \in discovery /\ Lags(project[c])
      BY <2>2 DEF Outdated, ToBeFound
    <3>2. d \in open
      BY <2>1, <3>1
    <3>3. sup'.pc = "discovering"
      BY <1>2, <3>2 DEF Supervisor
    <3>4. d \in {batch'.doc} \cup batch'.rest
      BY <1>5, <3>1, <3>3
    <3> QED BY <1>1, <3>1, <3>3, <3>4 DEF LagsOn, Outdated, ToBeFound
  <2> QED BY <2>1, <2>2 DEF IsOpen
<1>9. TextsHeld'
  BY <1>8 DEF TextsHeld
<1> QED BY <1>6, <1>7, <1>9 DEF TextsInv

LEMMA TakeSignalTexts ==
  ASSUME TypeInv, TypeOK', TextsInv, TakeSignal
  PROVE  TextsInv'
<1> USE DEF TypeInv
<1>1. /\ Running /\ UNCHANGED <<ledger, events, current, engine, failing>>
      /\ sup.pc \in {"idle", "debounce"}
  BY DEF TakeSignal, SupervisorStep, sourceVars
<1>2. RetiredContexts \in [Contexts -> ProjectRecord]
  BY RetirementsType
<1>3. \A c \in Contexts : Kept(project[c], RetiredContexts[c])
  BY RetiredKept, KeptItself DEF RetiredContexts, TypeOK
<1>4. CASE SupersedeThenDiscover(RetiredContexts, FALSE)
  BY <1>1, <1>2, <1>3, <1>4, DiscoverTexts
<1>5. CASE /\ project' = RetiredContexts
           /\ sup' = Supervisor("retiring", RetiredSlots)
           /\ UNCHANGED <<discovery, batch>>
  <2>1. sup'.pc = "retiring" /\ UNCHANGED <<discovery, batch>>
    BY <1>5 DEF Supervisor
  <2>2. \A c \in Contexts : LagsOn(project[c], project'[c])
    BY <1>2, <1>3, <1>5, KeptLags DEF TypeOK
  <2>3. SupervisorWaits'
    BY <1>1, WaitsKept DEF TextsInv
  <2>4. OnlyCurrentHasDocuments' /\ TextsNumbered'
    BY <1>1, <2>1, <2>2 DEF LagsOn, TextsInv, OnlyCurrentHasDocuments, HasDocuments,
                            TextsNumbered, IsOpen
  <2>5. DiscoveryIsSignaled' /\ BatchSettles' /\ FoundHeld'
    BY <2>1 DEF DiscoveryIsSignaled, BatchSettles, FoundHeld
  <2>6. ASSUME NEW c \in Contexts, NEW d \in Docs PROVE TextHeld(c, d)'
    BY <1>1, <2>1, <2>2 DEF LagsOn, TextsInv, TextsHeld, TextHeld, IsOpen, Outdated, ToBeFound
  <2>7. TextsHeld'
    BY <2>6 DEF TextsHeld
  <2> QED BY <2>3, <2>4, <2>5, <2>7 DEF TextsInv
<1> QED BY <1>4, <1>5 DEF TakeSignal, RetiredContexts, RetiredSlots

LEMMA FinishRetirementsTexts ==
  ASSUME TypeInv, TypeOK', TextsInv, FinishRetirements
  PROVE  TextsInv'
<1>1. /\ Running /\ UNCHANGED <<ledger, events, current, engine, failing>>
      /\ sup.pc = "retiring" /\ SupersedeThenDiscover(project, signal)
  BY DEF FinishRetirements, SupervisorStep, sourceVars
<1>2. TypeOK /\ project \in [Contexts -> ProjectRecord]
  BY DEF TypeInv, TypeOK
<1>3. \A c \in Contexts : Kept(project[c], project[c])
  BY <1>2, KeptItself
<1> QED BY <1>1, <1>2, <1>3, DiscoverTexts

\* The texts found when the discovery of a document returns.
FoundText ==
  IF Unrevised(batch.doc, batch.version) THEN [batch.found EXCEPT ![batch.doc] = batch.text]
  ELSE batch.found

LEMMA FoundTexts ==
  ASSUME TypeInv, TextsInv, Running, sup.pc = "discovering",
         discovery' = IF ~Unrevised(batch.doc, batch.version) /\ IsOpen(batch.doc)
                      THEN discovery \cup {batch.doc} ELSE discovery
  PROVE  /\ FoundText \in Snapshot
         /\ \A d \in Docs : FoundText[d] # NoText =>
              IsOpen(d) /\ (FoundText[d] = ledger[d].text \/ d \in discovery')
         /\ \A d \in Docs : IsOpen(d) /\ ToBeFound(d) =>
              d \in discovery' \/ FoundText[d] # NoText \/ d \in batch.rest
         /\ discovery' # {} => signal
<1> USE DEF TypeInv
<1> DEFINE same == Unrevised(batch.doc, batch.version)
<1>1. /\ batch.doc \in Docs /\ batch.version \in Nat /\ batch.version # 0
      /\ batch.text \in Nat /\ batch.text # NoText /\ batch.found \in Snapshot
      /\ ledger[batch.doc].version \in Nat
  BY DEF BoundsInv, BatchIsDated, TypeOK, BatchRecord, TextsInv, TextsNumbered
<1>2. /\ same => FoundText[batch.doc] = batch.text
      /\ ~same => FoundText[batch.doc] = batch.found[batch.doc]
      /\ \A d \in Docs : d # batch.doc => FoundText[d] = batch.found[d]
      /\ FoundText \in Snapshot
  BY <1>1 DEF FoundText, Snapshot
<1>3. discovery \subseteq discovery'
  OBVIOUS
<1>4. \A d \in Docs : batch.found[d] # NoText =>
        IsOpen(d) /\ (batch.found[d] = ledger[d].text \/ d \in discovery')
  BY <1>3 DEF TextsInv, FoundHeld
<1>5. same => IsOpen(batch.doc) /\ (batch.text = ledger[batch.doc].text \/ batch.doc \in discovery')
  <2>1. same => IsOpen(batch.doc)
    BY <1>1 DEF Unrevised, IsOpen, Unopened
  <2> QED BY <1>1, <1>3, <2>1 DEF TextsInv, BatchSettles, Unrevised
<1>6. \A d \in Docs : FoundText[d] # NoText =>
        IsOpen(d) /\ (FoundText[d] = ledger[d].text \/ d \in discovery')
  BY <1>2, <1>4, <1>5
<1>7. ASSUME NEW d \in Docs, IsOpen(d), ToBeFound(d)
      PROVE  d \in discovery' \/ FoundText[d] # NoText \/ d \in batch.rest
  <2>1. CASE d = batch.doc
    BY <1>1, <1>2, <1>7, <2>1
  <2>2. CASE d # batch.doc
    BY <1>2, <1>3, <1>7, <2>2 DEF ToBeFound
  <2> QED BY <2>1, <2>2
<1>8. discovery' # {} => signal
  BY DEF TextsInv, DiscoveryIsSignaled
<1> QED BY <1>2, <1>6, <1>7, <1>8

\* The documents that were found join the context in use, or a new one.  Those that
\* were revised since will be found again.
LEMMA AdoptTexts ==
  ASSUME TypeInv, TypeOK', CommitInv, TextsInv, Running, sup.pc = "discovering",
         UNCHANGED <<ledger, engine>>, NEW found \in Snapshot, Adopt(found),
         sup' = Supervisor("debounce", {}),
         \A d \in Docs : found[d] # NoText =>
           IsOpen(d) /\ (found[d] = ledger[d].text \/ d \in discovery'),
         \A d \in Docs : IsOpen(d) /\ ToBeFound(d) => d \in discovery' \/ found[d] # NoText
  PROVE  OnlyCurrentHasDocuments' /\ TextsHeld'
<1> USE DEF TypeInv
<1> DEFINE touched == {d \in Docs : found[d] # NoText}
<1> DEFINE c == IF current # 0 THEN current ELSE created + 1
<1> DEFINE docs == [d \in Docs |-> IF d \in touched THEN found[d] ELSE project[c].docs[d]]
<1> DEFINE adopted == [project[c] EXCEPT !.docs = docs, !.rediscover = FALSE]
<1>1. sup'.pc = "debounce" /\ Running'
  BY DEF Supervisor, Running
<1>2. \A k \in Contexts, d \in Docs : project[k].docs[d] # NoText =>
        k = current /\ IsOpen(d) /\ (project[k].docs[d] = ledger[d].text \/ Outdated(k, d))
  <2>1. ASSUME NEW k \in Contexts, NEW d \in Docs, project[k].docs[d] # NoText
        PROVE  k = current
    BY <2>1, InNoContext
  <2> QED BY <2>1 DEF TextsInv, TextsHeld, TextHeld
<1>3. CASE touched = {}
  <2>1. UNCHANGED <<project, current>>
    BY <1>3 DEF Adopt
  <2>2. OnlyCurrentHasDocuments'
    BY <2>1 DEF TextsInv, OnlyCurrentHasDocuments
  <2>3. ASSUME NEW k \in Contexts, NEW d \in Docs PROVE TextHeld(k, d)'
    <3>1. IsOpen(d) /\ Outdated(k, d) => Outdated(k, d)'
      BY <1>1, <1>3, <2>1 DEF Outdated, ToBeFound
    <3> QED BY <1>2, <2>1, <3>1 DEF TextHeld, IsOpen
  <2> QED BY <2>2, <2>3 DEF TextsHeld
<1>4. CASE touched # {}
  <2>1. /\ project' = [project EXCEPT ![c] = Schedule(adopted)]
        /\ current' = c
    BY <1>4 DEF Adopt
  <2>2. created \in Nat /\ current \in Nat
    BY EngineAssumption DEF TypeOK, Contexts
  <2>3. c \in Contexts /\ project[c] \in ProjectRecord
    <3>1. c # 0
      BY <2>2
    <3> QED BY <2>1, <3>1 DEF TypeOK
  <2>4. project[c].state # "Closed" /\ GenerationsMatch(project[c])
    <3>1. CASE current # 0
      BY <2>3, <3>1, CurrentIsOpen DEF CommitInv, ContextsMatch
    <3>2. CASE current = 0
      BY <2>2, <2>3, <3>2 DEF CommitInv, CurrentInv, ContextsMatch
    <3> QED BY <3>1, <3>2
  <2>5. c = current \/ current = 0
    OBVIOUS
  <2>6. docs \in Snapshot
    BY <2>3 DEF Snapshot, ProjectRecord
  <2>7. \A d \in Docs : docs[d] = IF found[d] # NoText THEN found[d] ELSE project[c].docs[d]
    OBVIOUS
  <2> HIDE DEF docs, c
  <2>8. /\ adopted \in ProjectRecord /\ adopted.docs = docs
        /\ adopted.state = project[c].state /\ adopted.gen = project[c].gen
        /\ adopted.active = project[c].active
    <3> DEFINE q == [project[c] EXCEPT !.docs = docs]
    <3>1. q \in ProjectRecord /\ q.docs = docs
      BY <2>3, <2>6 DEF ProjectRecord
    <3>2. /\ q.state = project[c].state /\ q.gen = project[c].gen
          /\ q.active = project[c].active
      BY <2>3 DEF ProjectRecord
    <3>3. adopted = [q EXCEPT !.rediscover = FALSE]
      OBVIOUS
    <3> HIDE DEF q
    <3> QED BY <3>1, <3>2, <3>3 DEF ProjectRecord
  <2> HIDE DEF adopted
  <2>9. Schedule(adopted).docs = docs /\ Lags(Schedule(adopted))
    BY <2>3, <2>4, <2>8, ScheduleLags
  <2>10. /\ project'[c].docs = docs /\ Lags(project'[c])
         /\ \A k \in Contexts : k # c => project'[k] = project[k]
    BY <2>1, <2>3, <2>9 DEF TypeOK
  <2>11. \A k \in Contexts, d \in Docs : k # c => project'[k].docs[d] = NoText
    BY <1>2, <2>5, <2>10 DEF Contexts
  <2>12. OnlyCurrentHasDocuments'
    <3>1. \A k \in Contexts : k # c => ~HasDocuments(project'[k])
      BY <2>5, <2>10 DEF TextsInv, OnlyCurrentHasDocuments, Contexts
    <3> QED BY <2>1, <3>1 DEF OnlyCurrentHasDocuments
  <2>13. ASSUME NEW k \in Contexts, NEW d \in Docs PROVE TextHeld(k, d)'
    <3> SUFFICES ASSUME k = c, docs[d] # NoText
                 PROVE  IsOpen(d)' /\ (docs[d] = ledger[d].text \/ Outdated(k, d)')
      BY <2>10, <2>11 DEF TextHeld
    <3>1. d \in discovery' => Outdated(k, d)'
      BY <1>1, <2>10 DEF Outdated, ToBeFound
    <3>2. CASE found[d] # NoText
      BY <2>7, <3>1, <3>2 DEF IsOpen
    <3>3. CASE found[d] = NoText
      <4>1. docs[d] = project[c].docs[d] /\ IsOpen(d)
        BY <1>2, <2>3, <2>7, <3>3
      <4>2. docs[d] = ledger[d].text \/ ToBeFound(d)
        BY <1>2, <2>3, <4>1 DEF Outdated
      <4> QED BY <3>1, <3>3, <4>1, <4>2 DEF IsOpen
    <3> QED BY <3>2, <3>3
  <2> QED BY <2>12, <2>13 DEF TextsHeld
<1> QED BY <1>3, <1>4

LEMMA DiscoveredTexts ==
  ASSUME TypeInv, TypeOK', CommitInv, TextsInv, Discovered
  PROVE  TextsInv'
<1> USE DEF TypeInv
<1> DEFINE rest == {e \in batch.rest : IsOpen(e)}
<1>1. /\ Running /\ Running' /\ sup.pc = "discovering"
      /\ UNCHANGED <<ledger, events, engine, signal, failing>>
      /\ discovery' = IF ~Unrevised(batch.doc, batch.version) /\ IsOpen(batch.doc)
                      THEN discovery \cup {batch.doc} ELSE discovery
  BY DEF Discovered, SupervisorStep, sourceVars, Running
<1>2. /\ FoundText \in Snapshot
      /\ \A d \in Docs : FoundText[d] # NoText =>
           IsOpen(d) /\ (FoundText[d] = ledger[d].text \/ d \in discovery')
      /\ \A d \in Docs : IsOpen(d) /\ ToBeFound(d) =>
           d \in discovery' \/ FoundText[d] # NoText \/ d \in batch.rest
      /\ discovery' # {} => signal
  BY <1>1, FoundTexts
<1>3. SupervisorWaits'
  BY <1>1, WaitsKept DEF TextsInv
<1>4. CASE rest # {}
  <2>1. PICK e \in rest :
          batch' = [doc |-> e, version |-> ledger[e].version, text |-> ledger[e].text,
                    rest |-> batch.rest \ {e}, found |-> FoundText]
    BY <1>4 DEF Discovered, FoundText
  <2>2. /\ UNCHANGED <<project, current, sup>>
        /\ e \in Docs /\ IsOpen(e)
        /\ batch'.doc = e /\ batch'.version = ledger[e].version /\ batch'.text = ledger[e].text
        /\ batch'.found = FoundText /\ batch'.rest = batch.rest \ {e}
    BY <1>4, <2>1 DEF Discovered, TypeOK, BatchRecord
  <2>3. TextsNumbered' /\ OnlyCurrentHasDocuments'
    BY <1>1, <2>2 DEF TextsInv, TextsNumbered, OnlyCurrentHasDocuments, IsOpen
  <2>4. DiscoveryIsSignaled' /\ BatchSettles' /\ FoundHeld'
    BY <1>1, <1>2, <2>2 DEF DiscoveryIsSignaled, BatchSettles, FoundHeld, Unrevised, IsOpen
  <2>5. ASSUME NEW c \in Contexts, NEW d \in Docs PROVE TextHeld(c, d)'
    <3>1. IsOpen(d) /\ ToBeFound(d) => ToBeFound(d)'
      BY <1>1, <1>2, <2>2 DEF ToBeFound
    <3>2. IsOpen(d) /\ Outdated(c, d) => Outdated(c, d)'
      BY <2>2, <3>1 DEF Outdated
    <3> QED BY <1>1, <2>2, <3>2 DEF TextsInv, TextsHeld, TextHeld, IsOpen
  <2> QED BY <1>3, <2>3, <2>4, <2>5 DEF TextsInv, TextsHeld
<1>5. CASE rest = {}
  <2>1. Adopt(FoundText) /\ sup' = Supervisor("debounce", {})
    BY <1>5 DEF Discovered, FoundText
  <2>2. sup'.pc = "debounce"
    BY <2>1 DEF Supervisor
  <2>3. \A d \in Docs : IsOpen(d) /\ ToBeFound(d) => d \in discovery' \/ FoundText[d] # NoText
    BY <1>2, <1>5
  <2>4. OnlyCurrentHasDocuments' /\ TextsHeld'
    BY <1>1, <1>2, <2>1, <2>3, AdoptTexts
  <2>5. TextsNumbered' /\ DiscoveryIsSignaled' /\ BatchSettles' /\ FoundHeld'
    BY <1>1, <1>2, <2>2 DEF TextsInv, TextsNumbered, DiscoveryIsSignaled, BatchSettles, FoundHeld,
                            IsOpen
  <2> QED BY <1>3, <2>4, <2>5 DEF TextsInv
<1> QED BY <1>4, <1>5

-----------------------------------------------------------------------------
\* The texts: every step.

LEMMA InitTexts ==
  ASSUME Init
  PROVE  TextsInv
<1>1. \A c \in Contexts : ~HasDocuments(project[c]) /\ \A d \in Docs : project[c].docs[d] = NoText
  BY DEF Init, NewProject, HasDocuments, NoSources
<1>2. ledger = [d \in Docs |-> Unopened] /\ events = 0
  BY DEF Init
<1>3. TextsNumbered
  BY <1>2 DEF Init, Supervisor, TextsNumbered, IsOpen, Unopened, NoText
<1> QED BY <1>1, <1>3 DEF TextsInv, Init, Supervisor, OnlyCurrentHasDocuments, DiscoveryIsSignaled,
                     SupervisorWaits, BatchSettles, FoundHeld, TextsHeld, TextHeld

LEMMA StepTexts ==
  ASSUME TypeInv, TypeOK', CommitInv, TextsInv, Next, FoundIsUnrevised
  PROVE  TextsInv'
<1>1. CASE Client
  BY <1>1, OpenTexts, ChangeTexts, CloseTexts, InvalidateTexts, OtherTexts, ShutdownTexts
     DEF Client, TypeInv
<1>2. CASE SupervisorNext
  BY <1>2, TakeSignalTexts, FinishRetirementsTexts, DiscoveredTexts, SupervisorTexts
     DEF SupervisorNext
<1>3. CASE \E r \in Requests : Resume(r)
  BY <1>3, OtherTexts
<1>4. CASE \E w \in Workers : ListenerNext(w) \/ ThreadNext(w) \/ FinishLease(w)
  BY <1>4, ListenerTexts, OtherTexts, WatchdogTexts
<1>5. CASE \E c \in Contexts : NoProgress(c) \/ LeaseExpires(c)
  BY <1>5, WatchdogTexts
<1>6. CASE \E f \in failing : FinishFailure(f)
  BY <1>6, WatchdogTexts
<1>7. CASE Faulty
  BY <1>7, SupervisorTexts, WatchdogTexts, OtherTexts DEF Faulty
<1>8. CASE ShutdownEnds
  BY <1>8, ShutdownTexts DEF TypeInv
<1> QED BY <1>1, <1>2, <1>3, <1>4, <1>5, <1>6, <1>7, <1>8 DEF Next

LEMMA TextsSuffice ==
  ASSUME TypeInv, CommitInv, TextsInv
  PROVE  OpenTextsAreCommitted
<1> USE DEF TypeInv
<1> SUFFICES ASSUME CurrentState("Committed"), NEW d \in Docs, IsOpen(d), Associated(d)
             PROVE  project[current].docs[d] = ledger[d].text
  BY DEF OpenTextsAreCommitted
<1>1. Running
  BY DEF BoundsInv, LedgerIsCleared
<1>2. current \in Contexts /\ project[current].docs[d] # NoText
  BY DEF CurrentState, Associated, TypeOK
<1>3. ~Lags(project[current])
  BY DEF CurrentState, Lags
<1> QED BY <1>1, <1>2, <1>3, CommittedTexts

ServiceInv == TypeInv /\ CommitInv /\ TextsInv

LEMMA ServiceKept ==
  ASSUME TypeInv', ServiceInv, [Next /\ FoundIsUnrevised]_vars
  PROVE  ServiceInv'
<1>1. CASE Next /\ FoundIsUnrevised
  BY <1>1, StepCommits, StepTexts DEF ServiceInv, TypeInv
<1>2. CASE UNCHANGED vars
  BY <1>2, StutterCommits, OtherTexts DEF ServiceInv, TypeInv
<1> QED BY <1>1, <1>2

LEMMA ServiceHolds == Spec /\ [][FoundIsUnrevised]_vars => []ServiceInv
<1>1. Init /\ TypeInv => ServiceInv
  BY InitCommits, InitTexts DEF ServiceInv
<1>2. TypeInv' /\ ServiceInv /\ [Next]_vars /\ [FoundIsUnrevised]_vars => ServiceInv'
  BY ServiceKept
<1> QED BY <1>1, <1>2, TypesKept, PTL DEF Spec

\* A committed project rests on the newest text of every open document that belongs
\* to it, unless a document was revised between its own discovery and the end of the
\* batch it was discovered in (processDiscovery checks the version when the discovery
\* of the document returns, and hands the text over when that of the last one does).
THEOREM CommittedTextsAreNewest ==
  Spec /\ [][FoundIsUnrevised]_vars => []OpenTextsAreCommitted
<1>1. ServiceInv => OpenTextsAreCommitted
  BY TextsSuffice DEF ServiceInv
<1> QED BY <1>1, ServiceHolds, PTL

-----------------------------------------------------------------------------
\* A workspace of one document.

\* The step in which a batch is begun, goes on or ends.
LEMMA BatchSteps ==
  ASSUME Next, batch' # batch
  PROVE  TakeSignal \/ FinishRetirements \/ Discovered \/ ShutdownEnds
<1>1. CASE Client
  BY <1>1 DEF Client, Open, ChangeAssociated, ChangeUndiscovered, Close, Invalidate, Ask, Abandon,
              ShutdownBegins, SourceEvent, ClientStep, fiberVars
<1>2. CASE SupervisorNext
  BY <1>2 DEF SupervisorNext, DebounceIdle, DebounceStart, DebounceSpawn, WorkerIsReady,
              WorkerNeverReady, ReadinessExpires
<1>3. CASE \E r \in Requests : Resume(r)
  BY <1>3 DEF Resume, ClientStep, fiberVars
<1>4. CASE \E w \in Workers : ListenerNext(w)
  <2>1. \E w \in Workers : \E tag : Receive(w, tag)
    BY <1>4 DEF ListenerNext, ReceiveStale, ReceiveReady, ReceiveSuperseded, ReceiveCommit,
                ReceiveFailure, ReceiveResult, ReceiveDied
  <2> QED BY <2>1 DEF Receive
<1>5. CASE \E w \in Workers :
             ThreadNext(w) \/ WorkerDefects(w) \/ WorkerForgetsQuery(w) \/ WorkerDies(w)
               \/ WorkerHangs(w)
  BY <1>5 DEF ThreadNext, WorkerAccepts, WorkerCommits, WorkerAnswers, Terminate, WorkerDefects,
              WorkerForgetsQuery, WorkerDies, WorkerHangs, WorkerRuns, ThreadStep, fiberVars
<1>6. CASE \/ \E w \in Workers : FinishLease(w)
           \/ \E c \in Contexts : NoProgress(c) \/ LeaseExpires(c) \/ Stall(c)
           \/ \E f \in failing : FinishFailure(f)
           \/ SpawnFails
  BY <1>6 DEF FinishLease, NoProgress, LeaseExpires, Stall, FinishFailure, SpawnFails, WatchdogStep
<1> QED BY <1>1, <1>2, <1>3, <1>4, <1>5, <1>6 DEF Next, Faulty

OneDocument == \A d, e \in Docs : d = e

\* Its discovery is the whole batch.
NothingFound == batch.found = NoSources /\ batch.rest = {}

LEMMA OneIsNotFound ==
  ASSUME OneDocument
  PROVE  Spec => [][FoundIsUnrevised]_vars
<1>1. Init => NothingFound
  BY DEF Init, NothingFound, NoBatch
<1>2. TypeInv /\ NothingFound /\ [Next]_vars => NothingFound'
  <2> SUFFICES ASSUME TypeInv, NothingFound, [Next]_vars, batch' # batch
               PROVE  NothingFound'
    BY DEF NothingFound
  <2>1. TakeSignal \/ FinishRetirements \/ Discovered \/ ShutdownEnds
    BY BatchSteps DEF vars, fiberVars
  <2>2. ASSUME NEW P, NEW signaled, SupersedeThenDiscover(P, signaled) PROVE NothingFound'
    BY <2>2 DEF SupersedeThenDiscover, NoBatch, NothingFound, OneDocument, TypeInv, TypeOK
  <2>3. CASE TakeSignal \/ FinishRetirements
    BY <2>2, <2>3 DEF TakeSignal, FinishRetirements
  <2>4. CASE Discovered \/ ShutdownEnds
    BY <2>4 DEF Discovered, ShutdownEnds, NothingFound, NoBatch
  <2> QED BY <2>1, <2>3, <2>4
<1>3. NothingFound => FoundIsUnrevised
  BY DEF NothingFound, FoundIsUnrevised, NoSources
<1> QED BY <1>1, <1>2, <1>3, TypesKept, PTL DEF Spec

\* In a workspace of one document it always does.
THEOREM OneCommittedTextIsNewest ==
  ASSUME OneDocument
  PROVE  Spec => []OpenTextsAreCommitted
  BY OneIsNotFound, CommittedTextsAreNewest, PTL

-----------------------------------------------------------------------------
\* The generations of a context: the moves a step can make.

SameWork(p, q) ==
  q.docs = p.docs /\ q.state = p.state /\ q.gen = p.gen /\ q.pending = p.pending

SameSupersede(p, q) ==
  q.supersedeRequested = p.supersedeRequested /\ q.awaitingSupersede = p.awaitingSupersede

\* The contexts for which a failProject, or an expired lease, waits for a worker.
Failing == {f.worker[1] : f \in failing}
Leasing == {w[1] : w \in leasing}

\* The context stays as it is; the end of a lease forgets the supersede.
Rests(c, p, q) ==
  /\ SameWork(p, q) /\ q.active = p.active
  /\ SameSupersede(p, q) \/ (q.awaitingSupersede = 0 /\ c \in Leasing)
  /\ q.supersedeRequested = p.supersedeRequested

\* A new generation supersedes what is active.
Reschedules(c, p, q) ==
  /\ q.gen = p.gen + 1 /\ q.state = "Pending" /\ q.pending /\ q.active = p.active
  /\ q.supersedeRequested = IF p.active # 0 THEN p.active ELSE p.supersedeRequested
  /\ q.awaitingSupersede = p.awaitingSupersede
  /\ c \in {current, created + 1}

Starts(p, q) ==
  /\ p.state = "Pending" /\ q.state = "Pending" /\ q.gen = p.gen /\ q.docs = p.docs
  /\ q.active = p.gen /\ SameSupersede(p, q)

\* A failure leaves nothing active, and may be retried at once ...
Fails(p, q) ==
  /\ q.docs = p.docs /\ q.active = 0 /\ q.awaitingSupersede = 0
  /\ q.supersedeRequested = p.supersedeRequested
  /\ \/ q.state = "Failed" /\ q.gen = p.gen
     \/ q.state = "Pending" /\ q.pending /\ q.gen = p.gen + 1

\* ... or when its worker is gone.
Retries(c, p, q) ==
  /\ Running /\ c \in Failing /\ HasDocuments(p)
  /\ q.docs = p.docs /\ q.active = p.active /\ SameSupersede(p, q)
  /\ q.state = "Pending" /\ q.pending /\ q.gen = p.gen + 1

\* The worker is retired, or answered that it superseded what was active.
GivesUp(p, q) ==
  /\ SameWork(p, q) /\ q.active = 0 /\ q.awaitingSupersede = 0
  /\ \/ /\ q.supersedeRequested = p.supersedeRequested
        /\ p.awaitingSupersede # 0 \/ ~HasDocuments(p)
     \/ q.supersedeRequested = 0 /\ p.supersedeRequested # 0

\* The worker is asked to supersede.
Asks(p, q) ==
  /\ SameWork(p, q) /\ q.active = p.active
  /\ p.supersedeRequested # 0 /\ q.supersedeRequested = 0
  /\ q.awaitingSupersede = p.supersedeRequested

Commits(p, q) ==
  /\ \E w \in Workers : ReceiveCommit(w)
  /\ p.active = p.gen /\ p.gen # 0
  /\ q.docs = p.docs /\ q.gen = p.gen /\ q.pending = p.pending
  /\ q.state = "Committed" /\ q.active = 0 /\ SameSupersede(p, q)

Closes(p, q) ==
  /\ q.state = "Closed" /\ q.gen = p.gen /\ q.docs \in {p.docs, NoSources}
  /\ q.supersedeRequested = p.supersedeRequested
  /\ q.awaitingSupersede \in {p.awaitingSupersede, 0}

Move(c, p, q) ==
  \/ Rests(c, p, q) \/ Reschedules(c, p, q) \/ Starts(p, q) \/ Fails(p, q) \/ Retries(c, p, q)
  \/ GivesUp(p, q) \/ Asks(p, q) \/ Commits(p, q) \/ Closes(p, q)

LEMMA RestsItself ==
  ASSUME NEW c, NEW p
  PROVE  Move(c, p, p)
  BY DEF Move, Rests, SameWork, SameSupersede

\* A step makes one move in each context.
ContextsMove == \A c \in Contexts : Move(c, project[c], project'[c])

LEMMA OneContextMoves ==
  ASSUME TypeOK, NEW c \in Contexts, NEW q, project' = [project EXCEPT ![c] = q],
         Move(c, project[c], q)
  PROVE  ContextsMove
  BY RestsItself DEF TypeOK, ContextsMove

-----------------------------------------------------------------------------
\* The requests: what becomes of them in a step that does not ask or answer.

Refusals == Outcomes \ {"none", "ready"}

Refuses(r) ==
  /\ req[r].pc \in {"discovering", "waiting", "woken", "querying"}
  /\ \E outcome \in Refusals : req'[r] = Settled(req[r], outcome)

\* A commit wakes what waited for its generation.
Wakes(r) ==
  LET c == req[r].ctx
  IN /\ req[r].pc = "waiting" /\ req'[r] = [req[r] EXCEPT !.pc = "woken"]
     /\ project[c].active = req[r].gen /\ project'[c].state = "Committed"
     /\ project'[c].docs = project[c].docs

Progress(r) == req'[r] = req[r] \/ Refuses(r) \/ Wakes(r)

\* A context its waiters and queries need not know about has the same documents, in
\* the same state and generation, unless it is one whose failure is retried, or one
\* that commits another generation than the one that is waited for.
Undisturbed(r) ==
  LET p == project[req[r].ctx]
      q == project'[req[r].ctx]
  IN /\ q.docs = p.docs
     /\ \/ q.state = p.state /\ q.gen = p.gen
        \/ req[r].ctx \in Failing
        \/ /\ Commits(p, q)
           /\ req[r].pc = "waiting" => req[r].gen # p.gen

Bound(r) == req[r].pc \in {"waiting", "querying"}

Served ==
  \A r \in Requests : Progress(r) /\ (Bound(r) /\ req'[r] = req[r] => Undisturbed(r))

Steady(c) ==
  /\ project'[c].docs = project[c].docs
  /\ \/ project'[c].state = project[c].state /\ project'[c].gen = project[c].gen
     \/ c \in Failing

LEMMA StaysServed ==
  ASSUME TypeInv, UNCHANGED req, \A c \in Contexts : Steady(c)
  PROVE  Served
  BY DEF TypeInv, RequestsAreBound, Served, Progress, Bound, Undisturbed, Steady

LEMMA SettlesServed ==
  ASSUME TypeInv, NEW S, NEW outcome \in Refusals, Settle(S, outcome),
         \A r \in S : req[r].pc \in {"discovering", "waiting", "woken", "querying"},
         \A c \in Contexts : Steady(c) \/ Affected(c) \subseteq S
  PROVE  Served
<1> SUFFICES ASSUME NEW r \in Requests
             PROVE  Progress(r) /\ (Bound(r) /\ req'[r] = req[r] => Undisturbed(r))
  BY DEF Served
<1>1. Progress(r)
  BY DEF Settle, Progress, Refuses
<1>2. ASSUME Bound(r), req'[r] = req[r] PROVE Undisturbed(r)
  <2>1. req[r].ctx \in Contexts
    BY <1>2 DEF TypeInv, RequestsAreBound, Bound
  <2>2. r \in Affected(req[r].ctx)
    BY <1>2 DEF Bound, Affected, ProjectWaiters, ProjectQueries
  <2>3. Settled(req[r], outcome).pc = "done"
    BY DEF Settled, NewRequest
  <2>4. r \notin S
    BY <1>2, <2>3 DEF Settle, Bound
  <2> QED BY <2>1, <2>2, <2>4 DEF Steady, Undisturbed
<1> QED BY <1>1, <1>2

\* Whom the handlers settle.
LEMMA AreActive ==
  /\ \A c : \A r \in Affected(c) : req[r].pc \in {"discovering", "waiting", "woken", "querying"}
  /\ \A D : \A r \in DiscoveryWaiters(D) : req[r].pc = "discovering"
  BY DEF Affected, ProjectWaiters, ProjectQueries, DiscoveryWaiters

LEMMA RefusalOutcomes ==
  {"superseded", "closed", "unavailable", "analysisFailed", "abandoned"} \subseteq Refusals
  BY DEF Refusals, Outcomes

\* One context changes, and what is bound to it is settled.
LEMMA OneContextServed ==
  ASSUME TypeInv, NEW c \in Contexts, NEW q, project' = [project EXCEPT ![c] = q],
         NEW outcome \in Refusals, NEW D, Settle(DiscoveryWaiters(D) \cup Affected(c), outcome)
  PROVE  Served
<1>1. \A k \in Contexts : Steady(k) \/ Affected(k) \subseteq DiscoveryWaiters(D) \cup Affected(c)
  BY DEF TypeInv, TypeOK, Steady
<1> QED BY <1>1, AreActive, SettlesServed

-----------------------------------------------------------------------------
\* The moves of each step.

\* What a step does to the contexts and to the requests that are bound to them.
Moves == ContextsMove /\ Served

LEMMA ScheduleMoves ==
  ASSUME NEW p \in ProjectRecord, NEW q \in ProjectRecord, q.state # "Closed",
         q.gen = p.gen, q.active = p.active, SameSupersede(p, q), NEW c \in {current, created + 1}
  PROVE  Reschedules(c, p, Schedule(q))
<1> DEFINE next == Schedule(q)
<1>1. /\ next.gen = q.gen + 1 /\ next.state = "Pending" /\ next.pending = TRUE
      /\ next.active = q.active /\ next.awaitingSupersede = q.awaitingSupersede
      /\ next.supersedeRequested = IF q.active # 0 THEN q.active ELSE q.supersedeRequested
  BY DEF Schedule, ProjectRecord
<1> HIDE DEF next
<1>2. Reschedules(c, p, next)
  BY <1>1 DEF Reschedules, SameSupersede
<1> QED BY <1>2 DEF next

\* The context in use is scheduled.
LEMMA ScheduledMoves ==
  ASSUME TypeInv, TypeOK', NEW c \in Contexts, c \in {current, created + 1},
         NEW q \in ProjectRecord, q.state # "Closed",
         q.gen = project[c].gen, q.active = project[c].active, SameSupersede(project[c], q),
         project' = [project EXCEPT ![c] = Schedule(q)],
         NEW D, Settle(DiscoveryWaiters(D) \cup Affected(c), "superseded")
  PROVE  Moves
<1>1. project[c] \in ProjectRecord /\ TypeOK /\ "superseded" \in Refusals
  BY RefusalOutcomes DEF TypeInv, TypeOK
<1>2. Move(c, project[c], Schedule(q))
  BY <1>1, ScheduleMoves DEF Move
<1>3. ContextsMove
  BY <1>1, <1>2, OneContextMoves
<1>4. Served
  BY <1>1, OneContextServed
<1> QED BY <1>3, <1>4 DEF Moves

\* The contexts stay as they are.
LEMMA UnmovedContexts ==
  ASSUME UNCHANGED project
  PROVE  ContextsMove /\ \A c \in Contexts : Steady(c)
  BY RestsItself DEF Steady, ContextsMove

LEMMA EventMoves ==
  ASSUME TypeInv, TypeOK', CommitInv,
         \/ \E d \in Docs : Open(d) \/ ChangeAssociated(d) \/ ChangeUndiscovered(d) \/ Close(d)
         \/ \E kind \in FileEvents : Invalidate(kind)
  PROVE  Moves
<1> USE DEF TypeInv
<1>1. Running
  BY DEF Open, ChangeAssociated, ChangeUndiscovered, Close, Invalidate, SourceEvent
<1>2. ASSUME UNCHANGED project,
             UNCHANGED req \/ \E D : \E outcome \in Refusals : Settle(DiscoveryWaiters(D), outcome)
      PROVE  Moves
  BY <1>2, UnmovedContexts, StaysServed, SettlesServed, AreActive DEF Moves
<1>3. CASE \E d \in Docs : Open(d) \/ ChangeUndiscovered(d)
  BY <1>2, <1>3, RefusalOutcomes DEF Open, ChangeUndiscovered, projectVars
<1>4. ASSUME NEW d \in Docs, ChangeAssociated(d) PROVE Moves
  <2> DEFINE q == [project[current] EXCEPT !.docs[d] = events + 1]
  <2>1. /\ current # 0 /\ project' = [project EXCEPT ![current] = Schedule(q)]
        /\ Settle(DiscoveryWaiters({d}) \cup Affected(current), "superseded")
    BY <1>4 DEF ChangeAssociated, Associated
  <2>2. /\ current \in Contexts /\ project[current] \in ProjectRecord
        /\ project[current].state # "Closed"
    BY <1>1, <2>1, CurrentIsOpen
  <2>3. q \in ProjectRecord
    <3>1. events + 1 \in Nat
      BY DEF TypeOK
    <3> QED BY <2>2, <3>1, DocumentType
  <2>4. /\ q.state = project[current].state /\ q.gen = project[current].gen
        /\ q.active = project[current].active /\ SameSupersede(project[current], q)
    BY <2>2 DEF ProjectRecord, SameSupersede
  <2> HIDE DEF q
  <2> QED BY <2>1, <2>2, <2>3, <2>4, ScheduledMoves
<1>5. ASSUME NEW d \in Docs, Close(d) PROVE Moves
  <2>1. CASE ~Associated(d)
    BY <1>2, <1>5, <2>1, RefusalOutcomes DEF Close, projectVars
  <2>2. CASE Associated(d)
    <3> DEFINE left == [project[current] EXCEPT !.docs[d] = NoText]
    <3> DEFINE last == ~HasDocuments(left)
    <3> DEFINE closed == [left EXCEPT !.state = "Closed"]
    <3>1. /\ current # 0
          /\ project' = [project EXCEPT ![current] = IF last THEN closed ELSE Schedule(left)]
      BY <1>5, <2>2 DEF Close, Associated
    <3>2. \A r \in Requests :
            IF r \in Affected(current) \cup DiscoveryWaiters({d})
            THEN \E outcome \in {"superseded", "closed"} : req'[r] = Settled(req[r], outcome)
            ELSE req'[r] = req[r]
      BY <1>5, <2>2 DEF Close
    <3>3. /\ current \in Contexts /\ project[current] \in ProjectRecord
          /\ project[current].state # "Closed" /\ NoText \in Nat
      BY <1>1, <3>1, CurrentIsOpen DEF NoText
    <3>4. left \in ProjectRecord
      BY <3>3, DocumentType
    <3>5. /\ left.state = project[current].state /\ left.gen = project[current].gen
          /\ left.active = project[current].active /\ SameSupersede(project[current], left)
      BY <3>3 DEF ProjectRecord, SameSupersede
    <3> HIDE DEF left
    <3>6. last => Closes(project[current], closed)
      <4>1. /\ closed.docs = left.docs /\ closed.state = "Closed" /\ closed.gen = left.gen
            /\ SameSupersede(left, closed)
        BY <3>4 DEF ProjectRecord, SameSupersede
      <4> HIDE DEF closed
      <4> QED BY <3>5, <4>1 DEF Closes, SameSupersede, HasDocuments
    <3>7. ~last => Reschedules(current, project[current], Schedule(left))
      BY <3>3, <3>4, <3>5, ScheduleMoves
    <3> HIDE DEF last, closed
    <3>8. Move(current, project[current], IF last THEN closed ELSE Schedule(left))
      BY <3>6, <3>7 DEF Move
    <3>9. ContextsMove
      BY <3>1, <3>3, <3>8, OneContextMoves
    <3>10. Served
      <4>1. \A k \in Contexts : k # current => project'[k] = project[k]
        BY <3>1 DEF TypeOK
      <4>2. ASSUME NEW r \in Requests
            PROVE  Progress(r) /\ (Bound(r) /\ req'[r] = req[r] => Undisturbed(r))
        <5>1. Progress(r)
          BY <3>2, AreActive, RefusalOutcomes DEF Progress, Refuses
        <5>2. ASSUME Bound(r), req'[r] = req[r] PROVE Undisturbed(r)
          <6>1. /\ req[r].ctx \in Contexts /\ r \in Affected(req[r].ctx)
                /\ \A outcome : Settled(req[r], outcome).pc = "done"
            BY <5>2 DEF RequestsAreBound, Bound, Affected, ProjectWaiters, ProjectQueries, Settled,
                        NewRequest
          <6>2. req[r].ctx # current
            BY <3>2, <5>2, <6>1 DEF Bound
          <6> QED BY <4>1, <6>1, <6>2 DEF Undisturbed
        <5> QED BY <5>1, <5>2
      <4> QED BY <4>2 DEF Served
    <3> QED BY <3>9, <3>10 DEF Moves
  <2> QED BY <2>1, <2>2
<1>6. ASSUME NEW kind \in FileEvents, Invalidate(kind) PROVE Moves
  <2> DEFINE q == [project[current] EXCEPT !.dirty = @ \/ kind = "source",
                                           !.rediscover = @ \/ kind = "manifest"]
  <2>1. \/ UNCHANGED <<project, req>>
        \/ /\ current # 0 /\ project' = [project EXCEPT ![current] = Schedule(q)]
           /\ Settle(Affected(current), "superseded")
    BY <1>6 DEF Invalidate
  <2>2. CASE UNCHANGED <<project, req>>
    BY <1>2, <2>2
  <2>3. CASE /\ current # 0 /\ project' = [project EXCEPT ![current] = Schedule(q)]
             /\ Settle(Affected(current), "superseded")
    <3>1. /\ current \in Contexts /\ project[current] \in ProjectRecord
          /\ project[current].state # "Closed"
      BY <1>1, <2>3, CurrentIsOpen
    <3>2. q \in ProjectRecord
      BY <3>1 DEF ProjectRecord
    <3>3. /\ q.state = project[current].state /\ q.gen = project[current].gen
          /\ q.active = project[current].active /\ SameSupersede(project[current], q)
      BY <3>1 DEF ProjectRecord, SameSupersede
    <3> HIDE DEF q
    <3>4. DiscoveryWaiters({}) \cup Affected(current) = Affected(current)
      BY DEF DiscoveryWaiters
    <3>5. Settle(DiscoveryWaiters({}) \cup Affected(current), "superseded")
      BY <2>3, <3>4
    <3> QED BY <2>3, <3>1, <3>2, <3>3, <3>5, ScheduledMoves
  <2> QED BY <2>1, <2>2, <2>3
<1> QED BY <1>3, <1>4, <1>5, <1>6

\* failProject.
LEMMA FailMoves ==
  ASSUME TypeInv, TypeOK', NEW c \in Contexts, NEW p \in ProjectRecord, NEW supervised,
         p.gen = project[c].gen, p.docs = project[c].docs,
         p.supersedeRequested = project[c].supersedeRequested, Fail(c, p, supervised)
  PROVE  Moves
<1> USE DEF TypeInv
<1> DEFINE failed == [p EXCEPT !.state = "Failed", !.failureCount = @ + 1]
<1> DEFINE halfOpen == p.circuit = "HalfOpen"
<1> DEFINE retired == Retired(failed)
<1> DEFINE next == AfterFailure(retired, halfOpen)
<1>1. failed \in ProjectRecord
  <2> DEFINE q == [p EXCEPT !.state = "Failed"]
  <2>1. q \in ProjectRecord
    BY DEF ProjectRecord
  <2>2. failed = [q EXCEPT !.failureCount = @ + 1]
    OBVIOUS
  <2> HIDE DEF q
  <2> QED BY <2>1, <2>2 DEF ProjectRecord
<1>2. /\ failed.gen = p.gen /\ failed.docs = p.docs /\ failed.state = "Failed"
      /\ failed.supersedeRequested = p.supersedeRequested
  BY DEF ProjectRecord
<1>3. \/ project' = [project EXCEPT ![c] = next]
      \/ project' = [project EXCEPT ![c] = retired]
  BY DEF Fail
<1>4. Settle(Affected(c), "analysisFailed")
  BY DEF Fail
<1> HIDE DEF failed
<1>5. /\ retired \in ProjectRecord
      /\ retired.gen = p.gen /\ retired.docs = p.docs /\ retired.state = "Failed"
      /\ retired.supersedeRequested = p.supersedeRequested
      /\ retired.active = 0 /\ retired.awaitingSupersede = 0
  BY <1>1, <1>2, RetiredType DEF Retired, ProjectRecord
<1> HIDE DEF retired
<1>6. /\ next.docs = p.docs /\ next.active = 0 /\ next.awaitingSupersede = 0
      /\ next.supersedeRequested = p.supersedeRequested
      /\ \/ next.state = "Failed" /\ next.gen = p.gen
         \/ next.state = "Pending" /\ next.pending = TRUE /\ next.gen = p.gen + 1
  BY <1>5 DEF AfterFailure, ProjectRecord
<1> HIDE DEF next
<1>7. Fails(project[c], next) /\ Fails(project[c], retired)
  BY <1>5, <1>6 DEF Fails
<1>8. ContextsMove
  BY <1>3, <1>7, OneContextMoves DEF Move
<1>9. Served
  <2>1. DiscoveryWaiters({}) \cup Affected(c) = Affected(c)
    BY DEF DiscoveryWaiters
  <2>2. Settle(DiscoveryWaiters({}) \cup Affected(c), "analysisFailed")
    BY <1>4, <2>1
  <2> QED BY <1>3, <2>2, RefusalOutcomes, OneContextServed
<1> QED BY <1>8, <1>9 DEF Moves

\* The documents that were found join the context in use, or a new one.
LEMMA AdoptMoves ==
  ASSUME TypeInv, TypeOK', CommitInv, Running, NEW found \in Snapshot, Adopt(found)
  PROVE  Moves
<1> USE DEF TypeInv
<1> DEFINE touched == {d \in Docs : found[d] # NoText}
<1> DEFINE c == IF current # 0 THEN current ELSE created + 1
<1> DEFINE docs == [d \in Docs |-> IF d \in touched THEN found[d] ELSE project[c].docs[d]]
<1> DEFINE adopted == [project[c] EXCEPT !.docs = docs, !.rediscover = FALSE]
<1>1. CASE touched = {}
  <2>1. UNCHANGED <<project, req>>
    BY <1>1 DEF Adopt
  <2> QED BY <2>1, UnmovedContexts, StaysServed DEF Moves
<1>2. CASE touched # {}
  <2>1. /\ project' = [project EXCEPT ![c] = Schedule(adopted)]
        /\ current' = c
        /\ Settle(DiscoveryWaiters(touched) \cup Affected(c), "superseded")
    BY <1>2 DEF Adopt
  <2>2. created \in Nat /\ current \in Nat
    BY EngineAssumption DEF TypeOK, Contexts
  <2>3. c \in Contexts /\ project[c] \in ProjectRecord
    <3>1. c # 0
      BY <2>2
    <3> QED BY <2>1, <3>1 DEF TypeOK
  <2>4. project[c].state # "Closed"
    <3>1. CASE current # 0
      BY <3>1, CurrentIsOpen
    <3>2. CASE current = 0
      BY <2>2, <2>3, <3>2 DEF CommitInv, CurrentInv
    <3> QED BY <3>1, <3>2
  <2>5. docs \in Snapshot
    BY <2>3 DEF Snapshot, ProjectRecord
  <2>6. c \in {current, created + 1}
    OBVIOUS
  <2> HIDE DEF docs, c, touched
  <2>7. /\ adopted \in ProjectRecord /\ adopted.state = project[c].state
        /\ adopted.gen = project[c].gen /\ adopted.active = project[c].active
        /\ SameSupersede(project[c], adopted)
    <3> DEFINE q == [project[c] EXCEPT !.docs = docs]
    <3>1. q \in ProjectRecord
      BY <2>3, <2>5 DEF ProjectRecord
    <3>2. /\ q.state = project[c].state /\ q.gen = project[c].gen
          /\ q.active = project[c].active /\ SameSupersede(project[c], q)
      BY <2>3 DEF ProjectRecord, SameSupersede
    <3>3. adopted = [q EXCEPT !.rediscover = FALSE]
      OBVIOUS
    <3> HIDE DEF q
    <3> QED BY <3>1, <3>2, <3>3 DEF ProjectRecord, SameSupersede
  <2> HIDE DEF adopted
  <2> QED BY <2>1, <2>3, <2>4, <2>6, <2>7, ScheduledMoves
<1> QED BY <1>1, <1>2

LEMMA DiscoveredMoves ==
  ASSUME TypeInv, TypeOK', CommitInv, Discovered
  PROVE  Moves
<1> USE DEF TypeInv
<1>1. Running
  BY DEF Discovered, SupervisorStep
<1>2. FoundText \in Snapshot
  <2>1. batch.found \in Snapshot /\ batch.text \in Nat
    BY DEF TypeOK, BatchRecord
  <2> QED BY <2>1 DEF FoundText, Snapshot
<1>3. UNCHANGED <<project, req>> \/ Adopt(FoundText)
  BY DEF Discovered, FoundText
<1> QED BY <1>1, <1>2, <1>3, AdoptMoves, UnmovedContexts, StaysServed DEF Moves

\* The contexts whose worker is to be retired are left.
RetirementsLeft ==
  \A c \in retirements : c <= created /\ c # current /\ ~HasDocuments(project[c])

LEMMA SupersedeMoves ==
  ASSUME TypeOK, NEW P \in [Contexts -> ProjectRecord], NEW signaled,
         SupersedeThenDiscover(P, signaled)
  PROVE  \A c \in Contexts :
           /\ Move(c, P[c], project'[c])
           /\ SameWork(P[c], project'[c])
           /\ c # current => project'[c] = P[c]
<1> DEFINE p == P[current]
<1> DEFINE wanted == current # 0 /\ p.supersedeRequested # 0 /\ p.slot # 0
<1> DEFINE marked == [p EXCEPT !.supersedeRequested = 0, !.awaitingSupersede = p.supersedeRequested]
<1>1. wanted => current \in Contexts /\ p \in ProjectRecord
  BY DEF TypeOK
<1>2. \/ ~wanted /\ project' = P
      \/ /\ wanted
         /\ \/ project' = [P EXCEPT ![current] = Retired(marked)]
            \/ project' = [P EXCEPT ![current] = marked]
  BY DEF SupersedeThenDiscover
<1>3. wanted => marked \in ProjectRecord /\ SameWork(p, marked) /\ Asks(p, marked)
  <2> SUFFICES ASSUME wanted
               PROVE  marked \in ProjectRecord /\ SameWork(p, marked) /\ Asks(p, marked)
    OBVIOUS
  <2>1. marked \in ProjectRecord
    BY <1>1 DEF ProjectRecord
  <2>2. /\ SameWork(p, marked) /\ marked.active = p.active
        /\ marked.supersedeRequested = 0 /\ marked.awaitingSupersede = p.supersedeRequested
    BY <1>1 DEF ProjectRecord, SameWork
  <2> HIDE DEF marked
  <2> QED BY <2>1, <2>2 DEF Asks
<1>4. wanted => SameWork(p, Retired(marked)) /\ GivesUp(p, Retired(marked))
  <2> SUFFICES ASSUME wanted
               PROVE  SameWork(p, Retired(marked)) /\ GivesUp(p, Retired(marked))
    OBVIOUS
  <2> HIDE DEF marked
  <2>1. /\ SameWork(marked, Retired(marked)) /\ Retired(marked).active = 0
        /\ Retired(marked).awaitingSupersede = 0
        /\ Retired(marked).supersedeRequested = marked.supersedeRequested
    BY <1>3 DEF Retired, SameWork, ProjectRecord
  <2> QED BY <1>3, <2>1 DEF SameWork, GivesUp, Asks
<1> HIDE DEF marked
<1>5. SameWork(p, p) /\ \A c \in Contexts : SameWork(P[c], P[c]) /\ Move(c, P[c], P[c])
  BY RestsItself DEF SameWork
<1>6. CASE wanted
  <2>1. \A c \in Contexts : c # current => project'[c] = P[c]
    BY <1>2, <1>6
  <2>2. project'[current] = Retired(marked) \/ project'[current] = marked
    BY <1>1, <1>2, <1>6
  <2>3. Move(current, p, project'[current]) /\ SameWork(p, project'[current])
    BY <1>3, <1>4, <1>6, <2>2 DEF Move
  <2> QED BY <1>5, <2>1, <2>3
<1>7. CASE ~wanted
  BY <1>2, <1>5, <1>7
<1> QED BY <1>6, <1>7

LEMMA RetirementMoves ==
  ASSUME TypeInv, TypeOK', RetirementsLeft, TakeSignal \/ FinishRetirements
  PROVE  Moves
<1> USE DEF TypeInv
<1>1. RetiredContexts \in [Contexts -> ProjectRecord] /\ UNCHANGED req
  BY RetirementsType DEF TakeSignal, FinishRetirements
<1>2. ASSUME NEW c \in Contexts
      PROVE  /\ Move(c, project[c], RetiredContexts[c])
             /\ SameWork(project[c], RetiredContexts[c])
             /\ c = current => RetiredContexts[c] = project[c]
  <2>1. CASE c \in retirements
    <3>1. /\ project[c] \in ProjectRecord /\ RetiredContexts[c] = Retired(project[c])
      BY <2>1 DEF TypeOK, RetiredContexts
    <3>2. /\ SameWork(project[c], Retired(project[c])) /\ Retired(project[c]).active = 0
          /\ Retired(project[c]).awaitingSupersede = 0
          /\ Retired(project[c]).supersedeRequested = project[c].supersedeRequested
      BY <3>1 DEF Retired, SameWork, ProjectRecord
    <3> QED BY <2>1, <3>1, <3>2 DEF RetirementsLeft, Move, GivesUp
  <2>2. CASE c \notin retirements
    BY <2>2, RestsItself DEF RetiredContexts, SameWork
  <2> QED BY <2>1, <2>2
<1>3. ASSUME NEW P \in [Contexts -> ProjectRecord], NEW signaled,
             SupersedeThenDiscover(P, signaled),
             \A c \in Contexts : Move(c, project[c], P[c]) /\ SameWork(project[c], P[c]),
             \A c \in Contexts : c = current => P[c] = project[c]
      PROVE  Moves
  <2>1. \A c \in Contexts :
          /\ Move(c, P[c], project'[c]) /\ SameWork(P[c], project'[c])
          /\ c # current => project'[c] = P[c]
    BY <1>3, SupersedeMoves
  <2>3. ContextsMove
    BY <1>3, <2>1 DEF ContextsMove
  <2>4. \A c \in Contexts : Steady(c)
    BY <1>3, <2>1 DEF Steady, SameWork
  <2> QED BY <1>1, <2>3, <2>4, StaysServed DEF Moves
<1>4. CASE TakeSignal
  <2>1. SupersedeThenDiscover(RetiredContexts, FALSE) \/ project' = RetiredContexts
    BY <1>4 DEF TakeSignal, RetiredContexts
  <2>2. CASE project' = RetiredContexts
    <3>1. \A c \in Contexts : Move(c, project[c], project'[c]) /\ Steady(c)
      BY <1>2, <2>2 DEF Steady, SameWork
    <3> QED BY <1>1, <3>1, StaysServed DEF Moves, ContextsMove
  <2> QED BY <1>1, <1>2, <1>3, <2>1, <2>2
<1>5. CASE FinishRetirements
  <2>1. SupersedeThenDiscover(project, signal) /\ project \in [Contexts -> ProjectRecord]
    BY <1>5 DEF FinishRetirements, TypeOK
  <2>2. \A c \in Contexts : Move(c, project[c], project[c]) /\ SameWork(project[c], project[c])
    BY RestsItself DEF SameWork
  <2> QED BY <1>3, <2>1, <2>2
<1> QED BY <1>4, <1>5

\* One context changes, and keeps its state and generation.
LEMMA SteadyMoves ==
  ASSUME TypeInv, TypeOK', UNCHANGED req, NEW c \in Contexts, NEW q,
         project' = [project EXCEPT ![c] = q], Move(c, project[c], q),
         q.docs = project[c].docs,
         (q.state = project[c].state /\ q.gen = project[c].gen) \/ c \in Failing
  PROVE  Moves
<1>1. ContextsMove
  BY OneContextMoves DEF TypeInv
<1>2. \A k \in Contexts : Steady(k)
  BY DEF TypeInv, TypeOK, Steady
<1> QED BY <1>1, <1>2, StaysServed DEF Moves

LEMMA StartMoves ==
  ASSUME TypeInv, TypeOK', NEW w \in Workers, project[w[1]].state = "Pending",
         StartAnalysisOn(w[1], w)
  PROVE  Moves
<1> USE DEF TypeInv
<1> DEFINE c == w[1]
<1> DEFINE p == project[c]
<1> DEFINE started == [p EXCEPT !.pending = FALSE, !.active = p.gen,
                                !.dirty = FALSE, !.rediscover = FALSE]
<1>1. c \in Contexts /\ p \in ProjectRecord
  BY DEF TypeOK, Workers
<1>2. /\ started.gen = p.gen /\ started.docs = p.docs /\ started.state = p.state
      /\ started.active = p.gen /\ SameSupersede(p, started)
  BY <1>1 DEF ProjectRecord, SameSupersede
<1>3. started \in ProjectRecord
  <2> DEFINE idle == [p EXCEPT !.pending = FALSE, !.dirty = FALSE, !.rediscover = FALSE]
  <2>1. idle \in ProjectRecord
    BY <1>1 DEF ProjectRecord
  <2>2. started = [idle EXCEPT !.active = p.gen]
    BY <1>1 DEF ProjectRecord
  <2> HIDE DEF idle
  <2> QED BY <1>1, <2>1, <2>2 DEF ProjectRecord
<1>4. \/ project' = [project EXCEPT ![c] = started] /\ UNCHANGED req
      \/ Fail(c, started, TRUE)
  BY DEF StartAnalysisOn
<1> HIDE DEF started, c
<1>5. Move(c, p, started)
  BY <1>2 DEF c, Move, Starts
<1>6. Fail(c, started, TRUE) => Moves
  BY <1>1, <1>2, <1>3, FailMoves DEF SameSupersede
<1>7. CASE project' = [project EXCEPT ![c] = started] /\ UNCHANGED req
  BY <1>1, <1>2, <1>5, <1>7, SteadyMoves
<1> QED BY <1>4, <1>6, <1>7

LEMMA SupervisorMoves ==
  ASSUME TypeInv, TypeOK',
         \/ DebounceIdle \/ DebounceStart \/ DebounceSpawn \/ WorkerIsReady \/ WorkerNeverReady
         \/ ReadinessExpires \/ SpawnFails
  PROVE  Moves
<1> USE DEF TypeInv
<1>1. ASSUME UNCHANGED <<project, req>> PROVE Moves
  BY <1>1, UnmovedContexts, StaysServed DEF Moves
<1>2. ASSUME NEW w \in Workers, Fail(w[1], project[w[1]], TRUE) PROVE Moves
  BY <1>2, FailMoves DEF Workers, TypeOK
<1>3. sup.on \subseteq Workers
  BY DEF TypeOK, SupervisorRecord
<1>4. CASE DebounceIdle
  BY <1>1, <1>4 DEF DebounceIdle, projectVars
<1>5. CASE DebounceStart
  <2>1. /\ current \in Contexts /\ project[current].slot # 0
        /\ project[current].state = "Pending"
        /\ StartAnalysisOn(current, SlotOf(current))
    BY <1>5 DEF DebounceStart, Startable, TypeOK
  <2>2. SlotOf(current) \in Workers /\ SlotOf(current)[1] = current
    BY <2>1, SlotType DEF SlotOf, TypeOK
  <2> QED BY <2>1, <2>2, StartMoves
<1>6. CASE DebounceSpawn
  <2> DEFINE e == project[current].epoch + 1
  <2> DEFINE q == [project[current] EXCEPT !.epoch = e, !.slot = e]
  <2>1. current \in Contexts /\ project' = [project EXCEPT ![current] = q] /\ UNCHANGED req
    BY <1>6 DEF DebounceSpawn, Startable, TypeOK
  <2>2. /\ SameWork(project[current], q) /\ SameSupersede(project[current], q)
        /\ q.active = project[current].active
    BY <2>1 DEF TypeOK, ProjectRecord, SameWork, SameSupersede
  <2> HIDE DEF q
  <2>3. Move(current, project[current], q)
    BY <2>2 DEF Move, Rests, SameSupersede
  <2> QED BY <2>1, <2>2, <2>3, SteadyMoves DEF SameWork
<1>7. CASE WorkerIsReady
  <2>1. \E w \in sup.on :
          \/ UNCHANGED <<project, req>>
          \/ project[w[1]].state = "Pending" /\ StartAnalysisOn(w[1], w)
    BY <1>7 DEF WorkerIsReady
  <2> QED BY <1>1, <1>3, <2>1, StartMoves
<1>8. CASE WorkerNeverReady \/ ReadinessExpires
  BY <1>2, <1>3, <1>8 DEF WorkerNeverReady, ReadinessExpires
<1>9. CASE SpawnFails
  <2> DEFINE p == [project[current] EXCEPT !.epoch = @ + 1]
  <2>1. current \in Contexts /\ Fail(current, p, TRUE)
    BY <1>9 DEF SpawnFails, Startable, TypeOK
  <2>2. /\ p \in ProjectRecord /\ p.gen = project[current].gen /\ p.docs = project[current].docs
        /\ p.supersedeRequested = project[current].supersedeRequested
    <3>1. project[current] \in ProjectRecord
      BY <2>1 DEF TypeOK
    <3> QED BY <3>1 DEF ProjectRecord
  <2> HIDE DEF p
  <2> QED BY <2>1, <2>2, FailMoves
<1> QED BY <1>4, <1>5, <1>6, <1>7, <1>8, <1>9

\* The listener of a worker, when it does not answer a request.
LEMMA ListenerMoves ==
  ASSUME TypeInv, TypeOK', CommitInv, NEW w \in Workers, ListenerNext(w), ~ReceiveResult(w)
  PROVE  Moves
<1> USE DEF TypeInv
<1> DEFINE c == w[1]
<1> DEFINE p == project[c]
<1> DEFINE g == Head(outbox[w]).gen
<1>1. c \in Contexts /\ p \in ProjectRecord
  BY DEF TypeOK, Workers
<1>2. ASSUME UNCHANGED <<project, req>> PROVE Moves
  BY <1>2, UnmovedContexts, StaysServed DEF Moves
<1>3. ASSUME Fail(c, p, FALSE) PROVE Moves
  BY <1>1, <1>3, FailMoves
<1>4. CASE ReceiveStale(w) \/ ReceiveReady(w)
  BY <1>2, <1>4 DEF ReceiveStale, ReceiveReady
<1>5. CASE ReceiveFailure(w) \/ ReceiveDied(w)
  BY <1>2, <1>3, <1>5 DEF ReceiveFailure, ReceiveDied
<1>6. CASE ReceiveSuperseded(w)
  <2> DEFINE q == [p EXCEPT !.awaitingSupersede = 0, !.active = 0]
  <2>1. CASE p.awaitingSupersede # 0 /\ p.awaitingSupersede = g
    <3>1. project' = [project EXCEPT ![c] = q] /\ UNCHANGED req
      BY <1>6, <2>1 DEF ReceiveSuperseded
    <3>2. /\ SameWork(p, q) /\ q.active = 0 /\ q.awaitingSupersede = 0
          /\ q.supersedeRequested = p.supersedeRequested
      BY <1>1 DEF SameWork, ProjectRecord
    <3> HIDE DEF q
    <3>3. Move(c, p, q)
      BY <2>1, <3>2 DEF Move, GivesUp
    <3> QED BY <1>1, <3>1, <3>2, <3>3, SteadyMoves DEF SameWork
  <2>2. CASE ~(p.awaitingSupersede # 0 /\ p.awaitingSupersede = g)
    BY <1>2, <1>6, <2>2 DEF ReceiveSuperseded
  <2> QED BY <2>1, <2>2
<1>7. CASE ReceiveCommit(w)
  <2> DEFINE q == [p EXCEPT !.active = 0, !.state = "Committed", !.failureCount = 0,
                            !.circuit = "Closed"]
  <2>1. CASE Committing(p, g)
    <3>1. /\ project' = [project EXCEPT ![c] = q]
          /\ req' = [r \in Requests |->
               IF r \in ProjectWaiters(c) /\ req[r].gen = g
               THEN [req[r] EXCEPT !.pc = "woken"] ELSE req[r]]
      BY <1>7, <2>1 DEF ReceiveCommit
    <3>2. p.active = p.gen /\ p.gen = g
      BY <2>1 DEF Committing
    <3>3. g # 0
      <4>1. outbox[w] # <<>> /\ Head(outbox[w]).tag = "Commit"
        BY <1>7 DEF ReceiveCommit, Receive
      <4>2. outbox[w] \in Seq(WorkerMessage \cup {Died})
        BY DEF TypeOK
      <4>3. 1 \in 1..Len(outbox[w]) /\ Head(outbox[w]) = outbox[w][1]
        BY <4>1, <4>2
      <4>4. Known(proc[w] # "exited", runtime[w], outbox[w])
        BY DEF CommitInv, CommitsKnown
      <4> QED BY <4>1, <4>3, <4>4 DEF Known
    <3>4. /\ q.docs = p.docs /\ q.gen = p.gen /\ q.pending = p.pending
          /\ q.state = "Committed" /\ q.active = 0 /\ SameSupersede(p, q)
      BY <1>1 DEF ProjectRecord, SameSupersede
    <3> HIDE DEF g, q
    <3>5. Commits(p, q)
      BY <1>7, <3>2, <3>3, <3>4 DEF Commits
    <3>6. ContextsMove
      BY <1>1, <3>1, <3>5, OneContextMoves DEF Move
    <3>7. ASSUME NEW r \in Requests
          PROVE  Progress(r) /\ (Bound(r) /\ req'[r] = req[r] => Undisturbed(r))
      <4>1. project'[c] = q /\ \A k \in Contexts : k # c => project'[k] = project[k]
        BY <1>1, <3>1 DEF TypeOK
      <4>2. CASE r \in ProjectWaiters(c) /\ req[r].gen = g
        <5>1. req[r] \in RequestRecord /\ req'[r] = [req[r] EXCEPT !.pc = "woken"]
          BY <3>1, <4>2 DEF TypeOK
        <5>2. req'[r].pc = "woken" /\ req[r].pc = "waiting" /\ req[r].ctx = c
          BY <4>2, <5>1 DEF RequestRecord, ProjectWaiters
        <5>3. project'[c].state = "Committed" /\ project'[c].docs = project[c].docs
          BY <3>4, <4>1
        <5>4. Wakes(r)
          BY <3>2, <4>2, <5>1, <5>2, <5>3 DEF Wakes
        <5> QED BY <5>2, <5>4 DEF Progress, Bound
      <4>3. CASE ~(r \in ProjectWaiters(c) /\ req[r].gen = g)
        <5>1. req'[r] = req[r]
          BY <3>1, <4>3
        <5>2. Bound(r) => Undisturbed(r)
          BY <3>2, <3>4, <3>5, <4>1, <4>3 DEF RequestsAreBound, Bound, Undisturbed, ProjectWaiters
        <5> QED BY <5>1, <5>2 DEF Progress
      <4> QED BY <4>2, <4>3
    <3> QED BY <3>6, <3>7 DEF Moves, Served
  <2>2. CASE ~Committing(p, g)
    BY <1>2, <1>7, <2>2 DEF ReceiveCommit
  <2> QED BY <2>1, <2>2
<1> QED BY <1>4, <1>5, <1>6, <1>7 DEF ListenerNext

LEMMA WatchdogMoves ==
  ASSUME TypeInv, TypeOK',
         \/ \E c \in Contexts : NoProgress(c) \/ Stall(c) \/ LeaseExpires(c)
         \/ \E w \in Workers : FinishLease(w)
         \/ \E f \in failing : FinishFailure(f)
  PROVE  Moves
<1> USE DEF TypeInv
<1>1. ASSUME NEW c \in Contexts, NoProgress(c) \/ Stall(c) PROVE Moves
  <2>1. project[c] \in ProjectRecord /\ Fail(c, project[c], FALSE)
    BY <1>1 DEF TypeOK, NoProgress, Stall
  <2> QED BY <2>1, FailMoves
<1>2. ASSUME NEW c \in Contexts, LeaseExpires(c) PROVE Moves
  <2> DEFINE p == project[c]
  <2>1. /\ project' = [project EXCEPT ![c] = Retired(p)] /\ UNCHANGED req
        /\ p.awaitingSupersede # 0 /\ p \in ProjectRecord
    BY <1>2 DEF LeaseExpires, TypeOK
  <2>2. /\ SameWork(p, Retired(p)) /\ Retired(p).active = 0 /\ Retired(p).awaitingSupersede = 0
        /\ Retired(p).supersedeRequested = p.supersedeRequested
    BY <2>1 DEF Retired, SameWork, ProjectRecord
  <2>3. Move(c, p, Retired(p))
    BY <2>1, <2>2 DEF Move, GivesUp
  <2> QED BY <2>1, <2>2, <2>3, SteadyMoves DEF SameWork
<1>3. ASSUME NEW w \in Workers, FinishLease(w) PROVE Moves
  <2> DEFINE p == project[w[1]]
  <2> DEFINE q == [p EXCEPT !.awaitingSupersede = 0]
  <2>1. /\ project' = [project EXCEPT ![w[1]] = q] /\ UNCHANGED req
        /\ w[1] \in Contexts /\ p \in ProjectRecord /\ w[1] \in Leasing
    BY <1>3 DEF FinishLease, TypeOK, Workers, Leasing
  <2>2. /\ SameWork(p, q) /\ q.active = p.active /\ q.awaitingSupersede = 0
        /\ q.supersedeRequested = p.supersedeRequested
    BY <2>1 DEF SameWork, ProjectRecord
  <2> HIDE DEF q
  <2>3. Move(w[1], p, q)
    BY <2>1, <2>2 DEF Move, Rests
  <2> QED BY <2>1, <2>2, <2>3, SteadyMoves DEF SameWork
<1>4. ASSUME NEW f \in failing, FinishFailure(f) PROVE Moves
  <2> DEFINE c == f.worker[1]
  <2> DEFINE p == project[c]
  <2> DEFINE q == AfterFailure(p, f.halfOpen)
  <2>1. /\ project' = [project EXCEPT ![c] = q] /\ UNCHANGED req
        /\ c \in Contexts /\ p \in ProjectRecord /\ c \in Failing
    BY <1>4 DEF FinishFailure, TypeOK, FailureRecord, Workers, Failing
  <2>2. /\ Running
        /\ q.docs = p.docs /\ q.active = p.active /\ SameSupersede(p, q)
        /\ \/ SameWork(p, q)
           \/ /\ HasDocuments(p)
              /\ q.state = "Pending" /\ q.pending = TRUE /\ q.gen = p.gen + 1
    BY <1>4, <2>1 DEF AfterFailure, ProjectRecord, SameWork, SameSupersede, FinishFailure,
                      SupervisorStep
  <2> HIDE DEF q
  <2>3. Move(c, p, q)
    BY <2>1, <2>2 DEF Move, Rests, Retries, SameSupersede
  <2> QED BY <2>1, <2>2, <2>3, SteadyMoves
<1> QED BY <1>1, <1>2, <1>3, <1>4

LEMMA ShutdownMoves ==
  ASSUME TypeInv, TypeOK', ShutdownBegins
  PROVE  Moves
<1> USE DEF TypeInv
<1> DEFINE p == project[current]
<1> DEFINE q == [Retired(p) EXCEPT !.state = "Closed"]
<1>1. ContextsMove
  <2>1. CASE current = 0
    BY <2>1, UnmovedContexts DEF ShutdownBegins
  <2>2. CASE current # 0
    <3>1. /\ project' = [project EXCEPT ![current] = q]
          /\ current \in Contexts /\ p \in ProjectRecord
      BY <2>2 DEF ShutdownBegins, TypeOK
    <3>2. /\ q.state = "Closed" /\ q.gen = p.gen /\ q.docs = p.docs
          /\ q.supersedeRequested = p.supersedeRequested /\ q.awaitingSupersede = 0
      BY <3>1 DEF Retired, ProjectRecord
    <3> HIDE DEF q
    <3>3. Move(current, p, q)
      BY <3>2 DEF Move, Closes
    <3> QED BY <3>1, <3>3, OneContextMoves
  <2> QED BY <2>1, <2>2
<1>2. Served
  <2> DEFINE S == {r \in Requests : req[r].pc \in {"discovering", "waiting", "woken", "querying"}}
  <2>1. Settle(S, "closed")
    BY DEF ShutdownBegins
  <2>2. \A c \in Contexts : Affected(c) \subseteq S
    BY DEF Affected, ProjectWaiters, ProjectQueries
  <2>3. \A r \in S : req[r].pc \in {"discovering", "waiting", "woken", "querying"}
    OBVIOUS
  <2> HIDE DEF S
  <2> QED BY <2>1, <2>2, <2>3, RefusalOutcomes, SettlesServed
<1> QED BY <1>1, <1>2 DEF Moves

LEMMA AbandonMoves ==
  ASSUME TypeInv, TypeOK', NEW r \in Requests, Abandon(r)
  PROVE  Moves
<1>1. UNCHANGED project /\ Settle({r}, "abandoned")
  BY DEF Abandon, ClientStep, projectVars, Settle, TypeInv, TypeOK
<1>2. \A s \in {r} : req[s].pc \in {"discovering", "waiting", "woken", "querying"}
  BY DEF Abandon
<1> QED BY <1>1, <1>2, UnmovedContexts, SettlesServed, RefusalOutcomes DEF Moves, TypeInv

\* A request is asked, goes on to ask the worker, or is answered.
Exchange ==
  \/ \E r \in Requests : Resume(r) \/ \E d \in Docs : Ask(r, d)
  \/ \E w \in Workers : ReceiveResult(w)

LEMMA ExchangeRests ==
  ASSUME Exchange
  PROVE  /\ UNCHANGED <<ledger, events, disk, project, current, created, retirements, sup, batch,
                        failing, leasing, runtime, engine>>
         /\ Running
  BY DEF Exchange, Resume, Ask, ReceiveResult, Receive, ClientStep, NoFailure, projectVars,
         sourceVars, fiberVars, threadVars

LEMMA StepMoves ==
  ASSUME TypeInv, TypeOK', CommitInv, RetirementsLeft, [Next]_vars
  PROVE  Moves \/ (Exchange /\ ContextsMove)
<1> USE DEF TypeInv
<1>1. ASSUME UNCHANGED <<project, req>> PROVE Moves
  BY <1>1, UnmovedContexts, StaysServed DEF Moves
<1>2. CASE Exchange
  BY <1>2, ExchangeRests, UnmovedContexts
<1>3. CASE Client
  BY <1>2, <1>3, EventMoves, AbandonMoves, ShutdownMoves DEF Client, Exchange
<1>4. CASE SupervisorNext
  BY <1>4, RetirementMoves, DiscoveredMoves, SupervisorMoves DEF SupervisorNext
<1>5. CASE \E w \in Workers : ListenerNext(w)
  BY <1>2, <1>5, ListenerMoves DEF Exchange
<1>6. CASE \/ UNCHANGED vars \/ ShutdownEnds
           \/ \E w \in Workers :
                \/ ThreadNext(w) \/ WorkerDefects(w) \/ WorkerForgetsQuery(w)
                \/ WorkerDies(w) \/ WorkerHangs(w)
  <2>1. \A w \in Workers :
          ThreadNext(w) \/ WorkerDefects(w) \/ WorkerForgetsQuery(w) \/ WorkerDies(w)
            \/ WorkerHangs(w) => ThreadStep
    BY DEF ThreadNext, WorkerAccepts, WorkerCommits, WorkerAnswers, Terminate, WorkerDefects,
           WorkerForgetsQuery, WorkerDies, WorkerHangs, WorkerRuns
  <2>2. UNCHANGED <<project, req>>
    BY <1>6, <2>1 DEF ThreadStep, ShutdownEnds, projectVars, vars
  <2> QED BY <1>1, <2>2
<1>7. CASE \/ \E w \in Workers : FinishLease(w)
           \/ \E c \in Contexts : NoProgress(c) \/ LeaseExpires(c) \/ Stall(c)
           \/ \E f \in failing : FinishFailure(f)
           \/ SpawnFails
  BY <1>7, WatchdogMoves, SupervisorMoves
<1>8. CASE \E r \in Requests : Resume(r)
  BY <1>2, <1>8 DEF Exchange
<1> QED BY <1>3, <1>4, <1>5, <1>6, <1>7, <1>8 DEF Next, Faulty

\* What a step does to the contexts in use and to those that were left.
Placed ==
  /\ created' >= created
  /\ current' \in {current, 0} \/ (Running /\ current' > created)
  /\ \A c \in retirements' :
       c \in retirements \/ (c = current /\ current' = 0 /\ ~HasDocuments(project'[c]))

LEMMA StepPlaced ==
  ASSUME TypeInv, CommitInv, [Next]_vars
  PROVE  Placed
<1> USE DEF TypeInv
<1>1. created \in Nat /\ current \in Nat
  BY EngineAssumption DEF TypeOK, Contexts
<1>2. ASSUME UNCHANGED <<current, created>>, retirements' \subseteq retirements PROVE Placed
  BY <1>1, <1>2 DEF Placed
<1>3. ASSUME NEW d \in Docs, Close(d) PROVE Placed
  <2>1. CASE ~Associated(d)
    BY <1>2, <1>3, <2>1 DEF Close, projectVars
  <2>2. CASE Associated(d)
    <3> DEFINE left == [project[current] EXCEPT !.docs[d] = NoText]
    <3> DEFINE last == ~HasDocuments(left)
    <3> DEFINE closed == [left EXCEPT !.state = "Closed"]
    <3>1. /\ project' = [project EXCEPT ![current] = IF last THEN closed ELSE Schedule(left)]
          /\ current' = IF last THEN 0 ELSE current
          /\ retirements' = IF last THEN retirements \cup {current} ELSE retirements
          /\ UNCHANGED created
      BY <1>3, <2>2 DEF Close, Leaving
    <3>2. project[current] \in ProjectRecord /\ current \in Contexts
      BY <2>2 DEF Associated, TypeOK
    <3>3. left \in ProjectRecord
      BY <3>2, DocumentType DEF NoText
    <3>4. closed.docs = left.docs
      BY <3>3 DEF ProjectRecord
    <3>5. last => ~HasDocuments(project'[current])
      BY <3>1, <3>2, <3>4 DEF TypeOK, HasDocuments
    <3> HIDE DEF last, closed, left
    <3> QED BY <1>1, <3>1, <3>5 DEF Placed
  <2> QED BY <2>1, <2>2
<1>4. CASE Discovered
  <2>1. UNCHANGED retirements /\ (UNCHANGED <<current, created>> \/ Adopt(FoundText))
    BY <1>4 DEF Discovered, FoundText
  <2>2. \/ UNCHANGED <<current, created>>
        \/ /\ current' = IF current # 0 THEN current ELSE created + 1
           /\ created' = IF current # 0 THEN created ELSE created + 1
    BY <2>1 DEF Adopt
  <2>3. Running
    BY <1>4 DEF Discovered, SupervisorStep
  <2> QED BY <1>1, <2>1, <2>2, <2>3 DEF Placed
<1>5. CASE Client
  BY <1>2, <1>3, <1>5 DEF Client, Open, ChangeAssociated, ChangeUndiscovered, Invalidate, Ask,
                          Abandon, ShutdownBegins, ClientStep, projectVars
<1>6. CASE SupervisorNext
  BY <1>2, <1>4, <1>6 DEF SupervisorNext, TakeSignal, FinishRetirements, DebounceIdle,
     DebounceStart, DebounceSpawn, WorkerIsReady, WorkerNeverReady, ReadinessExpires, projectVars
<1>7. CASE \E w \in Workers : ListenerNext(w)
  <2>1. \E w \in Workers : \E tag : Receive(w, tag)
    BY <1>7 DEF ListenerNext, ReceiveStale, ReceiveReady, ReceiveSuperseded, ReceiveCommit,
                ReceiveFailure, ReceiveResult, ReceiveDied
  <2> QED BY <1>2, <2>1 DEF Receive
<1>8. CASE \E w \in Workers :
             ThreadNext(w) \/ WorkerDefects(w) \/ WorkerForgetsQuery(w) \/ WorkerDies(w)
               \/ WorkerHangs(w)
  BY <1>2, <1>8 DEF ThreadNext, WorkerAccepts, WorkerCommits, WorkerAnswers, Terminate,
     WorkerDefects, WorkerForgetsQuery, WorkerDies, WorkerHangs, WorkerRuns, ThreadStep,
     projectVars
<1>9. CASE \/ \E w \in Workers : FinishLease(w)
           \/ \E c \in Contexts : NoProgress(c) \/ LeaseExpires(c) \/ Stall(c)
           \/ \E f \in failing : FinishFailure(f)
           \/ SpawnFails \/ \E r \in Requests : Resume(r)
  BY <1>2, <1>9 DEF FinishLease, NoProgress, LeaseExpires, Stall, FinishFailure, SpawnFails,
                    Resume, WatchdogStep, ClientStep, projectVars
<1>10. CASE ShutdownEnds \/ UNCHANGED vars
  <2>1. /\ current' \in {current, 0} /\ created' = created /\ retirements' = retirements
    BY <1>10 DEF ShutdownEnds, vars, projectVars
  <2> QED BY <1>1, <2>1 DEF Placed
<1> QED BY <1>5, <1>6, <1>7, <1>8, <1>9, <1>10 DEF Next, Faulty

\* A move that does not schedule a context adds no document to it.
LEMMA DocumentsMove ==
  ASSUME NEW c, NEW p, NEW q, Move(c, p, q), HasDocuments(q), ~HasDocuments(p)
  PROVE  c \in {current, created + 1}
  BY DEF Move, Rests, Reschedules, Starts, Fails, Retries, GivesUp, Asks, Commits, Closes,
         SameWork, HasDocuments

LEMMA RetirementsStep ==
  ASSUME TypeInv, CommitInv, RetirementsLeft, ContextsMove, Placed, TypeOK'
  PROVE  RetirementsLeft'
<1> SUFFICES ASSUME NEW c \in retirements'
             PROVE  c <= created' /\ c # current' /\ ~HasDocuments(project'[c])
  BY DEF RetirementsLeft, HasDocuments
<1>1. /\ created \in Nat /\ created' \in Nat /\ current \in Nat /\ current' \in Nat
      /\ c \in Contexts /\ c \in Nat \ {0}
  BY EngineAssumption DEF TypeInv, TypeOK, Contexts
<1>2. CASE c \in retirements
  <2>1. c <= created /\ c # current /\ ~HasDocuments(project[c])
    BY <1>2 DEF RetirementsLeft
  <2>2. Move(c, project[c], project'[c])
    BY <1>1 DEF ContextsMove
  <2>3. ~HasDocuments(project'[c])
    BY <1>1, <2>1, <2>2, DocumentsMove
  <2> QED BY <1>1, <2>1, <2>3 DEF Placed
<1>3. CASE c = current /\ current' = 0 /\ ~HasDocuments(project'[c])
  BY <1>1, <1>3 DEF Placed, CommitInv, CurrentInv
<1> QED BY <1>2, <1>3 DEF Placed

\* The invariant under which a step makes the moves above.
WorkInv == TypeInv /\ CommitInv /\ RetirementsLeft

LEMMA WorkStep ==
  ASSUME WorkInv, TypeInv', [Next]_vars
  PROVE  /\ WorkInv' /\ ContextsMove
         /\ Served \/ Exchange
<1>1. Moves \/ (Exchange /\ ContextsMove)
  BY StepMoves DEF WorkInv, TypeInv
<1>2. CommitInv'
  BY StepCommits, StutterCommits DEF WorkInv, TypeInv
<1>3. RetirementsLeft'
  BY <1>1, StepPlaced, RetirementsStep DEF WorkInv, TypeInv, Moves
<1> QED BY <1>1, <1>2, <1>3 DEF WorkInv, Moves

LEMMA WorkHolds == Spec => []WorkInv
<1>1. Init /\ TypeInv => WorkInv
  BY InitCommits DEF WorkInv, RetirementsLeft, Init
<1>2. WorkInv /\ TypeInv' /\ [Next]_vars => WorkInv'
  BY WorkStep
<1> QED BY <1>1, <1>2, TypesKept, PTL DEF Spec

-----------------------------------------------------------------------------
\* Obsolete work.

\* Hypothesis: a failure that is retried when its worker is gone finds nothing active.
RetriesFindNothingActive == \A f \in failing : project[f.worker[1]].active = 0

\* Hypothesis: an expired lease finds no later supersede to forget.
LeasesForgetNothing == \A w \in leasing : project[w[1]].awaitingSupersede = 0

\* What is active and obsolete is to be superseded: the request is not sent yet, or
\* it is and no other request will take its place.
PreemptedIn(p) ==
  p.active # 0 /\ p.active # p.gen /\ p.state # "Closed" =>
    \/ p.supersedeRequested = p.active
    \/ p.supersedeRequested = 0 /\ p.awaitingSupersede = p.active

Preempted == \A c \in Contexts : PreemptedIn(project[c])

LEMMA PreemptedMove ==
  ASSUME WorkInv, RetriesFindNothingActive, LeasesForgetNothing, NEW c \in Contexts,
         PreemptedIn(project[c]), Move(c, project[c], project'[c])
  PROVE  PreemptedIn(project'[c])
<1> DEFINE p == project[c]
<1> DEFINE q == project'[c]
<1>1. Retries(c, p, q) => p.active = 0
  BY DEF Retries, Failing, RetriesFindNothingActive
<1>2. c \in Leasing => p.awaitingSupersede = 0
  BY DEF Leasing, LeasesForgetNothing
<1>3. Retries(c, p, q) => p.state # "Closed"
  BY DEF Retries, WorkInv, CommitInv, CurrentInv
<1> HIDE DEF p, q
<1>4. CASE Rests(c, p, q) \/ GivesUp(p, q) \/ Asks(p, q)
  BY <1>2, <1>4 DEF Rests, GivesUp, Asks, SameWork, SameSupersede, PreemptedIn, p, q
<1>5. CASE Reschedules(c, p, q) \/ Starts(p, q) \/ Fails(p, q) \/ Retries(c, p, q)
  BY <1>1, <1>3, <1>5 DEF Reschedules, Starts, Fails, Retries, PreemptedIn, q
<1>6. CASE Commits(p, q) \/ Closes(p, q)
  BY <1>6 DEF Commits, Closes, PreemptedIn, q
<1> QED BY <1>4, <1>5, <1>6 DEF Move, p, q

\* Every edit that makes the running analysis obsolete leads to a supersede of it
\* (scheduleProject notes the active generation, processSupersedes sends the request),
\* whatever commits, failures, timers and retirements come in between, unless the
\* retry of a failure finds a later analysis running, which it does not supersede, or
\* an expired lease clears the supersede its context awaits from a later worker.
THEOREM ObsoleteIsPreempted ==
  Spec /\ []RetriesFindNothingActive /\ []LeasesForgetNothing => []ObsoleteWorkIsPreempted
<1>1. Init => Preempted
  BY DEF Init, Preempted, PreemptedIn, NewProject
<1>2. ASSUME WorkInv, RetriesFindNothingActive, LeasesForgetNothing, Preempted, TypeInv',
             [Next]_vars
      PROVE  Preempted'
  <2>1. ContextsMove
    BY <1>2, WorkStep
  <2>2. ASSUME NEW c \in Contexts PROVE PreemptedIn(project'[c])
    BY <1>2, <2>1, PreemptedMove DEF Preempted, ContextsMove
  <2> QED BY <2>2 DEF Preempted
<1>3. Preempted => ObsoleteWorkIsPreempted
  BY DEF Preempted, PreemptedIn, ObsoleteWorkIsPreempted
<1> QED BY <1>1, <1>2, <1>3, WorkHolds, TypesKept, PTL DEF Spec

-----------------------------------------------------------------------------
\* Pending projects.

\* Hypothesis: what is superseded in a context that has something active is that.
SupersedesAreOfActive ==
  \A c \in Contexts :
    LET p == project[c]
    IN p.active # 0 => {p.supersedeRequested, p.awaitingSupersede} \subseteq {0, p.active}

\* A pending context is to be started or is being analysed, and only older work is
\* to be superseded.
Owned(p) ==
  /\ HasDocuments(p) /\ p.state = "Pending" => p.pending \/ p.active = p.gen
  /\ p.supersedeRequested # 0 => p.supersedeRequested < p.gen
  /\ p.awaitingSupersede # 0 => p.awaitingSupersede < p.gen

ContextsOwned == \A c \in Contexts : Owned(project[c])

LEMMA OwnedMove ==
  ASSUME NEW c, NEW p \in ProjectRecord, NEW q \in ProjectRecord, Move(c, p, q),
         GenerationsMatch(p), Owned(p),
         p.active # 0 => {p.supersedeRequested, p.awaitingSupersede} \subseteq {0, p.active}
  PROVE  Owned(q)
<1>1. /\ p.gen \in Nat /\ p.active \in Nat /\ p.supersedeRequested \in Nat
      /\ p.awaitingSupersede \in Nat /\ q.gen \in Nat
  BY DEF ProjectRecord
<1>2. p.active <= p.gen
  BY DEF GenerationsMatch
<1>3. p.active # 0 /\ p.active = p.gen => p.supersedeRequested = 0 /\ p.awaitingSupersede = 0
  BY <1>1 DEF Owned
<1>4. ASSUME SameWork(p, q), q.active = p.active,
             q.supersedeRequested \in {0, p.supersedeRequested},
             q.awaitingSupersede \in {0, p.awaitingSupersede, p.supersedeRequested}
      PROVE  Owned(q)
  BY <1>1, <1>4 DEF SameWork, HasDocuments, Owned
<1>5. CASE Rests(c, p, q) \/ Asks(p, q)
  BY <1>4, <1>5 DEF Rests, Asks, SameSupersede, SameWork
<1>6. CASE GivesUp(p, q)
  <2>1. q.supersedeRequested \in {0, p.supersedeRequested} /\ q.awaitingSupersede = 0
    BY <1>6 DEF GivesUp
  <2>2. SameWork(p, q) /\ q.active = 0
    BY <1>6 DEF GivesUp
  <2>3. HasDocuments(p) /\ p.state = "Pending" /\ p.active = p.gen => p.active = 0
    BY <1>3, <1>6 DEF GivesUp
  <2> QED BY <1>1, <2>1, <2>2, <2>3 DEF Owned, SameWork, HasDocuments
<1>7. CASE Reschedules(c, p, q) \/ Retries(c, p, q)
  BY <1>1, <1>2, <1>7 DEF Reschedules, Retries, SameSupersede, Owned
<1>8. CASE Starts(p, q) \/ Commits(p, q)
  BY <1>1, <1>8 DEF Starts, Commits, SameSupersede, Owned
<1>9. CASE Closes(p, q)
  BY <1>1, <1>9 DEF Closes, Owned
<1>10. CASE Fails(p, q)
  BY <1>1, <1>10 DEF Fails, Owned
<1> QED BY <1>5, <1>6, <1>7, <1>8, <1>9, <1>10 DEF Move

\* A project that is pending is never forgotten: it is marked as pending or its newest
\* generation is being analysed, unless a worker is started while a supersede of its
\* predecessor's work is still noted (processSupersedes then sends it to the new worker,
\* whose answer takes the new generation for the superseded one).
THEOREM PendingProjectsAreOwned == Spec /\ []SupersedesAreOfActive => []PendingIsOwned
<1>1. Init => ContextsOwned
  BY DEF Init, ContextsOwned, Owned, NewProject, HasDocuments
<1>2. ASSUME WorkInv, SupersedesAreOfActive, ContextsOwned, TypeInv', [Next]_vars
      PROVE  ContextsOwned'
  <2>1. ContextsMove
    BY <1>2, WorkStep
  <2>2. ASSUME NEW c \in Contexts PROVE Owned(project'[c])
    <3>1. project[c] \in ProjectRecord /\ project'[c] \in ProjectRecord
      BY <1>2 DEF TypeInv, TypeOK, WorkInv
    <3>2. GenerationsMatch(project[c]) /\ Owned(project[c]) /\ Move(c, project[c], project'[c])
      BY <1>2, <2>1 DEF ContextsOwned, ContextsMove, WorkInv, CommitInv, ContextsMatch
    <3> QED BY <1>2, <3>1, <3>2, OwnedMove DEF SupersedesAreOfActive
  <2> QED BY <2>2 DEF ContextsOwned
<1>3. WorkInv /\ ContextsOwned => PendingIsOwned
  <2> SUFFICES ASSUME WorkInv, ContextsOwned, CurrentState("Pending")
               PROVE  project[current].pending \/ project[current].active = project[current].gen
    BY DEF PendingIsOwned
  <2>1. current \in Contexts /\ HasDocuments(project[current])
    BY DEF CurrentState, WorkInv, TypeInv, TypeOK, CommitInv, CurrentInv
  <2> QED BY <2>1 DEF ContextsOwned, Owned, CurrentState
<1> QED BY <1>1, <1>2, <1>3, WorkHolds, TypesKept, PTL DEF Spec

-----------------------------------------------------------------------------
\* Waiting requests.

\* Hypothesis: a failure that is retried when its worker is gone finds no request that
\* waits already.
RetriesFindNoWaiter == \A f \in failing : ProjectWaiters(f.worker[1]) = {}

WaitersKnow(r) ==
  req[r].pc = "waiting" =>
    /\ project[req[r].ctx].state = "Pending"
    /\ req[r].gen = project[req[r].ctx].gen

LEMMA ServedWaiters ==
  ASSUME WorkInv, RetriesFindNoWaiter, Served, NEW r \in Requests, WaitersKnow(r)
  PROVE  WaitersKnow(r)'
<1> SUFFICES ASSUME req'[r].pc = "waiting"
             PROVE  /\ project'[req'[r].ctx].state = "Pending"
                    /\ req'[r].gen = project'[req'[r].ctx].gen
  BY DEF WaitersKnow
<1>1. req[r] \in RequestRecord
  BY DEF WorkInv, TypeInv, TypeOK
<1>2. req'[r] = req[r]
  <2>1. ~Refuses(r)
    BY DEF Refuses, Settled, NewRequest
  <2>2. ~Wakes(r)
    BY <1>1 DEF Wakes, RequestRecord
  <2> QED BY <2>1, <2>2 DEF Served, Progress
<1>3. req[r].ctx \notin Failing
  BY <1>2 DEF Failing, RetriesFindNoWaiter, ProjectWaiters
<1>4. Undisturbed(r)
  BY <1>2 DEF Served, Bound
<1>5. project[req[r].ctx].state = "Pending" /\ req[r].gen = project[req[r].ctx].gen
  BY <1>2 DEF WaitersKnow
<1> QED BY <1>2, <1>3, <1>4, <1>5 DEF Undisturbed

LEMMA DispatchedDoNotWait ==
  ASSUME TypeOK, NEW r \in Requests, NEW d, NEW c, Dispatch(r, d, c)
  PROVE  req'[r].pc \in {"done", "querying"} /\ \A s \in Requests : s # r => req'[s] = req[s]
<1> DEFINE asks == [NewRequest EXCEPT !.pc = "querying", !.doc = d, !.ctx = c,
                      !.version = ledger[d].version, !.text = ledger[d].text,
                      !.gen = project[c].gen, !.epoch = project[c].slot]
<1> DEFINE none == Settled([req[r] EXCEPT !.doc = d], "unavailable")
<1>1. req' = [req EXCEPT ![r] = asks] \/ req' = [req EXCEPT ![r] = none]
  BY DEF Dispatch
<1>2. asks.pc = "querying" /\ none.pc = "done"
  BY DEF NewRequest, Settled
<1> HIDE DEF asks, none
<1> QED BY <1>1, <1>2 DEF TypeOK

LEMMA ExchangedWaiters ==
  ASSUME WorkInv, Exchange, NEW r \in Requests, WaitersKnow(r)
  PROVE  WaitersKnow(r)'
<1> USE DEF WorkInv, TypeInv
<1>1. UNCHANGED <<project, current>>
  BY ExchangeRests
<1>2. ASSUME req'[r] = req[r] \/ req'[r].pc # "waiting" PROVE WaitersKnow(r)'
  BY <1>1, <1>2 DEF WaitersKnow
<1>3. ASSUME NEW s \in Requests, Resume(s) PROVE WaitersKnow(r)'
  <2>1. \/ \E d, c : Dispatch(s, d, c)
        \/ req' = [req EXCEPT ![s] = Settled(@, "superseded")]
    BY <1>3 DEF Resume
  <2>2. Settled(req[s], "superseded").pc = "done"
    BY DEF Settled, NewRequest
  <2>3. req'[r] = req[r] \/ req'[r].pc \in {"done", "querying"}
    BY <2>1, <2>2, DispatchedDoNotWait DEF TypeOK
  <2> QED BY <1>2, <2>3
<1>4. ASSUME NEW w \in Workers, ReceiveResult(w) PROVE WaitersKnow(r)'
  <2>1. req'[r] = req[r] \/ req'[r].pc = "done"
    BY <1>4 DEF ReceiveResult, Settled, NewRequest, TypeOK
  <2> QED BY <1>2, <2>1
<1>5. ASSUME NEW s \in Requests, NEW d \in Docs, Ask(s, d) PROVE WaitersKnow(r)'
  <2> DEFINE asked == [NewRequest EXCEPT !.doc = d, !.version = ledger[d].version,
                                         !.text = ledger[d].text]
  <2>1. \/ Dispatch(s, d, current)
        \/ \E outcome : req' = [req EXCEPT ![s] = Settled(asked, outcome)]
        \/ req' = [req EXCEPT ![s] = [asked EXCEPT !.pc = "discovering"]]
        \/ /\ project[current].state = "Pending"
           /\ req' = [req EXCEPT ![s] = [asked EXCEPT !.pc = "waiting", !.ctx = current,
                                                      !.gen = project[current].gen]]
    BY <1>5 DEF Ask, NewRequest
  <2> DEFINE finding == [asked EXCEPT !.pc = "discovering"]
  <2> DEFINE waits == [asked EXCEPT !.pc = "waiting", !.ctx = current,
                                    !.gen = project[current].gen]
  <2>2. /\ \A outcome : Settled(asked, outcome).pc = "done"
        /\ finding.pc = "discovering"
        /\ waits.ctx = current /\ waits.gen = project[current].gen
    BY DEF Settled, NewRequest
  <2> HIDE DEF asked
  <2>3. \/ req'[r] = req[r] \/ req'[r].pc # "waiting"
        \/ project[current].state = "Pending" /\ req'[r] = waits
    <3> HIDE DEF finding, waits
    <3> QED BY <2>1, <2>2, DispatchedDoNotWait DEF TypeOK, finding, waits
  <2> QED BY <1>1, <1>2, <2>2, <2>3 DEF WaitersKnow
<1> QED BY <1>3, <1>4, <1>5 DEF Exchange

\* A request that waits for a commit waits for the newest generation, of a project that
\* is pending, so the commit wakes it: whatever schedules the project settles its waiters
\* first, unless the retry of a failure schedules it when its worker is gone, and finds
\* a request that came while it waited for that.
THEOREM WaitersAwait == Spec /\ []RetriesFindNoWaiter => []WaitersAwaitTheNewest
<1> DEFINE I == \A r \in Requests : WaitersKnow(r)
<1>1. Init => I
  BY DEF Init, WaitersKnow, NewRequest
<1>2. ASSUME WorkInv, RetriesFindNoWaiter, I, TypeInv', [Next]_vars
      PROVE  I'
  <2>1. Served \/ Exchange
    BY <1>2, WorkStep
  <2> QED BY <1>2, <2>1, ServedWaiters, ExchangedWaiters
<1>3. I => WaitersAwaitTheNewest
  BY DEF WaitersKnow, WaitersAwaitTheNewest, ProjectWaiters
<1> QED BY <1>1, <1>2, <1>3, WorkHolds, TypesKept, PTL DEF Spec

-----------------------------------------------------------------------------
\* Answers: what the workers know of a request.

Messages(box) == {box[i] : i \in 1..Len(box)}

LEMMA MessagesOf ==
  ASSUME NEW S, NEW box \in Seq(S)
  PROVE  /\ Messages(<<>>) = {}
         /\ \A m : Messages(Append(box, m)) = Messages(box) \cup {m}
         /\ box # <<>> => Head(box) \in Messages(box) /\ Messages(Tail(box)) \subseteq Messages(box)
<1>1. Messages(<<>>) = {}
  BY DEF Messages
<1>2. ASSUME NEW m PROVE Messages(Append(box, m)) = Messages(box) \cup {m}
  <2> DEFINE new == Append(box, m)
  <2>1. /\ Len(new) = Len(box) + 1 /\ new[Len(box) + 1] = m /\ Len(box) \in Nat
        /\ \A i \in 1..Len(box) : new[i] = box[i]
    BY AppendFacts
  <2> HIDE DEF new
  <2>2. 1..Len(new) = 1..Len(box) \cup {Len(box) + 1}
    BY <2>1
  <2>3. Messages(new) = Messages(box) \cup {m}
    BY <2>1, <2>2 DEF Messages
  <2> QED BY <2>3 DEF new
<1>3. ASSUME box # <<>>
      PROVE  Head(box) \in Messages(box) /\ Messages(Tail(box)) \subseteq Messages(box)
  BY <1>3, TailFacts DEF Messages
<1> QED BY <1>1, <1>2, <1>3

\* Worker w has heard nothing of request r.
Untold(r, w) ==
  /\ \A m \in Messages(inbox[w]) : m.tag = "Query" => m.req # r
  /\ \A k \in runtime[w].queries : k.req # r
  /\ \A m \in Messages(outbox[w]) : m.tag = "Result" => m.req # r

\* Whatever worker w has, or will have, of the generation that request r asks for
\* has the text the request is bound to, and so has what it answers.
Told(r, w) ==
  LET q == req[r]
      s == runtime[w]
  IN /\ q.gen # 0
     /\ s.active.gen = q.gen => s.active.sources[q.doc] = q.text
     /\ s.committed.gen = q.gen => s.committed.sources[q.doc] = q.text
     /\ \A m \in Messages(inbox[w]) :
          /\ m.tag = "Analyze" /\ m.gen = q.gen => m.sources[q.doc] = q.text
          /\ m.tag = "Query" /\ m.req = r /\ m.gen = q.gen => m.doc = q.doc
     /\ \A k \in s.queries : k.req = r /\ k.gen = q.gen => k.text = q.text
     /\ \A m \in Messages(outbox[w]) :
          m.tag = "Result" /\ m.req = r /\ m.gen = q.gen => m.text \in {NoText, q.text}

\* What a worker's thread does: it analyses what it is sent, reads what it committed,
\* and answers what it read.
Works(w) ==
  LET s == runtime[w]
      t == runtime'[w]
      box == Messages(inbox[w])
  IN /\ Messages(inbox'[w]) \subseteq box
     /\ \/ t.active = s.active \/ t.active = NoAnalysis
        \/ \E m \in box :
             m.tag = "Analyze" /\ t.active.gen = m.gen /\ t.active.sources = m.sources
     /\ t.committed \in {s.committed, s.active, NoAnalysis}
     /\ \A k \in t.queries :
          \/ k \in s.queries
          \/ \E m \in box :
               /\ m.tag = "Query" /\ k.req = m.req /\ k.gen = m.gen
               /\ s.committed.gen = m.gen /\ k.text = s.committed.sources[m.doc]
     /\ \A a \in Messages(outbox'[w]) : a.tag = "Result" =>
          \/ a \in Messages(outbox[w])
          \/ a.text = NoText /\ \E m \in box : m.tag = "Query" /\ m.req = a.req
          \/ \E k \in s.queries : k.req = a.req /\ k.gen = a.gen /\ k.text = a.text

LEMMA WorksTells ==
  ASSUME UNCHANGED req, NEW w, Works(w), NEW r
  PROVE  /\ Untold(r, w) => Untold(r, w)'
         /\ Told(r, w) => Told(r, w)'
<1>1. Untold(r, w) => Untold(r, w)'
  BY DEF Untold, Works
<1>2. ASSUME Told(r, w) PROVE Told(r, w)'
  <2> DEFINE q == req[r]
  <2> DEFINE s == runtime[w]
  <2> DEFINE t == runtime'[w]
  <2>1. q.gen # 0 /\ NoAnalysis.gen = 0
    BY <1>2 DEF Told, NoAnalysis
  <2>2. t.active.gen = q.gen => t.active.sources[q.doc] = q.text
    BY <1>2, <2>1 DEF Told, Works
  <2>3. t.committed.gen = q.gen => t.committed.sources[q.doc] = q.text
    BY <1>2, <2>1 DEF Told, Works
  <2>4. \A m \in Messages(inbox'[w]) :
          /\ m.tag = "Analyze" /\ m.gen = q.gen => m.sources[q.doc] = q.text
          /\ m.tag = "Query" /\ m.req = r /\ m.gen = q.gen => m.doc = q.doc
    BY <1>2 DEF Told, Works
  <2>5. \A k \in t.queries : k.req = r /\ k.gen = q.gen => k.text = q.text
    BY <1>2 DEF Told, Works
  <2>6. \A m \in Messages(outbox'[w]) :
          m.tag = "Result" /\ m.req = r /\ m.gen = q.gen => m.text \in {NoText, q.text}
    BY <1>2 DEF Told, Works
  <2> QED BY <2>1, <2>2, <2>3, <2>4, <2>5, <2>6 DEF Told
<1> QED BY <1>1, <1>2

\* A worker a thread's step does not concern.
LEMMA IdleWorks ==
  ASSUME NEW w, runtime'[w] = runtime[w], inbox'[w] = inbox[w], outbox'[w] = outbox[w]
  PROVE  Works(w)
  BY DEF Works

\* What is posted joins the outbox, if it is read.
LEMMA PostMessages ==
  ASSUME TypeOK, NEW w \in Workers, NEW messages, PostToHost(w, messages),
         messages = <<>> \/ \E m : messages = <<m>>
  PROVE  /\ \A v \in Workers : v # w => outbox'[v] = outbox[v]
         /\ Messages(outbox'[w]) \subseteq Messages(outbox[w]) \cup Messages(messages)
<1>1. outbox[w] \in Seq(WorkerMessage \cup {Died})
  BY DEF TypeOK
<1>2. outbox'[w] = outbox[w] \/ outbox'[w] = outbox[w] \o messages
  BY DEF PostToHost, TypeOK
<1>3. \A v \in Workers : v # w => outbox'[v] = outbox[v]
  BY DEF PostToHost, TypeOK
<1>4. CASE messages = <<>>
  BY <1>1, <1>2, <1>3, <1>4, PostNothing
<1>5. ASSUME NEW m, messages = <<m>>
      PROVE  Messages(outbox'[w]) \subseteq Messages(outbox[w]) \cup Messages(messages)
  <2>1. outbox[w] \o messages = Append(outbox[w], m)
    BY <1>1, <1>5, PostOne
  <2>2. Messages(Append(outbox[w], m)) = Messages(outbox[w]) \cup {m}
    BY <1>1, MessagesOf
  <2>3. Messages(messages) = {m}
    BY <1>5 DEF Messages
  <2> QED BY <1>2, <2>1, <2>2, <2>3
<1> QED BY <1>3, <1>4, <1>5

\* What a worker answers to one message, and what it starts to read.
LEMMA AcceptedAnswers ==
  ASSUME NEW s \in RuntimeState, NEW m \in HostMessage, NEW now
  PROVE  LET step == Accepted(s, m, now)
         IN /\ \A k \in step.state.queries :
                 \/ k \in s.queries
                 \/ /\ m.tag = "Query" /\ k.req = m.req /\ k.gen = m.gen
                    /\ s.committed.gen = m.gen /\ k.text = s.committed.sources[m.doc]
            /\ \A a \in Messages(step.replies) : a.tag = "Result" =>
                 m.tag = "Query" /\ a.req = m.req /\ a.text = NoText
<1> USE DEF Step, Messages
<1> DEFINE step == Accepted(s, m, now)
<1>1. CASE m.tag \in {"Initialize", "SupersedeAnalysis", "CancelQuery", "Shutdown"}
  <2>1. step.state.queries \subseteq s.queries
    BY <1>1 DEF Accepted, WithoutGeneration, WithoutQuery, RuntimeState
  <2>2. \A a \in Messages(step.replies) : a.tag # "Result"
    BY <1>1 DEF Accepted, Ready, Superseded, Stopped
  <2> QED BY <2>1, <2>2
<1>2. CASE m.tag = "Analyze"
  <2>1. step = StartAnalysis(s, m, now)
    BY <1>2 DEF Accepted
  <2>2. step.state.queries \subseteq s.queries
    BY <2>1 DEF StartAnalysis, Analysing, WithoutGeneration, RuntimeState
  <2>3. \A a \in Messages(step.replies) : a.tag # "Result"
    BY <2>1 DEF StartAnalysis, Superseded
  <2> QED BY <2>2, <2>3
<1>3. CASE m.tag = "Query"
  <2>1. step = StartQuery(s, m)
    BY <1>3 DEF Accepted
  <2> DEFINE k == [gen |-> m.gen, req |-> m.req, doc |-> m.doc,
                   text |-> s.committed.sources[m.doc]]
  <2>2. \/ step.state = WithoutQuery(s, m.req) /\ step.replies = <<Unavailable(m)>>
        \/ /\ s.committed.gen = m.gen /\ step.replies = <<>>
           /\ step.state = [WithoutQuery(s, m.req) EXCEPT !.queries = @ \cup {k}]
    BY <2>1 DEF StartQuery
  <2>3. WithoutQuery(s, m.req).queries \subseteq s.queries
    BY DEF WithoutQuery, RuntimeState
  <2>4. [WithoutQuery(s, m.req) EXCEPT !.queries = @ \cup {k}].queries \subseteq s.queries \cup {k}
    BY <2>3 DEF WithoutQuery, RuntimeState
  <2>5. \A a \in Messages(step.replies) : a = Unavailable(m)
    BY <2>2
  <2>6. k.req = m.req /\ k.gen = m.gen /\ k.text = s.committed.sources[m.doc]
    OBVIOUS
  <2>7. /\ Unavailable(m).tag = "Result" /\ Unavailable(m).req = m.req
        /\ Unavailable(m).text = NoText
    BY DEF Unavailable
  <2>8. \A a \in Messages(step.replies) : a.req = m.req /\ a.text = NoText
    BY <2>5, <2>7
  <2>9. \A j \in step.state.queries :
          \/ j \in s.queries
          \/ j = k /\ s.committed.gen = m.gen
    BY <2>2, <2>3, <2>4
  <2> HIDE DEF k, step
  <2> QED BY <1>3, <2>6, <2>8, <2>9 DEF step
<1> QED BY <1>1, <1>2, <1>3 DEF HostMessage

LEMMA RunsWork ==
  ASSUME TypeOK, NEW w \in Workers, NEW step, WorkerRuns(w, step),
         LET s == runtime[w]
             t == step.state
         IN /\ t.active \in {s.active, NoAnalysis} /\ t.committed \in {s.committed, s.active}
            /\ t.queries \subseteq s.queries,
         \/ step.replies = <<>>
         \/ \E a : step.replies = <<a>> /\ (a.tag = "Result" =>
              \E k \in runtime[w].queries : k.req = a.req /\ k.gen = a.gen /\ k.text = a.text)
  PROVE  \A v \in Workers : Works(v)
<1>1. /\ runtime' = [runtime EXCEPT ![w] = step.state] /\ UNCHANGED inbox
      /\ PostToHost(w, step.replies)
  BY DEF WorkerRuns
<1>2. /\ \A v \in Workers : v # w => outbox'[v] = outbox[v]
      /\ Messages(outbox'[w]) \subseteq Messages(outbox[w]) \cup Messages(step.replies)
  BY <1>1, PostMessages
<1>3. \A v \in Workers : v # w => Works(v)
  BY <1>1, <1>2, IdleWorks DEF TypeOK
<1>4. runtime'[w] = step.state
  BY <1>1 DEF TypeOK
<1>5. \A a \in Messages(step.replies) : a.tag = "Result" =>
        \E k \in runtime[w].queries : k.req = a.req /\ k.gen = a.gen /\ k.text = a.text
  BY DEF Messages
<1>6. Works(w)
  BY <1>1, <1>2, <1>4, <1>5 DEF Works
<1> QED BY <1>3, <1>6

LEMMA ExitWorks ==
  ASSUME TypeOK, NEW w \in Workers, Exit(w),
         \/ UNCHANGED outbox
         \/ \E m : m.tag # "Result" /\ PostToHost(w, <<m>>)
  PROVE  \A v \in Workers : Works(v)
<1>1. /\ runtime'[w] = Fresh /\ inbox'[w] = <<>>
      /\ \A v \in Workers : v # w => runtime'[v] = runtime[v] /\ inbox'[v] = inbox[v]
  BY DEF Exit, TypeOK
<1>2. /\ \A v \in Workers : v # w => outbox'[v] = outbox[v]
      /\ \A a \in Messages(outbox'[w]) : a.tag = "Result" => a \in Messages(outbox[w])
  <2>1. CASE UNCHANGED outbox
    BY <2>1
  <2>2. ASSUME NEW m, m.tag # "Result", PostToHost(w, <<m>>)
        PROVE  /\ \A v \in Workers : v # w => outbox'[v] = outbox[v]
               /\ \A a \in Messages(outbox'[w]) : a.tag = "Result" => a \in Messages(outbox[w])
    <3>1. Messages(<<m>>) = {m}
      BY DEF Messages
    <3>2. /\ \A v \in Workers : v # w => outbox'[v] = outbox[v]
          /\ Messages(outbox'[w]) \subseteq Messages(outbox[w]) \cup Messages(<<m>>)
      BY <2>2, PostMessages
    <3> QED BY <2>2, <3>1, <3>2
  <2> QED BY <2>1, <2>2
<1>3. /\ Messages(inbox'[w]) = {} /\ runtime'[w].queries = {}
      /\ runtime'[w].active = NoAnalysis /\ runtime'[w].committed = NoAnalysis
  BY <1>1 DEF Messages, Fresh
<1>4. Works(w)
  BY <1>2, <1>3 DEF Works
<1> QED BY <1>1, <1>2, <1>4, IdleWorks

LEMMA AcceptsWork ==
  ASSUME TypeOK, NEW w \in Workers, WorkerAccepts(w)
  PROVE  \A v \in Workers : Works(v)
<1> DEFINE m == Head(inbox[w])
<1> DEFINE s == runtime[w]
<1> DEFINE step == Accepted(s, m, disk)
<1>1. /\ inbox[w] \in Seq(HostMessage) /\ inbox[w] # <<>> /\ m \in HostMessage
      /\ s \in RuntimeState /\ disk \in Nat
  BY TailFacts DEF WorkerAccepts, TypeOK
<1>2. /\ PostToHost(w, step.replies)
      /\ IF m.tag = "Shutdown" THEN Exit(w)
         ELSE /\ runtime' = [runtime EXCEPT ![w] = step.state]
              /\ inbox' = [inbox EXCEPT ![w] = Tail(inbox[w])]
              /\ UNCHANGED proc
  BY DEF WorkerAccepts
<1>3. CASE m.tag = "Shutdown"
  <2>1. step.replies = <<Stopped>> /\ Stopped.tag # "Result"
    BY <1>3 DEF Accepted, Step, Stopped
  <2> QED BY <1>2, <1>3, <2>1, ExitWorks
<1>4. CASE m.tag # "Shutdown"
  <2>1. /\ runtime'[w] = step.state /\ inbox'[w] = Tail(inbox[w])
        /\ \A v \in Workers : v # w => runtime'[v] = runtime[v] /\ inbox'[v] = inbox[v]
    BY <1>2, <1>4 DEF TypeOK
  <2>2. /\ step.state.committed = s.committed
        /\ IF m.tag = "Analyze"
           THEN step.state.active.gen = m.gen /\ step.state.active.sources = m.sources
           ELSE step.state.active = s.active \/ step.state.active = NoAnalysis
        /\ step.replies = <<>> \/ \E r : step.replies = <<r>>
    BY <1>1, AcceptedFacts
  <2>3. /\ \A k \in step.state.queries :
             \/ k \in s.queries
             \/ /\ m.tag = "Query" /\ k.req = m.req /\ k.gen = m.gen
                /\ s.committed.gen = m.gen /\ k.text = s.committed.sources[m.doc]
        /\ \A a \in Messages(step.replies) : a.tag = "Result" =>
             m.tag = "Query" /\ a.req = m.req /\ a.text = NoText
    BY <1>1, AcceptedAnswers
  <2>4. m \in Messages(inbox[w]) /\ Messages(Tail(inbox[w])) \subseteq Messages(inbox[w])
    BY <1>1, MessagesOf
  <2> HIDE DEF step, m
  <2>5. /\ \A v \in Workers : v # w => outbox'[v] = outbox[v]
        /\ Messages(outbox'[w]) \subseteq Messages(outbox[w]) \cup Messages(step.replies)
    BY <1>2, <2>2, PostMessages
  <2>6. Works(w)
    <3>1. \A a \in Messages(outbox'[w]) : a.tag = "Result" =>
            \/ a \in Messages(outbox[w])
            \/ a.text = NoText /\ m.tag = "Query" /\ m.req = a.req
      BY <2>3, <2>5
    <3> QED BY <2>1, <2>2, <2>3, <2>4, <3>1 DEF Works
  <2> QED BY <2>1, <2>5, <2>6, IdleWorks
<1> QED BY <1>3, <1>4

\* A step of a thread.
LEMMA ThreadWorks ==
  ASSUME TypeOK, NEW w \in Workers,
         \/ ThreadNext(w) \/ WorkerDefects(w) \/ WorkerForgetsQuery(w) \/ WorkerDies(w)
         \/ WorkerHangs(w)
  PROVE  \A v \in Workers : Works(v)
<1> DEFINE s == runtime[w]
<1>1. s \in RuntimeState
  BY DEF TypeOK
<1>2. CASE WorkerAccepts(w)
  BY <1>2, AcceptsWork
<1>3. CASE WorkerCommits(w)
  <2>1. /\ Completed(s).state.active = NoAnalysis /\ Completed(s).state.committed = s.active
        /\ Completed(s).state.queries = s.queries
        /\ Completed(s).replies = <<Commit(s.active.gen)>> /\ Commit(s.active.gen).tag # "Result"
    BY <1>1 DEF Completed, Step, RuntimeState, Commit
  <2> QED BY <1>3, <2>1, RunsWork DEF WorkerCommits
<1>4. CASE WorkerDefects(w)
  <2>1. /\ Defected(s).state.active = NoAnalysis /\ Defected(s).state.committed = s.committed
        /\ Defected(s).state.queries = s.queries
        /\ Defected(s).replies = <<Failure(s.active.gen)>> /\ Failure(s.active.gen).tag # "Result"
    BY <1>1 DEF Defected, Step, RuntimeState, Failure
  <2> QED BY <1>4, <2>1, RunsWork DEF WorkerDefects
<1>5. ASSUME NEW k \in s.queries,
             WorkerRuns(w, Answered(s, k)) \/ WorkerRuns(w, QueryDefected(s, k))
      PROVE  \A v \in Workers : Works(v)
  <2> DEFINE t == [s EXCEPT !.queries = @ \ {k}]
  <2>1. t.active = s.active /\ t.committed = s.committed /\ t.queries \subseteq s.queries
    BY <1>1 DEF RuntimeState
  <2>2. /\ Answered(s, k) = Step(t, <<Answer(k)>>) /\ QueryDefected(s, k) = Step(t, <<>>)
        /\ Answer(k).req = k.req /\ Answer(k).gen = k.gen /\ Answer(k).text = k.text
    BY DEF Answered, QueryDefected, Answer
  <2> HIDE DEF t
  <2>3. /\ Answered(s, k).state = t /\ Answered(s, k).replies = <<Answer(k)>>
        /\ QueryDefected(s, k).state = t /\ QueryDefected(s, k).replies = <<>>
    BY <2>2 DEF Step
  <2> QED BY <1>5, <2>1, <2>2, <2>3, RunsWork
<1>6. CASE WorkerAnswers(w) \/ WorkerForgetsQuery(w)
  BY <1>5, <1>6 DEF WorkerAnswers, WorkerForgetsQuery
<1>7. CASE WorkerDies(w) \/ Terminate(w)
  <2>1. Died.tag # "Result"
    BY DEF Died
  <2> QED BY <1>7, <2>1, ExitWorks DEF WorkerDies, Terminate
<1>8. CASE WorkerHangs(w)
  BY <1>8, IdleWorks DEF WorkerHangs
<1> QED BY <1>2, <1>3, <1>4, <1>6, <1>7, <1>8 DEF ThreadNext

\* What the host sends, unless it asks a worker for a request: the documents of the
\* newest generation.
Sends(w, m) ==
  \/ m \in Messages(inbox[w])
  \/ m.tag \notin {"Analyze", "Query"}
  \/ m.tag = "Analyze" /\ m.gen = project[w[1]].gen /\ m.sources = project[w[1]].docs

HostSends == \A w \in Workers : \A m \in Messages(inbox'[w]) : Sends(w, m)

HostTakes ==
  /\ UNCHANGED runtime
  /\ \A w \in Workers : Messages(outbox'[w]) \subseteq Messages(outbox[w])

LEMMA SendSends ==
  ASSUME TypeOK, NEW w \in Workers, NEW m \in HostMessage, Send(w, m), Sends(w, m)
  PROVE  HostSends
<1> SUFFICES ASSUME NEW v \in Workers, NEW a \in Messages(inbox'[v]) PROVE Sends(v, a)
  BY DEF HostSends
<1>1. inbox'[v] = inbox[v] \/ (v = w /\ inbox'[v] = Append(inbox[v], m))
  BY DEF Send, TypeOK
<1>2. Messages(Append(inbox[v], m)) = Messages(inbox[v]) \cup {m}
  BY MessagesOf DEF TypeOK
<1> QED BY <1>1, <1>2 DEF Sends

LEMMA NothingSends ==
  ASSUME UNCHANGED inbox
  PROVE  HostSends
  BY DEF HostSends, Sends

LEMMA DismissSends ==
  ASSUME TypeOK, NEW S, Dismiss(S)
  PROVE  HostSends
<1> SUFFICES ASSUME NEW v \in Workers, NEW a \in Messages(inbox'[v]) PROVE Sends(v, a)
  BY DEF HostSends
<1>1. inbox'[v] = inbox[v] \/ inbox'[v] = Append(inbox[v], Shutdown)
  BY DEF Dismiss
<1>2. Messages(Append(inbox[v], Shutdown)) = Messages(inbox[v]) \cup {Shutdown}
  BY MessagesOf DEF TypeOK
<1>3. Shutdown.tag = "Shutdown"
  BY DEF Shutdown
<1> QED BY <1>1, <1>2, <1>3 DEF Sends

LEMMA FailSends ==
  ASSUME TypeOK, NEW c, NEW p, NEW supervised, Fail(c, p, supervised)
  PROVE  HostSends
  BY NothingSends, DismissSends DEF Fail

LEMMA StartSends ==
  ASSUME TypeOK, NEW w \in Workers, StartAnalysisOn(w[1], w)
  PROVE  HostSends
<1> DEFINE p == project[w[1]]
<1> DEFINE m == Analyze(p.gen, p.docs, p.dirty \/ p.rediscover)
<1>1. Send(w, m) \/ \E q : Fail(w[1], q, TRUE)
  BY DEF StartAnalysisOn
<1>2. m \in HostMessage
  <2>1. p.gen \in Nat /\ p.docs \in Snapshot /\ (p.dirty \/ p.rediscover) \in BOOLEAN
    BY DEF TypeOK, Workers, ProjectRecord
  <2> QED BY <2>1, MessageTypes
<1>3. Sends(w, m)
  BY DEF Sends, Analyze
<1> HIDE DEF m
<1> QED BY <1>1, <1>2, <1>3, SendSends, FailSends

LEMMA SupersedeSends ==
  ASSUME TypeInv, NEW P \in [Contexts -> ProjectRecord], NEW signaled,
         SupersedeThenDiscover(P, signaled)
  PROVE  HostSends
<1> USE DEF TypeInv
<1> DEFINE p == P[current]
<1> DEFINE w == <<current, p.slot>>
<1> DEFINE m == SupersedeAnalysis(p.supersedeRequested)
<1>1. CASE current # 0 /\ p.supersedeRequested # 0 /\ p.slot # 0
  <2>1. Send(w, m)
    BY <1>1 DEF SupersedeThenDiscover
  <2>2. current \in Contexts /\ p \in ProjectRecord
    BY <1>1 DEF TypeOK
  <2>3. w \in Workers /\ p.supersedeRequested \in Nat
    BY <1>1, <2>2 DEF ProjectRecord, Workers
  <2>4. m \in HostMessage /\ Sends(w, m)
    BY <2>3, MessageTypes DEF Sends, SupersedeAnalysis
  <2> HIDE DEF m, w
  <2> QED BY <2>1, <2>3, <2>4, SendSends DEF w
<1>2. CASE ~(current # 0 /\ p.supersedeRequested # 0 /\ p.slot # 0)
  BY <1>2, NothingSends DEF SupersedeThenDiscover
<1> QED BY <1>1, <1>2

\* The supervisor.
LEMMA SupervisorSends ==
  ASSUME TypeInv, SupervisorNext \/ SpawnFails
  PROVE  HostSends /\ HostTakes
<1> USE DEF TypeInv
<1>1. HostTakes
  BY DEF SupervisorNext, TakeSignal, FinishRetirements, Discovered, DebounceIdle, DebounceStart,
         DebounceSpawn, WorkerIsReady, WorkerNeverReady, ReadinessExpires, SpawnFails, HostTakes,
         threadVars
<1>2. CASE TakeSignal
  <2>1. RetiredContexts \in [Contexts -> ProjectRecord]
    BY RetirementsType
  <2>2. SupersedeThenDiscover(RetiredContexts, FALSE) \/ \E S : Dismiss(S)
    BY <1>2 DEF TakeSignal, RetiredContexts
  <2> QED BY <1>1, <2>1, <2>2, SupersedeSends, DismissSends
<1>3. CASE FinishRetirements
  <2>1. SupersedeThenDiscover(project, signal) /\ project \in [Contexts -> ProjectRecord]
    BY <1>3 DEF FinishRetirements, TypeOK
  <2> QED BY <1>1, <2>1, SupersedeSends
<1>4. CASE Discovered \/ DebounceIdle
  BY <1>1, <1>4, NothingSends DEF Discovered, DebounceIdle
<1>5. CASE DebounceStart
  <2>1. /\ current \in Contexts /\ project[current].slot # 0
        /\ StartAnalysisOn(current, SlotOf(current))
    BY <1>5 DEF DebounceStart, Startable, TypeOK
  <2>2. SlotOf(current) \in Workers /\ SlotOf(current)[1] = current
    BY <2>1, SlotType DEF SlotOf, TypeOK
  <2> QED BY <1>1, <2>1, <2>2, StartSends
<1>6. CASE DebounceSpawn
  <2>1. \E w : inbox' = [inbox EXCEPT ![w] = <<Initialize>>]
    BY <1>6 DEF DebounceSpawn
  <2>2. \A v \in Workers : inbox'[v] = inbox[v] \/ inbox'[v] = <<Initialize>>
    BY <2>1 DEF TypeOK
  <2>3. Messages(<<Initialize>>) = {Initialize} /\ Initialize.tag = "Initialize"
    BY DEF Messages, Initialize
  <2> QED BY <1>1, <2>2, <2>3 DEF HostSends, Sends
<1>7. CASE WorkerIsReady
  <2>1. \E w \in sup.on : UNCHANGED inbox \/ StartAnalysisOn(w[1], w)
    BY <1>7 DEF WorkerIsReady
  <2>2. sup.on \subseteq Workers
    BY DEF TypeOK, SupervisorRecord
  <2> QED BY <1>1, <2>1, <2>2, NothingSends, StartSends
<1>8. CASE WorkerNeverReady \/ ReadinessExpires \/ SpawnFails
  <2>1. \E c, p : Fail(c, p, TRUE)
    BY <1>8 DEF WorkerNeverReady, ReadinessExpires, SpawnFails
  <2> QED BY <1>1, <2>1, FailSends
<1> QED BY <1>2, <1>3, <1>4, <1>5, <1>6, <1>7, <1>8 DEF SupervisorNext

\* The listeners, the watchdogs, the ends of retirements and shutdown.
LEMMA ListenerSends ==
  ASSUME TypeInv, NEW w \in Workers, ListenerNext(w)
  PROVE  HostSends /\ HostTakes
<1> USE DEF TypeInv
<1>1. HostTakes
  <2>1. UNCHANGED runtime /\ outbox[w] # <<>>
    BY DEF ListenerNext, ReceiveStale, ReceiveReady, ReceiveSuperseded, ReceiveCommit,
           ReceiveFailure, ReceiveResult, ReceiveDied, Receive
  <2>2. Consume(w) \/ StopListening(w)
    BY DEF ListenerNext, ReceiveStale, ReceiveReady, ReceiveSuperseded, ReceiveCommit,
           ReceiveFailure, ReceiveResult, ReceiveDied
  <2>3. \A v \in Workers :
          \/ outbox'[v] = outbox[v] \/ outbox'[v] = <<>>
          \/ outbox[v] # <<>> /\ outbox'[v] = Tail(outbox[v])
    BY <2>1, <2>2, TakenShrinks DEF OutboxesShrink
  <2>4. \A v \in Workers : outbox[v] \in Seq(WorkerMessage \cup {Died})
    BY DEF TypeOK
  <2> QED BY <2>1, <2>3, <2>4, MessagesOf DEF HostTakes
<1>2. UNCHANGED inbox \/ \E c, p : Fail(c, p, FALSE)
  BY DEF ListenerNext, ReceiveStale, ReceiveReady, ReceiveSuperseded, ReceiveCommit,
         ReceiveFailure, ReceiveResult, ReceiveDied, NoFailure
<1> QED BY <1>1, <1>2, NothingSends, FailSends

LEMMA OtherSends ==
  ASSUME TypeInv,
         \/ \E c \in Contexts : NoProgress(c) \/ Stall(c) \/ LeaseExpires(c)
         \/ \E w \in Workers : FinishLease(w)
         \/ \E f \in failing : FinishFailure(f)
         \/ ShutdownBegins \/ ShutdownEnds
  PROVE  HostSends /\ HostTakes
<1> USE DEF TypeInv
<1>1. HostTakes
  <2>1. Messages(<<>>) = {}
    BY DEF Messages
  <2> QED BY <2>1 DEF NoProgress, Stall, LeaseExpires, WatchdogStep, FinishLease, FinishFailure,
       ShutdownBegins, ShutdownEnds, HostTakes, threadVars
<1>2. \/ UNCHANGED inbox
      \/ \E c, p : Fail(c, p, FALSE)
      \/ \E S : Dismiss(S)
  BY DEF NoProgress, Stall, LeaseExpires, FinishLease, FinishFailure, ShutdownBegins, ShutdownEnds
<1> QED BY <1>1, <1>2, NothingSends, FailSends, DismissSends

LEMMA EventSends ==
  ASSUME TypeInv,
         \/ \E d \in Docs : Open(d) \/ ChangeAssociated(d) \/ ChangeUndiscovered(d) \/ Close(d)
         \/ \E kind \in FileEvents : Invalidate(kind)
         \/ \E r \in Requests : Abandon(r)
         \/ UNCHANGED vars
  PROVE  HostSends /\ HostTakes
<1> USE DEF TypeInv
<1>1. HostTakes
  BY DEF Open, ChangeAssociated, ChangeUndiscovered, Close, Invalidate, SourceEvent, Abandon,
         ClientStep, HostTakes, threadVars, vars
<1>2. ASSUME NEW r \in Requests, Abandon(r) PROVE HostSends
  <2>1. CASE req[r].pc = "querying"
    <3> DEFINE w == <<req[r].ctx, req[r].epoch>>
    <3>1. Send(w, CancelQuery(r))
      BY <1>2, <2>1 DEF Abandon
    <3>2. CancelQuery(r) \in HostMessage /\ CancelQuery(r).tag = "CancelQuery"
      BY MessageTypes DEF CancelQuery
    <3>3. CASE w \in Workers
      BY <3>1, <3>2, <3>3, SendSends DEF Sends
    <3>4. CASE w \notin Workers
      <4>1. \A v \in Workers : inbox'[v] = inbox[v]
        BY <3>1, <3>4 DEF Send, TypeOK
      <4> QED BY <4>1 DEF HostSends, Sends
    <3> QED BY <3>3, <3>4
  <2>2. CASE req[r].pc # "querying"
    BY <1>2, <2>2, NothingSends DEF Abandon
  <2> QED BY <2>1, <2>2
<1> QED BY <1>1, <1>2, NothingSends
     DEF Open, ChangeAssociated, ChangeUndiscovered, Close, Invalidate, SourceEvent, vars

\* Every step that does not ask a worker for a request.
Delivers ==
  \/ HostSends /\ HostTakes
  \/ UNCHANGED <<req, project, ledger>> /\ \A w \in Workers : Works(w)

LEMMA StepDelivers ==
  ASSUME TypeInv, [Next]_vars
  PROVE  \/ Delivers
         \/ \E r \in Requests : Resume(r) \/ \E d \in Docs : Ask(r, d)
<1>1. CASE Client
  BY <1>1, EventSends, OtherSends DEF Client, Delivers
<1>2. CASE SupervisorNext \/ SpawnFails
  BY <1>2, SupervisorSends DEF Delivers
<1>3. CASE \E w \in Workers : ListenerNext(w)
  BY <1>3, ListenerSends DEF Delivers
<1>4. ASSUME NEW w \in Workers,
             \/ ThreadNext(w) \/ WorkerDefects(w) \/ WorkerForgetsQuery(w) \/ WorkerDies(w)
             \/ WorkerHangs(w)
      PROVE  Delivers
  <2>1. ThreadStep
    BY <1>4 DEF ThreadNext, WorkerAccepts, WorkerCommits, WorkerAnswers, Terminate, WorkerDefects,
                WorkerForgetsQuery, WorkerDies, WorkerHangs, WorkerRuns
  <2> QED BY <1>4, <2>1, ThreadWorks DEF Delivers, ThreadStep, TypeInv, sourceVars, projectVars
<1>5. CASE \/ \E w \in Workers : FinishLease(w)
           \/ \E c \in Contexts : NoProgress(c) \/ LeaseExpires(c) \/ Stall(c)
           \/ \E f \in failing : FinishFailure(f)
           \/ ShutdownEnds
  BY <1>5, OtherSends DEF Delivers
<1>6. CASE UNCHANGED vars
  BY <1>6, EventSends DEF Delivers
<1> QED BY <1>1, <1>2, <1>3, <1>4, <1>5, <1>6 DEF Next, Faulty

-----------------------------------------------------------------------------
\* Answers: the invariant.

\* A query is bound to the text its project was committed with, which is the accepted one.
QueryBound(r) ==
  LET q == req[r]
  IN /\ <<q.ctx, q.epoch>> \in Workers
     /\ q.text # NoText
     /\ project[q.ctx].docs[q.doc] = q.text
     /\ ledger[q.doc].text = q.text

\* A request that did not reach a worker is unknown to all of them; what a worker has
\* for a query has the text the query is bound to.
AnswerHeld(r) ==
  /\ req[r].pc \in {"idle", "discovering", "waiting", "woken"} =>
       \A w \in Workers : Untold(r, w)
  /\ req[r].pc = "querying" => QueryBound(r) /\ Told(r, <<req[r].ctx, req[r].epoch>>)

AnswersHeld == \A r \in Requests : AnswerHeld(r)

\* A step of the host that does not ask a worker for a request.
LEMMA HostTells ==
  ASSUME HostSends, HostTakes, NEW r, NEW w \in Workers
  PROVE  /\ Untold(r, w) => Untold(r, w)'
         /\ /\ Told(r, w) /\ req'[r] = req[r]
            /\ project[w[1]].docs[req[r].doc] = req[r].text
            => Told(r, w)'
<1>1. /\ \A m \in Messages(inbox'[w]) : Sends(w, m)
      /\ runtime'[w] = runtime[w] /\ Messages(outbox'[w]) \subseteq Messages(outbox[w])
  BY DEF HostSends, HostTakes
<1>2. Untold(r, w) => Untold(r, w)'
  BY <1>1 DEF Untold, Sends
<1>3. ASSUME Told(r, w), req'[r] = req[r], project[w[1]].docs[req[r].doc] = req[r].text
      PROVE  Told(r, w)'
  <2> DEFINE q == req[r]
  <2>1. \A m \in Messages(inbox'[w]) :
          /\ m.tag = "Analyze" /\ m.gen = q.gen => m.sources[q.doc] = q.text
          /\ m.tag = "Query" /\ m.req = r /\ m.gen = q.gen => m.doc = q.doc
    BY <1>1, <1>3 DEF Told, Sends
  <2> QED BY <1>1, <1>3, <2>1 DEF Told
<1> QED BY <1>2, <1>3

\* Who revises a document.
LEMMA LedgerSteps ==
  ASSUME [Next]_vars
  PROVE  \/ UNCHANGED ledger
         \/ \E d \in Docs : Open(d) \/ ChangeAssociated(d) \/ ChangeUndiscovered(d) \/ Close(d)
         \/ ShutdownBegins
<1>1. CASE \/ \E kind \in FileEvents : Invalidate(kind)
           \/ \E r \in Requests : Resume(r) \/ Abandon(r) \/ \E d \in Docs : Ask(r, d)
  BY <1>1 DEF Invalidate, Resume, Abandon, Ask, ClientStep, sourceVars
<1>2. CASE SupervisorNext \/ SpawnFails
  BY <1>2 DEF SupervisorNext, TakeSignal, FinishRetirements, Discovered, DebounceIdle,
     DebounceStart, DebounceSpawn, WorkerIsReady, WorkerNeverReady, ReadinessExpires, SpawnFails,
     SupervisorStep, sourceVars
<1>3. CASE \E w \in Workers : ListenerNext(w)
  BY <1>3 DEF ListenerNext, ReceiveStale, ReceiveReady, ReceiveSuperseded, ReceiveCommit,
     ReceiveFailure, ReceiveResult, ReceiveDied, Receive, sourceVars
<1>4. CASE \E w \in Workers :
             ThreadNext(w) \/ WorkerDefects(w) \/ WorkerForgetsQuery(w) \/ WorkerDies(w)
               \/ WorkerHangs(w)
  BY <1>4 DEF ThreadNext, WorkerAccepts, WorkerCommits, WorkerAnswers, Terminate, WorkerDefects,
     WorkerForgetsQuery, WorkerDies, WorkerHangs, WorkerRuns, ThreadStep, sourceVars
<1>5. CASE \/ \E w \in Workers : FinishLease(w)
           \/ \E k \in Contexts : NoProgress(k) \/ LeaseExpires(k) \/ Stall(k)
           \/ \E f \in failing : FinishFailure(f)
           \/ ShutdownEnds \/ UNCHANGED vars
  BY <1>5 DEF FinishLease, NoProgress, LeaseExpires, Stall, FinishFailure, ShutdownEnds,
     WatchdogStep, SupervisorStep, sourceVars, vars
<1> QED BY <1>1, <1>2, <1>3, <1>4, <1>5 DEF Next, Client, Faulty

\* The document of a request that waits, or is asked of a worker, stays as accepted as
\* long as the request is not settled: it is in the context in use.
LEMMA BoundTextStays ==
  ASSUME TypeInv, TextsInv, [Next]_vars, NEW r \in Requests, Bound(r),
         project[req[r].ctx].docs[req[r].doc] # NoText, req'[r].pc # "done"
  PROVE  ledger'[req[r].doc] = ledger[req[r].doc]
<1> USE DEF TypeInv
<1> DEFINE e == req[r].doc
<1> DEFINE c == req[r].ctx
<1>1. /\ c \in Contexts /\ e \in Docs /\ project[c] \in ProjectRecord
      /\ project[c].docs[e] # NoText
  BY DEF RequestsAreBound, TypeOK, Bound
<1>2. r \in Affected(c)
  BY DEF Bound, Affected, ProjectWaiters, ProjectQueries
<1>3. ASSUME Running PROVE c = current /\ IsOpen(e) /\ Associated(e)
  <2>1. HasDocuments(project[c])
    BY <1>1, DocumentIsOf
  <2>2. c = current /\ IsOpen(e)
    BY <1>1, <1>3, <2>1 DEF TextsInv, OnlyCurrentHasDocuments, TextsHeld, TextHeld
  <2>3. current # 0
    BY <1>1, <2>2, EngineAssumption DEF Contexts
  <2> QED BY <1>1, <2>2, <2>3 DEF Associated
<1>4. \A outcome : Settled(req[r], outcome).pc = "done"
  BY DEF Settled, NewRequest
<1>5. ASSUME UNCHANGED ledger PROVE ledger'[e] = ledger[e]
  BY <1>5
<1>6. ASSUME NEW d \in Docs, Open(d) \/ ChangeUndiscovered(d)
      PROVE  ledger'[e] = ledger[e]
  <2>1. Running /\ d # e
    BY <1>3, <1>6 DEF Open, ChangeUndiscovered, SourceEvent
  <2> QED BY <1>1, <1>6, <2>1 DEF Open, ChangeUndiscovered, TypeOK
<1>7. ASSUME NEW d \in Docs, ChangeAssociated(d) PROVE FALSE
  <2>1. Running /\ Settle(DiscoveryWaiters({d}) \cup Affected(current), "superseded")
    BY <1>7 DEF ChangeAssociated, SourceEvent
  <2> QED BY <1>2, <1>3, <1>4, <2>1 DEF Settle
<1>8. ASSUME NEW d \in Docs, Close(d) PROVE ledger'[e] = ledger[e]
  <2>1. Running /\ ledger' = [ledger EXCEPT ![d] = Unopened]
    BY <1>8 DEF Close, SourceEvent
  <2>2. d # e
    <3>1. ASSUME d = e PROVE FALSE
      <4>1. \E outcome : req'[r] = Settled(req[r], outcome)
        BY <1>2, <1>3, <1>8, <2>1, <3>1 DEF Close
      <4> QED BY <1>4, <4>1
    <3> QED BY <3>1
  <2> QED BY <1>1, <2>1, <2>2 DEF TypeOK
<1>9. CASE ShutdownBegins
  <2>1. req'[r] = Settled(req[r], "closed")
    BY <1>9 DEF ShutdownBegins, Settle, Bound
  <2> QED BY <1>4, <2>1
<1> QED BY <1>5, <1>6, <1>7, <1>8, <1>9, LedgerSteps

\* The text a query is bound to stays the accepted one.
LEMMA QueriedTextStays ==
  ASSUME TypeInv, TextsInv, [Next]_vars, NEW r \in Requests,
         req[r].pc = "querying", QueryBound(r), req'[r] = req[r]
  PROVE  ledger'[req[r].doc].text = req[r].text
<1>1. /\ Bound(r) /\ req'[r].pc # "done"
      /\ project[req[r].ctx].docs[req[r].doc] # NoText /\ ledger[req[r].doc].text = req[r].text
  BY DEF QueryBound, Bound
<1> QED BY <1>1, BoundTextStays

-----------------------------------------------------------------------------
\* Answers: a worker is asked.

\* The worker of a committed project has, and will get, the documents of the project.
LEMMA CommittedTells ==
  ASSUME TypeOK, CommitInv, NEW c \in Contexts, NEW d \in Docs, NEW w \in Workers, w[1] = c,
         project[c].docs[d] # NoText, NEW a,
         \/ a = runtime[w].active \/ a = runtime[w].committed
         \/ a \in Messages(inbox[w]) /\ a.tag = "Analyze",
         a.gen = project[c].gen, a.gen # 0
  PROVE  a.sources[d] = project[c].docs[d]
<1>1. HasDocuments(project[c])
  BY DocumentIsOf DEF TypeOK
<1>2. Sent(project[c], a)
  BY DEF CommitInv, WorkOrdered, WorkOf, StateSent, BoxSent, Analyses, Messages
<1> QED BY <1>1, <1>2 DEF Sent

\* dispatch.
LEMMA DispatchTells ==
  ASSUME TypeInv, CommitInv, TextsInv, AnswersHeld, Running, UNCHANGED <<ledger, project>>,
         UNCHANGED <<runtime, outbox>>,
         NEW r \in Requests, NEW d \in Docs, NEW c \in Contexts, Dispatch(r, d, c),
         project[c].state = "Committed", project[c].docs[d] # NoText,
         req[r].pc \in {"idle", "woken"}
  PROVE  AnswersHeld'
<1> USE DEF TypeInv
<1> DEFINE w == SlotOf(c)
<1> DEFINE p == project[c]
<1> DEFINE query == [NewRequest EXCEPT !.pc = "querying", !.doc = d, !.ctx = c,
                                       !.version = ledger[d].version, !.text = ledger[d].text,
                                       !.gen = p.gen, !.epoch = p.slot]
<1> DEFINE none == Settled([req[r] EXCEPT !.doc = d], "unavailable")
<1>1. p \in ProjectRecord /\ p.gen \in Nat /\ p.gen # 0 /\ ~Lags(p)
  <2>1. p \in ProjectRecord
    BY DEF TypeOK
  <2> QED BY <2>1 DEF CommitInv, ContextsMatch, GenerationsMatch, Lags, ProjectRecord
<1>2. p.docs[d] = ledger[d].text
  BY <1>1, CommittedTexts
<1>3. /\ query.pc = "querying" /\ query.doc = d /\ query.ctx = c /\ query.text = ledger[d].text
      /\ query.gen = p.gen /\ query.epoch = p.slot /\ none.pc = "done"
  BY DEF NewRequest, Settled
<1>4. \/ req' = [req EXCEPT ![r] = none] /\ UNCHANGED inbox
      \/ /\ p.slot # 0 /\ Alive(w) /\ req' = [req EXCEPT ![r] = query]
         /\ inbox' = [inbox EXCEPT ![w] = Append(inbox[w], Query(p.gen, r, d))]
  BY DEF Dispatch, Send
<1> HIDE DEF query, none
<1>5. req'[r] \in {none, query} /\ \A s \in Requests : s # r => req'[s] = req[s]
  BY <1>4 DEF TypeOK
<1>6. CASE req' = [req EXCEPT ![r] = none] /\ UNCHANGED inbox
  <2>1. req'[r].pc = "done"
    BY <1>3, <1>6 DEF TypeOK
  <2>2. AnswerHeld(r)'
    BY <2>1 DEF AnswerHeld
  <2>3. ASSUME NEW s \in Requests, s # r PROVE AnswerHeld(s)'
    <3>1. AnswerHeld(s) /\ req'[s] = req[s]
      BY <1>5, <2>3 DEF AnswersHeld
    <3> QED BY <1>6, <3>1 DEF AnswerHeld, Untold, Told, QueryBound
  <2> QED BY <2>2, <2>3 DEF AnswersHeld
<1>7. CASE /\ p.slot # 0 /\ Alive(w) /\ req' = [req EXCEPT ![r] = query]
           /\ inbox' = [inbox EXCEPT ![w] = Append(inbox[w], Query(p.gen, r, d))]
  <2> DEFINE m == Query(p.gen, r, d)
  <2>1. m.tag = "Query" /\ m.gen = p.gen /\ m.req = r /\ m.doc = d
    BY DEF Query
  <2>2. PICK v \in Workers : v = w /\ v[1] = c /\ v = <<c, p.slot>>
    BY <1>1, <1>7, SlotType DEF SlotOf
  <2>3. inbox[v] \in Seq(HostMessage)
    BY <2>2 DEF TypeOK
  <2>4. /\ Messages(inbox'[v]) = Messages(inbox[v]) \cup {m}
        /\ \A u \in Workers : u # v => inbox'[u] = inbox[u]
    BY <1>7, <2>2, <2>3, MessagesOf DEF TypeOK
  <2> HIDE DEF m, w
  <2>5. req'[r] = query
    BY <1>7 DEF TypeOK
  <2>6. AnswerHeld(r)'
    <3>1. Untold(r, v)
      BY <2>2 DEF AnswersHeld, AnswerHeld
    <3>2. QueryBound(r)'
      BY <1>2, <1>3, <2>2, <2>5 DEF QueryBound
    <3>3. \A a : /\ \/ a = runtime[v].active \/ a = runtime[v].committed
                    \/ a \in Messages(inbox[v]) /\ a.tag = "Analyze"
                 /\ a.gen = p.gen
                 => a.sources[d] = ledger[d].text
      BY <1>1, <1>2, <2>2, CommittedTells
    <3>4. Told(r, v)'
      <4>1. req'[r].gen = p.gen /\ req'[r].doc = d /\ req'[r].text = ledger[d].text
        BY <1>3, <2>5
      <4>2. /\ runtime'[v].active.gen = p.gen =>
                 runtime'[v].active.sources[d] = ledger[d].text
            /\ runtime'[v].committed.gen = p.gen =>
                 runtime'[v].committed.sources[d] = ledger[d].text
        BY <3>3
      <4>3. \A a \in Messages(inbox'[v]) :
              /\ a.tag = "Analyze" /\ a.gen = p.gen => a.sources[d] = ledger[d].text
              /\ a.tag = "Query" /\ a.req = r /\ a.gen = p.gen => a.doc = d
        BY <2>1, <2>4, <3>1, <3>3 DEF Untold
      <4>4. /\ \A k \in runtime'[v].queries : k.req # r
            /\ \A a \in Messages(outbox'[v]) : a.tag = "Result" => a.req # r
        BY <3>1 DEF Untold
      <4> HIDE DEF p
      <4> QED BY <1>1, <4>1, <4>2, <4>3, <4>4 DEF Told
    <3>5. req'[r].pc = "querying" /\ <<req'[r].ctx, req'[r].epoch>> = v
      BY <1>3, <2>2, <2>5
    <3> QED BY <3>2, <3>4, <3>5 DEF AnswerHeld
  <2>7. ASSUME NEW s \in Requests, s # r PROVE AnswerHeld(s)'
    <3>1. req'[s] = req[s]
      BY <1>5, <2>7
    <3>2. ASSUME NEW u \in Workers PROVE /\ Untold(s, u) => Untold(s, u)'
                                         /\ Told(s, u) => Told(s, u)'
      <4>1. \A a \in Messages(inbox'[u]) : a \in Messages(inbox[u]) \/ a = m
        BY <2>4, <3>2
      <4> QED BY <2>1, <2>7, <3>1, <4>1 DEF Untold, Told
    <3> QED BY <3>1, <3>2 DEF AnswersHeld, AnswerHeld, QueryBound
  <2> QED BY <2>6, <2>7 DEF AnswersHeld
<1> QED BY <1>4, <1>6, <1>7

\* A request is refused, or waits, without a worker.
LEMMA UnaskedTells ==
  ASSUME TypeInv, AnswersHeld, UNCHANGED <<ledger, project, runtime, outbox, inbox>>,
         NEW r \in Requests, NEW q, req' = [req EXCEPT ![r] = q],
         \/ q.pc = "done"
         \/ q.pc \in {"discovering", "waiting"} /\ req[r].pc = "idle"
  PROVE  AnswersHeld'
<1>1. req'[r] = q /\ \A s \in Requests : s # r => req'[s] = req[s]
  BY DEF TypeInv, TypeOK
<1>2. AnswerHeld(r)'
  BY <1>1 DEF AnswersHeld, AnswerHeld, Untold
<1>3. ASSUME NEW s \in Requests, s # r PROVE AnswerHeld(s)'
  BY <1>1, <1>3 DEF AnswersHeld, AnswerHeld, Untold, Told, QueryBound
<1> QED BY <1>2, <1>3 DEF AnswersHeld

LEMMA AskTells ==
  ASSUME TypeInv, CommitInv, TextsInv, AnswersHeld, NEW r \in Requests, NEW d \in Docs, Ask(r, d)
  PROVE  AnswersHeld'
<1> USE DEF TypeInv
<1> DEFINE asked == [NewRequest EXCEPT !.doc = d, !.version = ledger[d].version,
                                       !.text = ledger[d].text]
<1> DEFINE finding == [asked EXCEPT !.pc = "discovering"]
<1> DEFINE waits == [asked EXCEPT !.pc = "waiting", !.gen = project[current].gen, !.ctx = current]
<1>1. /\ Running /\ UNCHANGED <<ledger, project, runtime, outbox>> /\ req[r].pc = "idle"
  BY DEF Ask, ClientStep, sourceVars, projectVars, threadVars
<1>2. /\ \A outcome : Settled(asked, outcome).pc = "done"
      /\ finding.pc = "discovering" /\ waits.pc = "waiting"
  BY DEF Settled, NewRequest
<1>3. \/ /\ current # 0 /\ project[current].docs[d] # NoText
         /\ project[current].state = "Committed" /\ Dispatch(r, d, current)
      \/ /\ UNCHANGED inbox
         /\ \/ \E outcome : req' = [req EXCEPT ![r] = Settled(asked, outcome)]
            \/ req' = [req EXCEPT ![r] = finding]
            \/ req' = [req EXCEPT ![r] = waits]
  BY DEF Ask, Associated
<1> HIDE DEF asked, finding, waits
<1>4. ASSUME UNCHANGED inbox,
             \/ \E outcome : req' = [req EXCEPT ![r] = Settled(asked, outcome)]
             \/ req' = [req EXCEPT ![r] = finding]
             \/ req' = [req EXCEPT ![r] = waits]
      PROVE  AnswersHeld'
  <2>1. \E q : /\ req' = [req EXCEPT ![r] = q]
               /\ q.pc = "done" \/ q.pc \in {"discovering", "waiting"}
    BY <1>2, <1>4
  <2> QED BY <1>1, <1>4, <2>1, UnaskedTells
<1>5. ASSUME current # 0, project[current].docs[d] # NoText,
             project[current].state = "Committed", Dispatch(r, d, current)
      PROVE  AnswersHeld'
  <2>1. current \in Contexts
    BY <1>5 DEF TypeOK
  <2> QED BY <1>1, <1>5, <2>1, DispatchTells
<1> QED BY <1>3, <1>4, <1>5

LEMMA ResumeTells ==
  ASSUME TypeInv, CommitInv, TextsInv, AnswersHeld, NEW r \in Requests, Resume(r)
  PROVE  AnswersHeld'
<1> USE DEF TypeInv
<1>1. /\ Running /\ UNCHANGED <<ledger, project, runtime, outbox>> /\ req[r].pc = "woken"
  BY DEF Resume, ClientStep, sourceVars, projectVars, threadVars
<1>2. req[r].ctx \in Contexts /\ req[r].doc \in Docs
  BY <1>1 DEF RequestsAreBound
<1>3. Settled(req[r], "superseded").pc = "done"
  BY DEF Settled, NewRequest
<1>4. CASE /\ ledger[req[r].doc].version = req[r].version
           /\ project[req[r].ctx].state = "Committed"
           /\ project[req[r].ctx].docs[req[r].doc] # NoText
  <2>1. Dispatch(r, req[r].doc, req[r].ctx)
    BY <1>4 DEF Resume
  <2> QED BY <1>1, <1>2, <1>4, <2>1, DispatchTells
<1>5. CASE ~(/\ ledger[req[r].doc].version = req[r].version
             /\ project[req[r].ctx].state = "Committed"
             /\ project[req[r].ctx].docs[req[r].doc] # NoText)
  <2>1. req' = [req EXCEPT ![r] = Settled(req[r], "superseded")] /\ UNCHANGED inbox
    BY <1>5 DEF Resume
  <2> QED BY <1>1, <1>3, <2>1, UnaskedTells
<1> QED BY <1>4, <1>5

-----------------------------------------------------------------------------
\* Answers: every other step.

LEMMA ReceivedResult ==
  ASSUME TypeInv, NEW w \in Workers, ReceiveResult(w)
  PROVE  \A r \in Requests :
           \/ req'[r] = req[r]
           \/ req'[r] = Settled(req[r], "unavailable")
           \/ /\ req[r].pc = "querying" /\ w = <<req[r].ctx, req[r].epoch>>
              /\ \E m \in Messages(outbox[w]) :
                   /\ m.tag = "Result" /\ m.req = r /\ m.gen = req[r].gen /\ m.text # NoText
                   /\ req'[r] = [Settled(req[r], "ready") EXCEPT !.text = m.text]
<1> DEFINE m == Head(outbox[w])
<1>1. m \in Messages(outbox[w]) /\ m.tag = "Result"
  <2>1. outbox[w] \in Seq(WorkerMessage \cup {Died})
    BY DEF TypeInv, TypeOK
  <2> QED BY <2>1, MessagesOf DEF ReceiveResult, Receive
<1>2. \/ UNCHANGED req
      \/ /\ m.req \in ProjectQueries(w[1]) /\ req[m.req].gen = m.gen /\ req[m.req].epoch = w[2]
         /\ \/ req' = [req EXCEPT ![m.req] = Settled(@, "unavailable")]
            \/ /\ m.text # NoText
               /\ req' = [req EXCEPT ![m.req] = [Settled(@, "ready") EXCEPT !.text = m.text]]
  BY DEF ReceiveResult
<1>3. w = <<w[1], w[2]>>
  BY DEF Workers
<1> HIDE DEF m
<1> QED BY <1>1, <1>2, <1>3 DEF ProjectQueries, TypeInv, TypeOK

\* What becomes of a request that is not asked and does not ask a worker.
LEMMA RequestGoesOn ==
  ASSUME WorkInv, TypeInv', [Next]_vars, NEW r \in Requests,
         ~\E s \in Requests : Resume(s) \/ \E d \in Docs : Ask(s, d)
  PROVE  /\ \/ req'[r] = req[r]
            \/ req'[r].pc = "done"
            \/ req[r].pc = "waiting" /\ req'[r].pc = "woken"
         /\ req[r].pc = "querying" /\ req'[r] = req[r] =>
              project'[req[r].ctx].docs = project[req[r].ctx].docs
<1>1. Served \/ \E w \in Workers : ReceiveResult(w)
  BY WorkStep DEF Exchange
<1>2. \A outcome : Settled(req[r], outcome).pc = "done"
  BY DEF Settled, NewRequest
<1>3. CASE Served
  <2>1. [req[r] EXCEPT !.pc = "woken"].pc = "woken"
    BY DEF WorkInv, TypeInv, TypeOK, RequestRecord
  <2>2. Progress(r) /\ (Bound(r) /\ req'[r] = req[r] => Undisturbed(r))
    BY <1>3 DEF Served
  <2>3. Refuses(r) => req'[r].pc = "done"
    BY <1>2 DEF Refuses
  <2>4. Wakes(r) => req[r].pc = "waiting" /\ req'[r].pc = "woken"
    BY <2>1 DEF Wakes
  <2> QED BY <2>2, <2>3, <2>4 DEF Progress, Bound, Undisturbed
<1>4. ASSUME NEW w \in Workers, ReceiveResult(w)
      PROVE  UNCHANGED project /\ (req'[r] = req[r] \/ req'[r].pc = "done")
  <2>1. UNCHANGED project
    BY <1>4, ExchangeRests DEF Exchange
  <2>2. \A text : [Settled(req[r], "ready") EXCEPT !.text = text].pc = "done"
    BY DEF Settled, NewRequest
  <2>3. \/ req'[r] = req[r]
        \/ req'[r] = Settled(req[r], "unavailable")
        \/ \E m : req'[r] = [Settled(req[r], "ready") EXCEPT !.text = m.text]
    BY <1>4, ReceivedResult DEF WorkInv
  <2> QED BY <1>2, <2>1, <2>2, <2>3
<1> QED BY <1>1, <1>3, <1>4

LEMMA StepTells ==
  ASSUME WorkInv, TypeInv', TextsInv, AnswersHeld, [Next]_vars
  PROVE  AnswersHeld'
<1> USE DEF WorkInv
<1>1. CASE \E r \in Requests : Resume(r) \/ \E d \in Docs : Ask(r, d)
  BY <1>1, ResumeTells, AskTells
<1>2. CASE ~\E r \in Requests : Resume(r) \/ \E d \in Docs : Ask(r, d)
  <2> SUFFICES ASSUME NEW r \in Requests PROVE AnswerHeld(r)'
    BY DEF AnswersHeld
  <2>1. Delivers
    BY <1>2, StepDelivers
  <2>2. AnswerHeld(r)
    BY DEF AnswersHeld
  <2>3. /\ \/ req'[r] = req[r]
           \/ req'[r].pc = "done"
           \/ req[r].pc = "waiting" /\ req'[r].pc = "woken"
        /\ req[r].pc = "querying" /\ req'[r] = req[r] =>
             project'[req[r].ctx].docs = project[req[r].ctx].docs
    BY <1>2, RequestGoesOn
  <2>4. \A w \in Workers : Untold(r, w) => Untold(r, w)'
    BY <2>1, HostTells, WorksTells DEF Delivers
  <2>5. ASSUME req[r].pc = "querying", req'[r] = req[r] PROVE AnswerHeld(r)'
    <3>1. PICK w \in Workers :
            /\ w = <<req[r].ctx, req[r].epoch>> /\ w[1] = req[r].ctx
            /\ QueryBound(r) /\ Told(r, w)
      BY <2>2, <2>5 DEF AnswerHeld, QueryBound
    <3>2. ledger'[req[r].doc].text = req[r].text
      BY <2>5, <3>1, QueriedTextStays
    <3>3. QueryBound(r)'
      BY <2>3, <2>5, <3>1, <3>2 DEF QueryBound
    <3>4. project[w[1]].docs[req[r].doc] = req[r].text
      BY <3>1 DEF QueryBound
    <3>5. Told(r, w)'
      <4>1. CASE HostSends /\ HostTakes
        BY <2>5, <3>1, <3>4, <4>1, HostTells
      <4>2. CASE UNCHANGED <<req, project, ledger>> /\ \A v \in Workers : Works(v)
        BY <3>1, <4>2, WorksTells
      <4> QED BY <2>1, <4>1, <4>2 DEF Delivers
    <3> QED BY <2>5, <3>1, <3>3, <3>5 DEF AnswerHeld
  <2> QED BY <2>2, <2>3, <2>4, <2>5 DEF AnswerHeld
<1> QED BY <1>1, <1>2

LEMMA InitAnswers ==
  ASSUME Init
  PROVE  AnswersHeld
<1>1. Messages(<<>>) = {}
  BY DEF Messages
<1>2. \A r \in Requests : req[r].pc = "idle" /\ \A w \in Workers : Untold(r, w)
  BY <1>1 DEF Init, NewRequest, Untold, Fresh
<1> QED BY <1>2 DEF AnswersHeld, AnswerHeld

\* Only a result answers a request, and with the text the request is bound to.
LEMMA AnsweredIsBound ==
  ASSUME WorkInv, TypeInv', AnswersHeld, [Next]_vars, NEW r \in Requests,
         req'[r].outcome = "ready", req[r].outcome # "ready"
  PROVE  /\ \E w \in Workers : ReceiveResult(w)
         /\ req[r].pc = "querying" /\ QueryBound(r) /\ req[r].doc \in Docs
         /\ req'[r] = [Settled(req[r], "ready") EXCEPT !.text = req[r].text]
<1> USE DEF WorkInv, TypeInv
<1>1. /\ \A q, outcome : Settled(q, outcome).outcome = outcome
      /\ \A outcome \in Refusals : outcome # "ready"
  BY DEF Settled, NewRequest, Refusals
<1>2. ASSUME Served PROVE FALSE
  <2>1. Progress(r)
    BY <1>2 DEF Served
  <2>2. ~Refuses(r)
    BY <1>1 DEF Refuses
  <2>3. [req[r] EXCEPT !.pc = "woken"].outcome = req[r].outcome
    BY DEF TypeOK, RequestRecord
  <2> QED BY <2>1, <2>2, <2>3 DEF Progress, Wakes
<1>3. ASSUME NEW s \in Requests, NEW q, req' = [req EXCEPT ![s] = q], q.outcome # "ready"
      PROVE  FALSE
  BY <1>3 DEF TypeOK
<1>4. ASSUME NEW s \in Requests, NEW d, NEW c, Dispatch(s, d, c) PROVE FALSE
  <2> DEFINE asks == [NewRequest EXCEPT !.pc = "querying", !.doc = d, !.ctx = c,
                        !.version = ledger[d].version, !.text = ledger[d].text,
                        !.gen = project[c].gen, !.epoch = project[c].slot]
  <2>1. \/ req' = [req EXCEPT ![s] = asks]
        \/ req' = [req EXCEPT ![s] = Settled([@ EXCEPT !.doc = d], "unavailable")]
    BY <1>4 DEF Dispatch
  <2>2. /\ asks.outcome # "ready"
        /\ Settled([req[s] EXCEPT !.doc = d], "unavailable").outcome # "ready"
    BY <1>1 DEF NewRequest
  <2> HIDE DEF asks
  <2> QED BY <1>3, <2>1, <2>2
<1>5. ASSUME NEW s \in Requests, Resume(s) PROVE FALSE
  <2>1. \/ \E d, c : Dispatch(s, d, c)
        \/ req' = [req EXCEPT ![s] = Settled(req[s], "superseded")]
    BY <1>5 DEF Resume
  <2>2. Settled(req[s], "superseded").outcome # "ready"
    BY <1>1
  <2> QED BY <1>3, <1>4, <2>1, <2>2
<1>6. ASSUME NEW s \in Requests, NEW d \in Docs, Ask(s, d) PROVE FALSE
  <2> DEFINE asked == [NewRequest EXCEPT !.doc = d, !.version = ledger[d].version,
                                         !.text = ledger[d].text]
  <2> DEFINE finding == [asked EXCEPT !.pc = "discovering"]
  <2> DEFINE waits == [asked EXCEPT !.pc = "waiting", !.gen = project[current].gen,
                                    !.ctx = current]
  <2>1. \/ Dispatch(s, d, current)
        \/ \E outcome \in {"closed", "analysisFailed"} :
             req' = [req EXCEPT ![s] = Settled(asked, outcome)]
        \/ req' = [req EXCEPT ![s] = finding]
        \/ req' = [req EXCEPT ![s] = waits]
    BY <1>6 DEF Ask
  <2>2. /\ finding.outcome # "ready" /\ waits.outcome # "ready"
        /\ \A outcome \in {"closed", "analysisFailed"} : Settled(asked, outcome).outcome # "ready"
    BY <1>1 DEF NewRequest
  <2> HIDE DEF asked, finding, waits
  <2> QED BY <1>3, <1>4, <2>1, <2>2
<1>7. PICK w \in Workers : ReceiveResult(w)
  BY <1>2, <1>5, <1>6, WorkStep DEF Exchange
<1>8. /\ req[r].pc = "querying" /\ w = <<req[r].ctx, req[r].epoch>>
      /\ \E m \in Messages(outbox[w]) :
           /\ m.tag = "Result" /\ m.req = r /\ m.gen = req[r].gen /\ m.text # NoText
           /\ req'[r] = [Settled(req[r], "ready") EXCEPT !.text = m.text]
  <2>1. req'[r] # req[r] /\ req'[r] # Settled(req[r], "unavailable")
    BY <1>1
  <2> QED BY <1>7, <2>1, ReceivedResult
<1>9. QueryBound(r) /\ Told(r, w)
  BY <1>8 DEF AnswersHeld, AnswerHeld
<1>10. \A m \in Messages(outbox[w]) :
        m.tag = "Result" /\ m.req = r /\ m.gen = req[r].gen /\ m.text # NoText =>
          m.text = req[r].text
  BY <1>9 DEF Told
<1> QED BY <1>7, <1>8, <1>9, <1>10 DEF RequestsAreBound

LEMMA AnsweredIsCurrent ==
  ASSUME WorkInv, TypeInv', AnswersHeld, [Next]_vars, NEW r \in Requests,
         req'[r].outcome = "ready", req[r].outcome # "ready"
  PROVE  req'[r].text = ledger[req[r].doc].text
<1>1. QueryBound(r) /\ req'[r] = [Settled(req[r], "ready") EXCEPT !.text = req[r].text]
  BY AnsweredIsBound
<1>2. [Settled(req[r], "ready") EXCEPT !.text = req[r].text].text = req[r].text
  BY DEF Settled, NewRequest
<1> QED BY <1>1, <1>2 DEF QueryBound

ServesInv == WorkInv /\ ServiceInv /\ AnswersHeld

LEMMA ServesKept ==
  ASSUME ServesInv, TypeInv', ServiceInv', [Next]_vars
  PROVE  ServesInv'
  BY WorkStep, StepTells DEF ServesInv, ServiceInv

LEMMA ServesHold == Spec /\ [][FoundIsUnrevised]_vars => []ServesInv
<1>1. Init /\ WorkInv /\ ServiceInv => ServesInv
  BY InitAnswers DEF ServesInv
<1>2. ServesInv /\ ServiceInv' /\ [Next]_vars => ServesInv'
  BY ServesKept DEF ServiceInv
<1> QED BY <1>1, <1>2, WorkHolds, ServiceHolds, PTL DEF Spec

\* A request is answered with the text that is accepted for its document at that
\* moment (requestCurrent, WorkspaceEngine.ts): whatever edits, commits, failures,
\* restarts and late results came between the question and the answer, unless a document
\* is revised between its own discovery and the end of its batch.
THEOREM AnswersCurrent == Spec /\ [][FoundIsUnrevised]_vars => AnswersAreCurrent
<1> DEFINE A == \A r \in Requests :
                  req'[r].outcome = "ready" /\ req[r].outcome # "ready" =>
                    req'[r].text = ledger[req[r].doc].text
<1>1. ServesInv /\ TypeInv' /\ [Next]_vars => A
  BY AnsweredIsCurrent DEF ServesInv
<1> QED BY <1>1, ServesHold, TypesKept, PTL DEF Spec, AnswersAreCurrent

\* With one document no batch has a rest, so the answer is always the accepted text.
THEOREM OneAnswerIsCurrent ==
  ASSUME OneDocument
  PROVE  Spec => AnswersAreCurrent
<1>1. Spec => [][FoundIsUnrevised]_vars
  BY OneIsNotFound
<1> QED BY <1>1, AnswersCurrent, PTL

-----------------------------------------------------------------------------
\* Refinement: what the requests are bound to.

\* Hypothesis on a step: a document is not opened again while a request for it, woken by
\* a commit, has not gone on.
NotReopened ==
  \A r \in Requests : \A d \in Docs :
    req[r].pc = "woken" /\ req[r].ctx = current /\ req[r].doc = d => IsOpen(d) \/ ~IsOpen(d)'

\* Hypothesis on a state: no query runs on a project whose failure is not finished.
RetriesFindNoQuery == \A f \in failing : ProjectQueries(f.worker[1]) = {}

\* A request that waits has the text its document still has; one that was woken has it,
\* or sees by the version that it has not; a query runs on a committed project.
Expects(r) ==
  LET q == req[r]
      document == ledger[q.doc]
  IN /\ q.pc \in {"waiting", "woken", "querying"} => q.ctx <= created
     /\ q.pc = "waiting" =>
          /\ project[q.ctx].docs[q.doc] # NoText
          /\ document.version = q.version /\ document.text = q.text
     /\ q.pc = "woken" /\ q.ctx = current =>
          \/ ~IsOpen(q.doc)
          \/ document.version > q.version
          \/ document.version = q.version /\ document.text = q.text
     /\ q.pc = "querying" => project[q.ctx].state = "Committed" /\ q.outcome = "none"

RequestsExpect == \A r \in Requests : Expects(r)

\* What a step does to a document.
LEMMA DocumentSteps ==
  ASSUME TypeOK, [Next]_vars, NEW d \in Docs
  PROVE  \/ ledger'[d] = ledger[d]
         \/ ~IsOpen(d)'
         \/ ~IsOpen(d) /\ IsOpen(d)'
         \/ ledger'[d].version = ledger[d].version + 1
<1>1. ASSUME NEW e \in Docs, Open(e) \/ ChangeAssociated(e) \/ ChangeUndiscovered(e) \/ Close(e)
      PROVE  \/ ledger'[d] = ledger[d]
             \/ ~IsOpen(d)'
             \/ ~IsOpen(d) /\ IsOpen(d)'
             \/ ledger'[d].version = ledger[d].version + 1
  <2> DEFINE edited == [ledger[e] EXCEPT !.version = @ + 1, !.text = events + 1]
  <2>1. \/ ledger' = [ledger EXCEPT ![e] = edited]
        \/ ledger' = [ledger EXCEPT ![e] = Unopened]
        \/ ~IsOpen(e) /\ \E v : ledger' = [ledger EXCEPT ![e] = v]
    <3>1. [ledger EXCEPT ![e] = [version |-> @.version + 1, text |-> events + 1]]
            = [ledger EXCEPT ![e] = edited]
      BY DEF TypeOK
    <3> HIDE DEF edited
    <3> QED BY <1>1, <3>1 DEF Open, ChangeAssociated, ChangeUndiscovered, Close
  <2>2. edited.version = ledger[e].version + 1
    BY DEF TypeOK
  <2> HIDE DEF edited
  <2> QED BY <2>1, <2>2 DEF TypeOK, IsOpen
<1>2. CASE ShutdownBegins
  BY <1>2 DEF ShutdownBegins, IsOpen
<1> QED BY <1>1, <1>2, LedgerSteps

\* A request that was not settled, asked or sent.
LEMMA ExpectsOn ==
  ASSUME WorkInv, TypeInv', TextsInv, Placed, [Next]_vars, NotReopened, RetriesFindNoQuery,
         NEW r \in Requests, Expects(r), Served \/ UNCHANGED project,
         req'[r] = req[r] \/ (Served /\ Wakes(r))
  PROVE  Expects(r)'
<1> USE DEF WorkInv, TypeInv
<1> DEFINE q == req[r]
<1> DEFINE c == q.ctx
<1>1. /\ q \in RequestRecord /\ created \in Nat /\ created' \in Nat /\ current \in Nat
      /\ created' >= created /\ c \in Nat /\ q.version \in Nat
  <2>1. /\ q \in RequestRecord /\ created \in {0} \cup Contexts /\ created' \in {0} \cup Contexts
        /\ current \in {0} \cup Contexts /\ created' >= created
    BY DEF TypeOK, Placed
  <2> QED BY <2>1, EngineAssumption DEF RequestRecord, Contexts
<1>2. ASSUME q.pc \in {"waiting", "woken", "querying"}
      PROVE  c \in Contexts /\ c # 0 /\ q.doc \in Docs /\ c <= created
  BY <1>2, EngineAssumption DEF RequestsAreBound, Contexts, Expects
<1>3. q.pc \in {"waiting", "woken", "querying"} => c <= created'
  BY <1>1, <1>2
<1>4. ASSUME q.pc = "waiting"
      PROVE  /\ ledger'[q.doc].version = q.version /\ ledger'[q.doc].text = q.text
             /\ req'[r] = q => project'[c].docs[q.doc] # NoText
  <2>1. /\ project[c].docs[q.doc] # NoText /\ ledger[q.doc].version = q.version
        /\ ledger[q.doc].text = q.text
    BY <1>4 DEF Expects
  <2>2. req'[r].pc # "done"
    <3>1. Wakes(r) => req'[r].pc = "woken"
      BY <1>1 DEF Wakes, RequestRecord
    <3> QED BY <1>4, <3>1
  <2>3. ledger'[q.doc] = ledger[q.doc]
    BY <1>4, <2>1, <2>2, BoundTextStays DEF Bound
  <2>4. req'[r] = q => project'[c].docs = project[c].docs
    BY <1>4 DEF Served, Bound, Undisturbed
  <2> QED BY <2>1, <2>3, <2>4
<1>5. CASE req'[r] = q
  <2>1. ASSUME q.pc = "woken", c = current', NEW d \in Docs, q.doc = d
        PROVE  \/ ~IsOpen(d)'
               \/ ledger'[d].version > q.version
               \/ ledger'[d].version = q.version /\ ledger'[d].text = q.text
    <3>1. c = current
      BY <1>1, <1>2, <2>1 DEF Placed
    <3>2. \/ ~IsOpen(d)
          \/ ledger[d].version > q.version
          \/ ledger[d].version = q.version /\ ledger[d].text = q.text
      BY <2>1, <3>1 DEF Expects
    <3>3. ledger[d].version \in Nat /\ ledger'[d].version \in Nat
      BY DEF TypeOK
    <3>4. ~IsOpen(d) => ~IsOpen(d)'
      BY <2>1, <3>1 DEF NotReopened
    <3>5. \/ ledger'[d] = ledger[d]
          \/ ~IsOpen(d)'
          \/ ledger'[d].version = ledger[d].version + 1
      BY <3>4, DocumentSteps
    <3> HIDE DEF q
    <3> QED BY <1>1, <3>2, <3>3, <3>4, <3>5
  <2>2. ASSUME q.pc = "querying" PROVE project'[c].state = "Committed"
    <3>1. project[c].state = "Committed"
      BY <2>2 DEF Expects
    <3>2. c \notin Failing
      BY <2>2 DEF Failing, RetriesFindNoQuery, ProjectQueries
    <3>3. CASE Served
      <4>1. Undisturbed(r)
        BY <1>5, <2>2, <3>3 DEF Served, Bound
      <4> QED BY <3>1, <3>2, <4>1 DEF Undisturbed, Commits
    <3> QED BY <3>1, <3>3
  <2>3. q.pc = "woken" => q.doc \in Docs
    BY <1>2
  <2>4. \A d \in Docs : q.pc = "woken" /\ c = current' /\ q.doc = d =>
          \/ ~IsOpen(d)'
          \/ ledger'[d].version > q.version
          \/ ledger'[d].version = q.version /\ ledger'[d].text = q.text
    BY <2>1
  <2> QED BY <1>3, <1>4, <1>5, <2>2, <2>3, <2>4 DEF Expects, IsOpen
<1>6. CASE Served /\ Wakes(r)
  <2>1. /\ q.pc = "waiting" /\ req'[r].pc = "woken" /\ req'[r].ctx = c /\ req'[r].doc = q.doc
        /\ req'[r].version = q.version /\ req'[r].text = q.text
    BY <1>1, <1>6 DEF Wakes, RequestRecord
  <2> QED BY <1>3, <1>4, <2>1 DEF Expects
<1> QED BY <1>5, <1>6

\* dispatch, as seen from the requests.
LEMMA Dispatched ==
  ASSUME TypeOK, NEW r \in Requests, NEW d, NEW c, Dispatch(r, d, c)
  PROVE  /\ \A s \in Requests : s # r => req'[s] = req[s]
         /\ \/ /\ req'[r].pc = "done" /\ req'[r].doc = d /\ req'[r].outcome = "unavailable"
               /\ req'[r].text = NoText
            \/ /\ req'[r].pc = "querying" /\ req'[r].doc = d /\ req'[r].ctx = c
               /\ req'[r].text = ledger[d].text /\ req'[r].outcome = "none"
<1> DEFINE query == [NewRequest EXCEPT !.pc = "querying", !.doc = d, !.ctx = c,
                       !.version = ledger[d].version, !.text = ledger[d].text,
                       !.gen = project[c].gen, !.epoch = project[c].slot]
<1> DEFINE none == Settled([req[r] EXCEPT !.doc = d], "unavailable")
<1>1. req' = [req EXCEPT ![r] = query] \/ req' = [req EXCEPT ![r] = none]
  BY DEF Dispatch
<1>2. /\ query.pc = "querying" /\ query.doc = d /\ query.ctx = c /\ query.text = ledger[d].text
      /\ query.outcome = "none"
  BY DEF NewRequest
<1>3. none.pc = "done" /\ none.outcome = "unavailable" /\ none.doc = d /\ none.text = NoText
  BY DEF TypeOK, RequestRecord, Settled, NewRequest
<1> HIDE DEF query, none
<1> QED BY <1>1, <1>2, <1>3 DEF TypeOK

LEMMA DispatchExpects ==
  ASSUME TypeOK, NEW r \in Requests, NEW d, NEW c, Dispatch(r, d, c),
         UNCHANGED <<project, created>>, project[c].state = "Committed", c <= created
  PROVE  Expects(r)'
<1>1. \/ req'[r].pc = "done"
      \/ req'[r].pc = "querying" /\ req'[r].ctx = c /\ req'[r].outcome = "none"
  BY Dispatched
<1> QED BY <1>1 DEF Expects

LEMMA AskedExpects ==
  ASSUME TypeInv, CommitInv, NEW r \in Requests, NEW d \in Docs, Ask(r, d)
  PROVE  Expects(r)' /\ \A s \in Requests : s # r => req'[s] = req[s]
<1> USE DEF TypeInv
<1> DEFINE asked == [NewRequest EXCEPT !.doc = d, !.version = ledger[d].version,
                                       !.text = ledger[d].text]
<1> DEFINE finding == [asked EXCEPT !.pc = "discovering"]
<1> DEFINE waits == [asked EXCEPT !.pc = "waiting", !.gen = project[current].gen, !.ctx = current]
<1>1. UNCHANGED <<ledger, project, current, created>> /\ current <= created
  BY DEF Ask, ClientStep, sourceVars, projectVars, CommitInv, CurrentInv
<1>2. /\ \A outcome : Settled(asked, outcome).pc = "done"
      /\ finding.pc = "discovering"
      /\ waits.pc = "waiting" /\ waits.doc = d /\ waits.ctx = current
      /\ waits.version = ledger[d].version /\ waits.text = ledger[d].text
  BY DEF Settled, NewRequest
<1>3. \/ project[current].state = "Committed" /\ Dispatch(r, d, current)
      \/ \E q : /\ req' = [req EXCEPT ![r] = q]
                /\ \/ q.pc \in {"done", "discovering"}
                   \/ project[current].docs[d] # NoText /\ q = waits
  <2>1. \/ project[current].state = "Committed" /\ Dispatch(r, d, current)
        \/ \E outcome : req' = [req EXCEPT ![r] = Settled(asked, outcome)]
        \/ req' = [req EXCEPT ![r] = finding]
        \/ project[current].docs[d] # NoText /\ req' = [req EXCEPT ![r] = waits]
    BY DEF Ask, Associated
  <2> HIDE DEF asked, finding, waits
  <2> QED BY <1>2, <2>1
<1> HIDE DEF waits
<1>4. CASE project[current].state = "Committed" /\ Dispatch(r, d, current)
  BY <1>1, <1>4, Dispatched, DispatchExpects
<1>5. ASSUME NEW q, req' = [req EXCEPT ![r] = q],
             \/ q.pc \in {"done", "discovering"}
             \/ project[current].docs[d] # NoText /\ q = waits
      PROVE  Expects(r)' /\ \A s \in Requests : s # r => req'[s] = req[s]
  <2>1. req'[r] = q /\ \A s \in Requests : s # r => req'[s] = req[s]
    BY <1>5 DEF TypeOK
  <2>2. Expects(r)'
    BY <1>1, <1>2, <1>5, <2>1 DEF Expects
  <2> QED BY <2>1, <2>2
<1> QED BY <1>3, <1>4, <1>5

LEMMA ResumedExpects ==
  ASSUME TypeInv, NEW r \in Requests, Resume(r), Expects(r)
  PROVE  Expects(r)' /\ \A s \in Requests : s # r => req'[s] = req[s]
<1> USE DEF TypeInv
<1>1. /\ UNCHANGED <<project, created>>
      /\ req[r].pc = "woken"
  BY DEF Resume, ClientStep, projectVars
<1>2. \/ /\ project[req[r].ctx].state = "Committed"
         /\ Dispatch(r, req[r].doc, req[r].ctx)
      \/ req' = [req EXCEPT ![r] = Settled(req[r], "superseded")]
  BY DEF Resume
<1>3. CASE req' = [req EXCEPT ![r] = Settled(req[r], "superseded")]
  <2>1. req'[r].pc = "done" /\ \A s \in Requests : s # r => req'[s] = req[s]
    BY <1>3 DEF TypeOK, Settled, NewRequest
  <2>2. Expects(r)'
    BY <2>1 DEF Expects
  <2> QED BY <2>1, <2>2
<1>4. CASE project[req[r].ctx].state = "Committed" /\ Dispatch(r, req[r].doc, req[r].ctx)
  <2>1. req[r].ctx <= created
    BY <1>1 DEF Expects
  <2> QED BY <1>1, <1>4, <2>1, Dispatched, DispatchExpects
<1> QED BY <1>2, <1>3, <1>4

LEMMA ExpectsKept ==
  ASSUME WorkInv, TypeInv', TextsInv, [Next]_vars, NotReopened, RetriesFindNoQuery,
         RequestsExpect
  PROVE  RequestsExpect'
<1> USE DEF WorkInv
<1>1. Placed
  BY StepPlaced
<1> SUFFICES ASSUME NEW r \in Requests PROVE Expects(r)'
  BY DEF RequestsExpect
<1>2. Expects(r)
  BY DEF RequestsExpect
<1>3. ASSUME req'[r].pc = "done" PROVE Expects(r)'
  BY <1>3 DEF Expects
<1>4. \A q, outcome : Settled(q, outcome).pc = "done"
  BY DEF Settled, NewRequest
<1>5. CASE Served
  <2>1. req'[r] = req[r] \/ Refuses(r) \/ Wakes(r)
    BY <1>5 DEF Served, Progress
  <2>2. Refuses(r) => req'[r].pc = "done"
    BY <1>4 DEF Refuses
  <2> QED BY <1>1, <1>2, <1>3, <1>5, <2>1, <2>2, ExpectsOn
<1>6. CASE Exchange
  <2>1. UNCHANGED project
    BY <1>6, ExchangeRests
  <2>2. ASSUME req'[r] = req[r] PROVE Expects(r)'
    BY <1>1, <1>2, <2>1, <2>2, ExpectsOn
  <2>3. ASSUME NEW s \in Requests, Resume(s) PROVE Expects(r)'
    <3>1. Expects(s)
      BY DEF RequestsExpect
    <3> QED BY <2>2, <2>3, <3>1, ResumedExpects
  <2>4. ASSUME NEW s \in Requests, NEW d \in Docs, Ask(s, d) PROVE Expects(r)'
    BY <2>2, <2>4, AskedExpects
  <2>5. ASSUME NEW w \in Workers, ReceiveResult(w) PROVE Expects(r)'
    <3>1. \/ req'[r] = req[r]
          \/ req'[r] = Settled(req[r], "unavailable")
          \/ \E m : req'[r] = [Settled(req[r], "ready") EXCEPT !.text = m.text]
      BY <2>5, ReceivedResult
    <3>2. ASSUME NEW m, req'[r] = [Settled(req[r], "ready") EXCEPT !.text = m.text]
          PROVE  req'[r].pc = "done"
      BY <3>2 DEF Settled, NewRequest
    <3>3. req'[r] = Settled(req[r], "unavailable") => req'[r].pc = "done"
      BY DEF Settled, NewRequest
    <3> QED BY <1>3, <2>2, <3>1, <3>2, <3>3
  <2> QED BY <1>6, <2>3, <2>4, <2>5 DEF Exchange
<1> QED BY <1>5, <1>6, WorkStep

-----------------------------------------------------------------------------
\* Refinement: the accepted texts, the view and the answers.

View == IF CurrentState("Committed") THEN project[current].docs ELSE NoSources
Texts == [d \in Docs |-> ledger[d].text]
AnswerTo(r) == AnswerOf(req[r])
Refusal(r) == AnswerTo(r).state = "waiting" /\ AnswerTo(r)' = Service!Refused(AnswerTo(r).doc)

LEMMA SomeRefused ==
  ASSUME \A r \in Requests : AnswerTo(r)' = AnswerTo(r) \/ Refusal(r)
  PROVE  Service!RefuseSome
<1> DEFINE answers == [r \in Requests |-> AnswerTo(r)]
<1> DEFINE given == {r \in Requests : Refusal(r)}
<1>1. given \in SUBSET {r \in Requests : answers[r].state = "waiting"}
  BY DEF Refusal
<1>2. answers' = [r \in Requests |->
                    IF r \in given THEN Service!Refused(answers[r].doc) ELSE answers[r]]
  BY DEF Refusal
<1>3. \E S \in SUBSET {r \in Requests : answers[r].state = "waiting"} :
        answers' = [r \in Requests |->
                      IF r \in S THEN Service!Refused(answers[r].doc) ELSE answers[r]]
  <2> HIDE DEF answers, given
  <2> QED BY <1>1, <1>2
<1> QED BY <1>3 DEF Service!RefuseSome, AnswerTo

\* A step that publishes nothing and answers no request: the view survives the
\* revision of documents it does not have, or is withdrawn.
LEMMA RefinesRefusals ==
  ASSUME \A r \in Requests : AnswerTo(r)' = AnswerTo(r) \/ Refusal(r),
         View' = NoSources \/ View' = View,
         Texts' = Texts \/ Texts' \in [Docs -> Nat],
         View' = NoSources \/ \A d \in Docs : Texts'[d] # Texts[d] => View[d] = NoText
  PROVE  Service!Next
<1>1. Service!RefuseSome
  BY SomeRefused
<1>2. CASE Texts' # Texts
  <2>1. Service!Kept \/ View' = NoSources
    BY <1>2 DEF Service!Kept, View, Texts, NoText, Service!NoText
  <2>2. Service!Revise
    BY <1>1, <1>2, <2>1 DEF Service!Revise, Service!NoView, Service!NoText, NoText, NoSources,
                            Service!Snapshot, View, Texts
  <2> QED BY <2>2 DEF Service!Next
<1>3. CASE Texts' = Texts /\ View' = View
  <2>1. Service!Refuse
    BY <1>1, <1>3 DEF Service!Refuse, View, Texts
  <2> QED BY <2>1 DEF Service!Next
<1>4. CASE Texts' = Texts /\ View' = NoSources
  <2>1. Service!Withdraw
    BY <1>1, <1>4 DEF Service!Withdraw, Service!NoView, Service!NoText, NoText, NoSources, View,
                      Texts
  <2> QED BY <2>1 DEF Service!Next
<1> QED BY <1>2, <1>3, <1>4

\* How a settled request was answered.
LEMMA SettledAnswers ==
  ASSUME NEW q, NEW outcome, outcome # "ready"
  PROVE  AnswerOf(Settled(q, outcome)) = Service!Refused(q.doc)
  BY DEF AnswerOf, Settled, NewRequest, Service!Refused, NoText, Service!NoText

LEMMA UnavailableAnswers ==
  ASSUME NEW q, q.pc = "done", q.outcome = "unavailable", q.text = NoText
  PROVE  AnswerOf(q) = Service!Refused(q.doc)
  BY DEF AnswerOf, Service!Refused, NoText, Service!NoText

LEMMA WaitingAnswers ==
  ASSUME NEW q, q.pc \in {"discovering", "waiting", "woken", "querying"}
  PROVE  AnswerOf(q) = Service!Waiting(q.doc, q.text)
  BY DEF AnswerOf, Service!Waiting

\* A step that serves the requests answers none.
LEMMA ServedAnswers ==
  ASSUME TypeOK, Served, NEW r \in Requests
  PROVE  AnswerTo(r)' = AnswerTo(r) \/ Refusal(r)
<1>1. Progress(r)
  BY DEF Served
<1>2. CASE req'[r] = req[r]
  BY <1>2 DEF AnswerTo, AnswerOf
<1>3. CASE Refuses(r)
  <2>1. PICK outcome \in Refusals : req'[r] = Settled(req[r], outcome)
    BY <1>3 DEF Refuses
  <2>2. outcome # "ready"
    BY DEF Refusals
  <2>3. AnswerOf(req'[r]) = Service!Refused(req[r].doc)
    BY <2>1, <2>2, SettledAnswers
  <2>4. AnswerOf(req[r]) = Service!Waiting(req[r].doc, req[r].text)
    BY <1>3, WaitingAnswers DEF Refuses
  <2> QED BY <2>3, <2>4 DEF Refusal, AnswerTo, Service!Waiting
<1>4. CASE Wakes(r)
  <2>1. /\ req[r].pc = "waiting" /\ req'[r].pc = "woken"
        /\ req'[r].doc = req[r].doc /\ req'[r].text = req[r].text
    BY <1>4 DEF Wakes, TypeOK, RequestRecord
  <2>2. AnswerOf(req'[r]) = AnswerOf(req[r])
    BY <2>1, WaitingAnswers
  <2> QED BY <2>2 DEF AnswerTo
<1> QED BY <1>1, <1>2, <1>3, <1>4 DEF Progress

\* What a step does to the view: it is withdrawn, it stays, or a commit makes one.
LEMMA ViewSteps ==
  ASSUME WorkInv, WorkInv', TextsInv, ContextsMove, Placed
  PROVE  \/ View' = NoSources
         \/ View' = View
         \/ /\ View = NoSources /\ current' = current /\ current \in Contexts
            /\ Commits(project[current], project'[current])
            /\ View' = project[current].docs /\ View' # NoSources
<1> SUFFICES ASSUME View' # NoSources
             PROVE  \/ View' = View
                    \/ /\ View = NoSources /\ current' = current /\ current \in Contexts
                       /\ Commits(project[current], project'[current])
                       /\ View' = project[current].docs
  OBVIOUS
<1>1. PICK c \in Contexts :
        /\ c = current' /\ c # 0 /\ project'[c].state = "Committed" /\ View' = project'[c].docs
  BY DEF View, CurrentState, WorkInv, TypeInv, TypeOK
<1>2. Move(c, project[c], project'[c])
  BY DEF ContextsMove
<1>3. \/ SameWork(project[c], project'[c])
      \/ Commits(project[c], project'[c])
  BY <1>1, <1>2 DEF Move, Rests, Reschedules, Starts, Fails, Retries, GivesUp, Asks, Closes
<1>4. project'[c].docs = project[c].docs
  BY <1>3 DEF SameWork, Commits
<1>5. c = current
  <2>1. HasDocuments(project'[c])
    BY <1>1 DEF WorkInv, CommitInv, CurrentInv
  <2>2. ASSUME Running, c > created PROVE FALSE
    <3>1. c = current
      BY <1>4, <2>1, <2>2 DEF TextsInv, OnlyCurrentHasDocuments, HasDocuments
    <3>2. current <= created /\ current \in Nat /\ created \in Nat
      BY EngineAssumption DEF WorkInv, TypeInv, TypeOK, Contexts, CommitInv, CurrentInv
    <3> QED BY <2>2, <3>1, <3>2
  <2> QED BY <1>1, <2>2 DEF Placed
<1>6. CASE SameWork(project[c], project'[c])
  BY <1>1, <1>4, <1>5, <1>6 DEF SameWork, View, CurrentState
<1>7. CASE Commits(project[c], project'[c])
  <2>1. project[c].state # "Committed"
    BY <1>7 DEF Commits, WorkInv, CommitInv, ContextsMatch, GenerationsMatch
  <2>2. View = NoSources
    BY <1>5, <2>1 DEF View, CurrentState
  <2> QED BY <1>1, <1>4, <1>5, <1>7, <2>2
<1> QED BY <1>3, <1>6, <1>7

\* A document in the view is as it was last accepted.
ViewIsAccepted == \A d \in Docs : View[d] # NoText => View[d] = ledger[d].text

LEMMA ViewIsNewest == TypeOK /\ TextsInv /\ Running => ViewIsAccepted
<1> SUFFICES ASSUME TypeOK, TextsInv, Running, NEW d \in Docs, View[d] # NoText
             PROVE  View[d] = ledger[d].text
  BY DEF ViewIsAccepted
<1>1. /\ current \in Contexts /\ project[current].state = "Committed"
      /\ View = project[current].docs
  BY DEF View, CurrentState, NoSources, TypeOK
<1> QED BY <1>1, CommittedTexts DEF Lags

\* A revision leaves nothing in the view that is not accepted any more.
LEMMA RevisedIsNotViewed ==
  ASSUME WorkInv, WorkInv', TextsInv, TextsInv', [Next]_vars, View' = View,
         NEW d \in Docs, ledger'[d].text # ledger[d].text
  PROVE  View' = NoSources \/ View[d] = NoText
<1> USE DEF WorkInv, TypeInv
<1>1. \/ \E e \in Docs : Open(e) \/ ChangeAssociated(e) \/ ChangeUndiscovered(e) \/ Close(e)
      \/ ShutdownBegins
  BY LedgerSteps
<1>2. CASE ShutdownBegins
  <2>1. CASE current = 0
    BY <1>2, <2>1 DEF ShutdownBegins, View, CurrentState
  <2>2. CASE current # 0
    <3> DEFINE closed == [Retired(project[current]) EXCEPT !.state = "Closed"]
    <3>1. /\ project' = [project EXCEPT ![current] = closed] /\ current' = current
          /\ current \in Contexts /\ project[current] \in ProjectRecord
      BY <1>2, <2>2 DEF ShutdownBegins, TypeOK
    <3>2. closed.state = "Closed"
      BY <3>1 DEF Retired, ProjectRecord
    <3> HIDE DEF closed
    <3> QED BY <3>1, <3>2 DEF View, CurrentState, TypeOK
  <2> QED BY <2>1, <2>2
<1>3. CASE \E e \in Docs : Open(e) \/ ChangeAssociated(e) \/ ChangeUndiscovered(e) \/ Close(e)
  <2>1. Running /\ Running'
    BY <1>3 DEF Open, ChangeAssociated, ChangeUndiscovered, Close, SourceEvent, Running
  <2>2. ViewIsAccepted
    BY <2>1, ViewIsNewest
  <2>3. (TypeOK /\ TextsInv /\ Running => ViewIsAccepted)'
    BY ViewIsNewest, PTL
  <2> QED BY <2>1, <2>2, <2>3 DEF ViewIsAccepted
<1> QED BY <1>1, <1>2, <1>3

-----------------------------------------------------------------------------
\* Refinement: the steps.

LEMMA TextsOf ==
  ASSUME TypeOK
  PROVE  Texts \in [Docs -> Nat] /\ \A d \in Docs : Texts[d] = ledger[d].text
  BY DEF TypeOK, Texts

\* A commit publishes the documents of the project.
LEMMA CommitRefines ==
  ASSUME WorkInv, WorkInv', TextsInv, NEW w \in Workers, ReceiveCommit(w),
         View = NoSources, current \in Contexts, project[current].active = project[current].gen,
         View' = project[current].docs, View' # NoSources
  PROVE  Service!Next
<1> USE DEF WorkInv, TypeInv
<1>1. Running /\ UNCHANGED ledger
  BY DEF ReceiveCommit, Receive, sourceVars
<1>2. \A r \in Requests : AnswerTo(r)' = AnswerTo(r)
  <2> SUFFICES ASSUME NEW r \in Requests PROVE AnswerOf(req'[r]) = AnswerOf(req[r])
    BY DEF AnswerTo
  <2>1. \/ req'[r] = req[r]
        \/ req[r].pc = "waiting" /\ req'[r] = [req[r] EXCEPT !.pc = "woken"]
    BY DEF ReceiveCommit, ProjectWaiters
  <2>2. ASSUME req[r].pc = "waiting", req'[r] = [req[r] EXCEPT !.pc = "woken"]
        PROVE  AnswerOf(req'[r]) = AnswerOf(req[r])
    <3>1. /\ req[r].pc = "waiting" /\ req'[r].pc = "woken"
          /\ req'[r].doc = req[r].doc /\ req'[r].text = req[r].text
      BY <2>2 DEF TypeOK, RequestRecord
    <3> QED BY <3>1, WaitingAnswers
  <2> QED BY <2>1, <2>2
<1>3. ~Lags(project[current]) /\ project[current].docs \in Snapshot
  BY DEF Lags, TypeOK, ProjectRecord
<1>4. \A d \in Docs : project[current].docs[d] \in {NoText, ledger[d].text}
  BY <1>1, <1>3, CommittedTexts
<1>5. View' \in {v \in Service!Snapshot \ {NoSources} :
                   \A d \in Docs : v[d] \in {NoText, Texts[d]}}
  BY <1>3, <1>4 DEF Snapshot, Service!Snapshot, Service!NoText, NoText, Texts
<1>6. Service!Publish
  BY <1>1, <1>2, <1>5 DEF Service!Publish, Service!Published, Service!NoView, Service!NoText,
                          NoText, NoSources, View, Texts, AnswerTo
<1> QED BY <1>6 DEF Service!Next

\* A step that neither asks nor answers.
LEMMA ServedRefines ==
  ASSUME ServesInv, ServesInv', [Next]_vars, Served
  PROVE  Service!Next
<1> USE DEF ServesInv, ServiceInv, WorkInv, TypeInv
<1>1. ContextsMove /\ Placed
  BY WorkStep, StepPlaced
<1>2. \A r \in Requests : AnswerTo(r)' = AnswerTo(r) \/ Refusal(r)
  BY ServedAnswers
<1>3. Texts' \in [Docs -> Nat] /\ \A d \in Docs : Texts'[d] = ledger'[d].text
  BY DEF TypeOK, Texts
<1>4. ASSUME View' = NoSources \/ View' = View PROVE Service!Next
  <2>1. View' = NoSources \/ \A d \in Docs : Texts'[d] # Texts[d] => View[d] = NoText
    BY <1>3, <1>4, RevisedIsNotViewed, TextsOf
  <2> QED BY <1>2, <1>3, <1>4, <2>1, RefinesRefusals
<1>5. CASE /\ View = NoSources /\ current' = current /\ current \in Contexts
           /\ Commits(project[current], project'[current])
           /\ View' = project[current].docs /\ View' # NoSources
  BY <1>5, CommitRefines DEF Commits
<1> QED BY <1>1, <1>4, <1>5, ViewSteps

\* One request changes.
LEMMA OneRefused ==
  ASSUME UNCHANGED <<ledger, project, current>>, NEW r \in Requests,
         \A s \in Requests : s # r => req'[s] = req[s],
         AnswerTo(r)' = AnswerTo(r) \/ Refusal(r)
  PROVE  Service!Next
<1>1. View' = View /\ Texts' = Texts
  BY DEF View, CurrentState, Texts
<1>2. \A s \in Requests : AnswerTo(s)' = AnswerTo(s) \/ Refusal(s)
  BY DEF AnswerTo
<1>3. View' = NoSources \/ \A d \in Docs : Texts'[d] # Texts[d] => View[d] = NoText
  BY <1>1
<1> QED BY <1>1, <1>2, <1>3, RefinesRefusals

\* A request is asked: it is bound to the accepted text of its document, or refused.
LEMMA AskRefines ==
  ASSUME TypeOK, NEW r \in Requests, NEW d \in Docs, Ask(r, d)
  PROVE  Service!Next
<1> DEFINE asked == [NewRequest EXCEPT !.doc = d, !.version = ledger[d].version,
                                       !.text = ledger[d].text]
<1> DEFINE finding == [asked EXCEPT !.pc = "discovering"]
<1> DEFINE waits == [asked EXCEPT !.pc = "waiting", !.gen = project[current].gen, !.ctx = current]
<1> DEFINE answers == [s \in Requests |-> AnswerTo(s)]
<1>1. UNCHANGED <<ledger, project, current>> /\ req[r].pc = "idle"
  BY DEF Ask, ClientStep, sourceVars, projectVars
<1>2. /\ asked.doc = d
      /\ finding.pc = "discovering" /\ finding.doc = d /\ finding.text = ledger[d].text
      /\ waits.pc = "waiting" /\ waits.doc = d /\ waits.text = ledger[d].text
  BY DEF NewRequest
<1>3. \/ Dispatch(r, d, current)
      \/ \E outcome \in {"closed", "analysisFailed"} :
           req' = [req EXCEPT ![r] = Settled(asked, outcome)]
      \/ req' = [req EXCEPT ![r] = finding]
      \/ req' = [req EXCEPT ![r] = waits]
  BY DEF Ask
<1> HIDE DEF asked, finding, waits
<1>4. /\ \A s \in Requests : s # r => req'[s] = req[s]
      /\ AnswerOf(req'[r]) \in {Service!Refused(d), Service!Waiting(d, ledger[d].text)}
  <2>1. CASE Dispatch(r, d, current)
    <3>1. /\ \A s \in Requests : s # r => req'[s] = req[s]
          /\ \/ /\ req'[r].pc = "done" /\ req'[r].doc = d /\ req'[r].outcome = "unavailable"
                /\ req'[r].text = NoText
             \/ req'[r].pc = "querying" /\ req'[r].doc = d /\ req'[r].text = ledger[d].text
      BY <2>1, Dispatched
    <3>2. req'[r].pc = "querying" =>
            AnswerOf(req'[r]) = Service!Waiting(req'[r].doc, req'[r].text)
      BY WaitingAnswers
    <3>3. \A q : q.pc = "done" /\ q.outcome = "unavailable" /\ q.text = NoText =>
            AnswerOf(q) = Service!Refused(q.doc)
      BY UnavailableAnswers
    <3> QED BY <3>1, <3>2, <3>3
  <2>2. ASSUME NEW outcome \in {"closed", "analysisFailed"},
               req' = [req EXCEPT ![r] = Settled(asked, outcome)]
        PROVE  /\ \A s \in Requests : s # r => req'[s] = req[s]
               /\ AnswerOf(req'[r]) = Service!Refused(d)
    <3>1. req'[r] = Settled(asked, outcome) /\ \A s \in Requests : s # r => req'[s] = req[s]
      BY <2>2 DEF TypeOK
    <3> QED BY <1>2, <3>1, SettledAnswers
  <2>3. ASSUME NEW q, req' = [req EXCEPT ![r] = q], q = finding \/ q = waits
        PROVE  /\ \A s \in Requests : s # r => req'[s] = req[s]
               /\ AnswerOf(req'[r]) = Service!Waiting(d, ledger[d].text)
    <3>1. req'[r] = q /\ \A s \in Requests : s # r => req'[s] = req[s]
      BY <2>3 DEF TypeOK
    <3>2. q.pc \in {"discovering", "waiting"} /\ q.doc = d /\ q.text = ledger[d].text
      BY <1>2, <2>3
    <3> QED BY <3>1, <3>2, WaitingAnswers
  <2> QED BY <1>3, <2>1, <2>2, <2>3
<1>5. answers[r].state = "notAsked"
  BY <1>1 DEF AnswerTo, AnswerOf
<1>6. \/ answers' = [answers EXCEPT ![r] = Service!Waiting(d, Texts[d])]
      \/ answers' = [answers EXCEPT ![r] = Service!Refused(d)]
  <2>1. AnswerTo(r)' \in {Service!Refused(d), Service!Waiting(d, ledger[d].text)}
    BY <1>4 DEF AnswerTo
  <2>2. \A s \in Requests : s # r => AnswerTo(s)' = AnswerTo(s)
    BY <1>4 DEF AnswerTo
  <2>3. Texts[d] = ledger[d].text
    BY DEF Texts
  <2> QED BY <2>1, <2>2, <2>3
<1>7. View' = View /\ Texts' = Texts
  BY <1>1 DEF View, CurrentState, Texts
<1>8. Service!Ask(r, d)
  BY <1>5, <1>6, <1>7 DEF Service!Ask, AnswerTo, View, Texts
<1> QED BY <1>8 DEF Service!Next

\* A woken request goes on: it keeps the text it is bound to, or is refused.
LEMMA ResumeRefines ==
  ASSUME WorkInv, TextsInv, NEW r \in Requests, Expects(r), Resume(r)
  PROVE  Service!Next
<1> USE DEF WorkInv, TypeInv
<1> DEFINE q == req[r]
<1>1. /\ Running /\ UNCHANGED <<ledger, project, current>> /\ q.pc = "woken"
      /\ q.ctx \in Contexts /\ q.doc \in Docs
  BY DEF Resume, ClientStep, sourceVars, projectVars, RequestsAreBound
<1>2. AnswerOf(q) = Service!Waiting(q.doc, q.text)
  BY <1>1, WaitingAnswers
<1>3. \/ /\ ledger[q.doc].version = q.version /\ project[q.ctx].docs[q.doc] # NoText
         /\ Dispatch(r, q.doc, q.ctx)
      \/ req' = [req EXCEPT ![r] = Settled(q, "superseded")]
  BY DEF Resume
<1>4. CASE req' = [req EXCEPT ![r] = Settled(q, "superseded")]
  <2>1. req'[r] = Settled(q, "superseded") /\ \A s \in Requests : s # r => req'[s] = req[s]
    BY <1>4 DEF TypeOK
  <2>2. AnswerOf(req'[r]) = Service!Refused(q.doc)
    BY <2>1, SettledAnswers
  <2>3. Refusal(r)
    BY <1>2, <2>2 DEF Refusal, AnswerTo, Service!Waiting
  <2> QED BY <1>1, <2>1, <2>3, OneRefused
<1>5. CASE /\ ledger[q.doc].version = q.version /\ project[q.ctx].docs[q.doc] # NoText
           /\ Dispatch(r, q.doc, q.ctx)
  <2>1. HasDocuments(project[q.ctx])
    BY <1>1, <1>5, DocumentIsOf DEF TypeOK
  <2>2. q.ctx = current /\ IsOpen(q.doc)
    BY <1>1, <1>5, <2>1 DEF TextsInv, OnlyCurrentHasDocuments, TextsHeld, TextHeld
  <2>3. ledger[q.doc].version \in Nat
    BY <1>1 DEF TypeOK
  <2>4. ledger[q.doc].text = q.text
    BY <1>1, <1>5, <2>2, <2>3 DEF Expects
  <2>5. /\ \A s \in Requests : s # r => req'[s] = req[s]
        /\ \/ /\ req'[r].pc = "done" /\ req'[r].doc = q.doc /\ req'[r].outcome = "unavailable"
              /\ req'[r].text = NoText
           \/ /\ req'[r].pc = "querying" /\ req'[r].doc = q.doc
              /\ req'[r].text = ledger[q.doc].text
    BY <1>5, Dispatched
  <2>6. req'[r].pc = "done" => Refusal(r)
    <3>1. req'[r].pc = "done" => AnswerOf(req'[r]) = Service!Refused(q.doc)
      BY <2>5, UnavailableAnswers
    <3> QED BY <1>2, <3>1 DEF Refusal, AnswerTo, Service!Waiting
  <2>7. req'[r].pc = "querying" => AnswerTo(r)' = AnswerTo(r)
    <3>1. req'[r].pc = "querying" => AnswerOf(req'[r]) = Service!Waiting(req'[r].doc, req'[r].text)
      BY WaitingAnswers
    <3> QED BY <1>2, <2>4, <2>5, <3>1 DEF AnswerTo
  <2> QED BY <1>1, <2>5, <2>6, <2>7, OneRefused
<1> QED BY <1>3, <1>4, <1>5

\* A result answers a request from the view, or refuses it.
LEMMA ResultRefines ==
  ASSUME ServesInv, TypeInv', [Next]_vars, RequestsExpect, NEW w \in Workers, ReceiveResult(w)
  PROVE  Service!Next
<1> USE DEF ServesInv, ServiceInv, WorkInv, TypeInv
<1>1. Running /\ UNCHANGED <<ledger, project, current>>
  BY ExchangeRests DEF Exchange
<1>2. View' = View /\ Texts' = Texts
  BY <1>1 DEF View, CurrentState, Texts
<1>3. \/ UNCHANGED req
      \/ \E r \in Requests :
           /\ req[r].pc = "querying"
           /\ \/ req' = [req EXCEPT ![r] = Settled(@, "unavailable")]
              \/ \E text : req' = [req EXCEPT ![r] = [Settled(@, "ready") EXCEPT !.text = text]]
  BY DEF ReceiveResult, ProjectQueries
<1>4. CASE UNCHANGED req
  <2>1. \A r \in Requests : AnswerTo(r)' = AnswerTo(r) \/ Refusal(r)
    BY <1>4 DEF AnswerTo
  <2>2. View' = NoSources \/ \A d \in Docs : Texts'[d] # Texts[d] => View[d] = NoText
    BY <1>2
  <2> QED BY <1>2, <2>1, <2>2, RefinesRefusals
<1>5. ASSUME NEW r \in Requests, req[r].pc = "querying",
             req' = [req EXCEPT ![r] = Settled(@, "unavailable")]
      PROVE  Service!Next
  <2>1. req'[r] = Settled(req[r], "unavailable") /\ \A s \in Requests : s # r => req'[s] = req[s]
    BY <1>5 DEF TypeOK
  <2>2. AnswerOf(req'[r]) = Service!Refused(req[r].doc)
    BY <2>1, SettledAnswers
  <2>3. AnswerOf(req[r]) = Service!Waiting(req[r].doc, req[r].text)
    BY <1>5, WaitingAnswers
  <2>4. Refusal(r)
    BY <2>2, <2>3 DEF Refusal, AnswerTo, Service!Waiting
  <2> QED BY <1>1, <2>1, <2>4, OneRefused
<1>6. ASSUME NEW r \in Requests, req[r].pc = "querying", NEW text,
             req' = [req EXCEPT ![r] = [Settled(@, "ready") EXCEPT !.text = text]]
      PROVE  Service!Next
  <2> DEFINE q == req[r]
  <2> DEFINE answers == [s \in Requests |-> AnswerTo(s)]
  <2>1. /\ req'[r] = [Settled(q, "ready") EXCEPT !.text = text]
        /\ \A s \in Requests : s # r => req'[s] = req[s]
    BY <1>6 DEF TypeOK
  <2>2. req'[r].outcome = "ready" /\ q.outcome # "ready"
    <3>1. q.outcome # "ready"
      BY <1>6 DEF RequestsExpect, Expects
    <3> QED BY <2>1, <3>1 DEF Settled, NewRequest
  <2>3. /\ QueryBound(r) /\ q.doc \in Docs
        /\ req'[r] = [Settled(q, "ready") EXCEPT !.text = q.text]
    BY <2>2, AnsweredIsBound
  <2>4. /\ AnswerOf(req'[r]) = Service!Answered(q.doc, q.text)
        /\ AnswerOf(q) = Service!Waiting(q.doc, q.text)
    <3>1. /\ req'[r].pc = "done" /\ req'[r].outcome = "ready" /\ req'[r].doc = q.doc
          /\ req'[r].text = q.text
      BY <2>3 DEF Settled, NewRequest
    <3> QED BY <1>6, <3>1, WaitingAnswers DEF AnswerOf, Service!Answered
  <2>5. q.ctx = current /\ View = project[current].docs
    <3>1. /\ q.ctx \in Contexts /\ project[q.ctx].docs[q.doc] # NoText
          /\ project[q.ctx].state = "Committed"
      BY <1>6, <2>3 DEF QueryBound, RequestsExpect, Expects, RequestsAreBound
    <3>2. HasDocuments(project[q.ctx])
      BY <2>3, <3>1, DocumentIsOf DEF TypeOK
    <3>3. q.ctx = current /\ q.ctx # 0
      BY <1>1, <3>1, <3>2, EngineAssumption DEF TextsInv, OnlyCurrentHasDocuments, Contexts
    <3> QED BY <3>1, <3>3 DEF View, CurrentState
  <2>6. View[q.doc] = q.text /\ q.text # NoText
    BY <2>3, <2>5 DEF QueryBound
  <2>7. answers' = [answers EXCEPT ![r] = Service!Answered(q.doc, q.text)]
    <3>1. /\ AnswerTo(r)' = Service!Answered(q.doc, q.text)
          /\ \A s \in Requests : s # r => AnswerTo(s)' = AnswerTo(s)
      BY <2>1, <2>4 DEF AnswerTo
    <3> QED BY <3>1
  <2>8. answers[r].state = "waiting" /\ answers[r].doc = q.doc /\ answers[r].text = q.text
    BY <2>4 DEF AnswerTo, Service!Waiting
  <2>9. Service!Answer(r)
    BY <1>2, <2>6, <2>7, <2>8 DEF Service!Answer, Service!NoText, NoText, AnswerTo, View, Texts
  <2> QED BY <2>9 DEF Service!Next
<1> QED BY <1>3, <1>4, <1>5, <1>6

\* Every step of the engine is one of the service.
LEMMA StepRefines ==
  ASSUME ServesInv, ServesInv', [Next]_vars, RequestsExpect
  PROVE  Service!Next
<1> USE DEF ServesInv, ServiceInv, WorkInv, TypeInv
<1>1. ASSUME NEW r \in Requests, Resume(r) PROVE Service!Next
  BY <1>1, ResumeRefines DEF RequestsExpect
<1>2. ASSUME NEW r \in Requests, NEW d \in Docs, Ask(r, d) PROVE Service!Next
  BY <1>2, AskRefines
<1>3. ASSUME NEW w \in Workers, ReceiveResult(w) PROVE Service!Next
  BY <1>3, ResultRefines
<1>4. CASE Served
  BY <1>4, ServedRefines
<1> QED BY <1>1, <1>2, <1>3, <1>4, WorkStep DEF Exchange

LEMMA InitRefines ==
  ASSUME Init
  PROVE  Service!Init /\ RequestsExpect
<1>1. Service!Init
  BY DEF Service!Init, Init, Service!NoView, AnswerOf, NewRequest, Service!NotAsked, NoText,
         Service!NoText, Unopened, CurrentState, NoSources
<1>2. RequestsExpect
  BY DEF Init, NewRequest, RequestsExpect, Expects
<1> QED BY <1>1, <1>2

\* The language server implements the snapshot service
\* (openspec/specs/language-server-synchronization, "Protocol queries use a coherent
\* document snapshot"): what can be queried is made of accepted texts at once, by a
\* commit, is withdrawn in the very step that accepts a revision of it, and answers a
\* request only with the text the request is bound to.  The hypotheses are the three
\* situations in which the code does otherwise.
THEOREM EngineImplementsService ==
  Spec /\ [][FoundIsUnrevised]_vars /\ [][NotReopened]_vars /\ []RetriesFindNoQuery
    => ImplementsService
<1>1. ServesInv /\ TypeInv' /\ [Next]_vars /\ NotReopened /\ RetriesFindNoQuery /\ RequestsExpect
        => RequestsExpect'
  BY ExpectsKept DEF ServesInv, ServiceInv
<1>2. UNCHANGED vars /\ RequestsExpect => RequestsExpect'
  BY DEF RequestsExpect, Expects, vars, sourceVars, projectVars, IsOpen
<1>3. ServesInv /\ ServesInv' /\ [Next]_vars /\ RequestsExpect => Service!Next
  BY StepRefines
<1>4. Init => Service!Init /\ RequestsExpect
  BY InitRefines
<1> QED BY <1>1, <1>2, <1>3, <1>4, ServesHold, TypesKept, PTL DEF Spec, ImplementsService,
                                                                  Service!Spec

LEMMA OneIsNotReopened ==
  ASSUME OneDocument, ServesInv, [Next]_vars
  PROVE  NotReopened
<1> USE DEF ServesInv, ServiceInv, WorkInv, TypeInv
<1> SUFFICES ASSUME NEW r \in Requests, NEW d \in Docs, req[r].pc = "woken",
                    req[r].ctx = current, ~IsOpen(d), IsOpen(d)'
             PROVE  FALSE
  BY DEF NotReopened
<1>1. current \in Contexts /\ current # 0
  BY EngineAssumption DEF RequestsAreBound, Contexts
<1>2. Running
  <2>1. ledger' # ledger
    BY DEF IsOpen
  <2> QED BY <2>1, LedgerSteps DEF Open, ChangeAssociated, ChangeUndiscovered, Close, SourceEvent,
                                   ShutdownBegins
<1>3. project[current].docs[d] # NoText
  <2>1. project[current].docs # NoSources /\ project[current].docs \in [Docs -> Nat]
    BY <1>1 DEF CommitInv, CurrentInv, HasDocuments, TypeOK, ProjectRecord, Snapshot
  <2> QED BY <2>1 DEF OneDocument, NoSources
<1> QED BY <1>1, <1>2, <1>3 DEF TextsInv, TextsHeld, TextHeld

\* With one document no batch has a rest, and no project is left when it is closed.
THEOREM EngineImplementsServiceOfOne ==
  ASSUME OneDocument
  PROVE  Spec /\ []RetriesFindNoQuery => ImplementsService
<1>1. Spec => [][FoundIsUnrevised]_vars
  BY OneIsNotFound
<1>2. ServesInv /\ [Next]_vars => NotReopened
  BY OneIsNotReopened
<1> QED BY <1>1, <1>2, ServesHold, EngineImplementsService, PTL DEF Spec

-----------------------------------------------------------------------------
\* A project does not fail by itself: the invariant.

\* Hypothesis on a step: a discovery that gives its documents to a project that is
\* being analysed finds the supervisor signaled, so that it sends the supersede.
DiscoveryIsSeen ==
  Discovered /\ project' # project => signal \/ project[current'].active = 0

\* The generations of the messages of one kind.
Gens(box, tag) == {m.gen : m \in {n \in Messages(box) : n.tag = tag}}

\* No analysis follows a message that supersedes generation g.
Behind(box, g) ==
  \A i, j \in 1..Len(box) :
    box[i].tag = "Analyze" /\ box[j].tag = "SupersedeAnalysis" /\ box[j].gen = g => i < j

\* The worker in the slot of a context, with fields p, runs generation v; A and S are
\* the generations it is to analyse and to supersede, C and R those it committed
\* and superseded but of which the host does not know yet.
Linked(p, v, A, S, C, R) ==
  LET a == p.active
  IN /\ v \in {0, a} /\ A \subseteq {a} /\ 0 \notin A
     /\ a # 0 /\ a \in C \cup R => A = {} /\ v = 0
     /\ \A k \in S \cup R : k < p.gen
     /\ \A k \in C : k <= p.gen /\ (p.pending => k # p.gen)
     /\ a # 0 => A # {} \/ v = a \/ a \in C \cup R \/ a < p.gen
     /\ a # 0 /\ a \in S \cup R => p.awaitingSupersede = a
     /\ p.awaitingSupersede # 0 => p.awaitingSupersede \in S \cup R

Serves(p, s, box, out) ==
  /\ Linked(p, s.active.gen, Gens(box, "Analyze"), Gens(box, "SupersedeAnalysis"),
            Gens(out, "Commit"), Gens(out, "Superseded"))
  /\ p.active # 0 => Behind(box, p.active)
  /\ \A m \in Messages(box) : m.tag # "Shutdown"

\* Only what is active is superseded.
SupersedesActive(p) ==
  p.active # 0 => {p.supersedeRequested, p.awaitingSupersede} \subseteq {0, p.active}

\* Nothing failed, what is obsolete is being superseded, and only that is.
Fields(p) ==
  /\ p.state # "Failed"
  /\ SupersedesActive(p)
  /\ p.active # 0 /\ p.active # p.gen /\ p.state # "Closed" =>
       p.active \in {p.supersedeRequested, p.awaitingSupersede}
  /\ p.supersedeRequested # 0 => p.supersedeRequested < p.gen
  /\ p.slot = 0 => p.active = 0 /\ p.awaitingSupersede = 0
  /\ p.slot = 0 /\ p.state # "Closed" => p.supersedeRequested = 0
  /\ p.slot <= p.epoch

\* The supervisor will look at a supersede that is not sent yet.
Asked(c) ==
  project[c].supersedeRequested # 0 /\ project[c].state # "Closed" =>
    (signal \/ sup.pc = "retiring") /\ c \notin retirements

\* Only the context in use and those to be retired have a worker.
Slotted(c) == project[c].slot # 0 => c = current \/ c \in retirements

ContextHealth(c) == Fields(project[c]) /\ Asked(c) /\ Slotted(c)

\* A worker reports no failure.
Sound(w) ==
  /\ ready[w] # "failed"
  /\ \A m \in Messages(outbox[w]) : m.tag \notin {"Died", "Failure"}

Unspawned(w) ==
  w[2] > project[w[1]].epoch =>
    runtime[w].active.gen = 0 /\ outbox[w] = <<>> /\ w \notin shuttingDown

\* A worker in its slot is alive and serves its context.
Attends(w) ==
  /\ proc[w] = "live" /\ w \in listening /\ w \notin shuttingDown
  /\ Serves(project[w[1]], runtime[w], inbox[w], outbox[w])

WorkerHealth(w) == Sound(w) /\ Unspawned(w) /\ (InSlot(w) => Attends(w))

SupervisorHealth ==
  /\ retirements # {} => signal
  /\ sup.pc = "ensuring" =>
       \A w \in sup.on :
         LET p == project[w[1]]
         IN /\ InSlot(w)
            /\ p.active = 0 /\ p.awaitingSupersede = 0 /\ p.supersedeRequested = 0

Healthy ==
  /\ SupervisorHealth
  /\ \A c \in Contexts : ContextHealth(c)
  /\ \A w \in Workers : WorkerHealth(w)

Unfailing ==
  /\ failing = {} /\ leasing = {} /\ ~CurrentState("Failed")
  /\ \A c \in Contexts : SupersedesActive(project[c])

HealthInv == faults = 0 => Unfailing /\ (Running => Healthy)

-----------------------------------------------------------------------------
\* Messages.

LEMMA MessagesAre ==
  ASSUME NEW S, NEW box \in Seq(S), box # <<>>
  PROVE  Messages(box) = {Head(box)} \cup Messages(Tail(box))
<1>1. /\ Head(box) = box[1] /\ 1 \in 1..Len(box) /\ Len(Tail(box)) = Len(box) - 1
      /\ \A i \in 1..Len(Tail(box)) : i + 1 \in 1..Len(box) /\ Tail(box)[i] = box[i + 1]
      /\ Len(box) \in Nat
  BY TailFacts
<1>2. \A i \in 1..Len(box) : i = 1 \/ i - 1 \in 1..Len(Tail(box))
  BY <1>1
<1>3. \A i \in 1..Len(box) : i - 1 \in 1..Len(Tail(box)) => box[i] = Tail(box)[i - 1]
  BY <1>1
<1> QED BY <1>1, <1>2, <1>3 DEF Messages

LEMMA GensAppend ==
  ASSUME NEW S, NEW box \in Seq(S), NEW m, NEW tag
  PROVE  Gens(Append(box, m), tag) =
           IF m.tag = tag THEN Gens(box, tag) \cup {m.gen} ELSE Gens(box, tag)
<1>1. Messages(Append(box, m)) = Messages(box) \cup {m}
  BY MessagesOf
<1> QED BY <1>1 DEF Gens

LEMMA GensTail ==
  ASSUME NEW S, NEW box \in Seq(S), box # <<>>, NEW tag
  PROVE  Gens(box, tag) =
           IF Head(box).tag = tag THEN Gens(Tail(box), tag) \cup {Head(box).gen}
           ELSE Gens(Tail(box), tag)
  BY MessagesAre DEF Gens

LEMMA GensEmpty == \A tag : Gens(<<>>, tag) = {} /\ Gens(<<Initialize>>, "Analyze") = {}
                            /\ Gens(<<Initialize>>, "SupersedeAnalysis") = {}
  BY DEF Gens, Messages, Initialize

LEMMA BehindKept ==
  ASSUME NEW box \in Seq(HostMessage), NEW g, Behind(box, g)
  PROVE  /\ \A m : m.tag # "Analyze" => Behind(Append(box, m), g)
         /\ box # <<>> => Behind(Tail(box), g)
         /\ box # <<>> /\ Head(box).tag = "SupersedeAnalysis" /\ Head(box).gen = g =>
              Gens(Tail(box), "Analyze") = {}
<1>1. ASSUME NEW m, m.tag # "Analyze" PROVE Behind(Append(box, m), g)
  <2>1. /\ Len(Append(box, m)) = Len(box) + 1 /\ Append(box, m)[Len(box) + 1] = m
        /\ \A i \in 1..Len(box) : Append(box, m)[i] = box[i]
        /\ Len(box) \in Nat
    BY AppendFacts
  <2> DEFINE new == Append(box, m)
  <2> HIDE DEF new
  <2> SUFFICES ASSUME NEW i \in 1..Len(new), NEW j \in 1..Len(new), new[i].tag = "Analyze",
                      new[j].tag = "SupersedeAnalysis", new[j].gen = g
               PROVE  i < j
    BY DEF Behind, new
  <2>2. i \in 1..Len(box) /\ new[i] = box[i]
    BY <1>1, <2>1 DEF new
  <2>3. CASE j \in 1..Len(box)
    BY <2>1, <2>2, <2>3 DEF Behind, new
  <2>4. CASE j = Len(box) + 1
    BY <2>1, <2>2, <2>4
  <2> QED BY <2>1, <2>3, <2>4 DEF new
<1>2. ASSUME box # <<>> PROVE Behind(Tail(box), g)
  <2>1. \A i \in 1..Len(Tail(box)) :
          i \in Nat /\ i + 1 \in 1..Len(box) /\ Tail(box)[i] = box[i + 1]
    BY <1>2, TailFacts
  <2> SUFFICES ASSUME NEW i \in 1..Len(Tail(box)), NEW j \in 1..Len(Tail(box)),
                      Tail(box)[i].tag = "Analyze",
                      Tail(box)[j].tag = "SupersedeAnalysis", Tail(box)[j].gen = g
               PROVE  i < j
    BY DEF Behind
  <2>2. i + 1 < j + 1
    BY <2>1 DEF Behind
  <2> QED BY <2>1, <2>2
<1>3. ASSUME box # <<>>, Head(box).tag = "SupersedeAnalysis", Head(box).gen = g
      PROVE  Gens(Tail(box), "Analyze") = {}
  <2>1. \A i \in 1..Len(Tail(box)) :
          i \in Nat /\ i + 1 \in 1..Len(box) /\ Tail(box)[i] = box[i + 1]
    BY <1>3, TailFacts
  <2>2. Head(box) = box[1] /\ 1 \in 1..Len(box)
    BY <1>3, TailFacts
  <2>3. ASSUME NEW i \in 1..Len(Tail(box)), Tail(box)[i].tag = "Analyze" PROVE FALSE
    <3>1. i + 1 < 1
      BY <1>3, <2>1, <2>2, <2>3 DEF Behind
    <3> QED BY <2>1, <3>1
  <2> QED BY <2>3 DEF Gens, Messages
<1> QED BY <1>1, <1>2, <1>3

\* An analysis is added where nothing supersedes it yet.
LEMMA BehindNew ==
  ASSUME NEW box \in Seq(HostMessage), NEW m, NEW g, g \notin Gens(box, "SupersedeAnalysis"),
         m.tag = "Analyze"
  PROVE  Behind(Append(box, m), g)
<1> DEFINE new == Append(box, m)
<1>1. /\ Len(new) = Len(box) + 1 /\ new[Len(box) + 1] = m /\ Len(box) \in Nat
      /\ \A i \in 1..Len(box) : new[i] = box[i]
  BY AppendFacts
<1> HIDE DEF new
<1>2. ASSUME NEW j \in 1..Len(new), new[j].tag = "SupersedeAnalysis", new[j].gen = g
      PROVE  FALSE
  <2>1. j \in 1..Len(box) /\ new[j] = box[j]
    BY <1>1, <1>2
  <2> QED BY <1>2, <2>1 DEF Gens, Messages
<1> QED BY <1>2 DEF Behind, new

\* The analyses that wait are newer than what runs, and one generation waits once.
LEMMA WaitingAnalyses ==
  ASSUME NEW p, NEW s \in RuntimeState, NEW box \in Seq(HostMessage), WorkOf(p, s, box)
  PROVE  /\ \A g \in Gens(box, "Analyze") : g > s.active.gen
         /\ box # <<>> /\ Head(box).tag = "Analyze" =>
              Head(box).gen \notin Gens(Tail(box), "Analyze")
<1>1. \A g \in Gens(box, "Analyze") : g > s.active.gen
  <2>1. \A i \in Analyses(box) : box[i].gen > s.active.gen
    BY DEF WorkOf, BoxNewer
  <2>2. \A g \in Gens(box, "Analyze") : \E i \in Analyses(box) : box[i].gen = g
    BY DEF Gens, Messages, Analyses
  <2> QED BY <2>1, <2>2
<1>2. ASSUME box # <<>>, Head(box).tag = "Analyze"
      PROVE  Head(box).gen \notin Gens(Tail(box), "Analyze")
  <2>1. \A i \in Analyses(Tail(box)) : Head(box).gen < Tail(box)[i].gen
    BY <1>2, BoxTail DEF WorkOf
  <2>2. Tail(box) \in Seq(HostMessage)
    BY <1>2, TailFacts
  <2>3. \A i \in Analyses(Tail(box)) : Tail(box)[i].gen \in Nat
    BY <2>2, AnalysisGeneration
  <2>4. Head(box).gen \in Nat
    BY <1>2, TailFacts DEF HostMessage
  <2>5. ASSUME NEW i \in Analyses(Tail(box)) PROVE Tail(box)[i].gen # Head(box).gen
    <3>1. Head(box).gen < Tail(box)[i].gen /\ Tail(box)[i].gen \in Nat
      BY <2>1, <2>3
    <3> DEFINE x == Head(box).gen
    <3> DEFINE y == Tail(box)[i].gen
    <3>2. x \in Nat /\ y \in Nat /\ x < y
      BY <2>4, <3>1
    <3> HIDE DEF x, y
    <3>3. x # y
      BY <3>2
    <3> QED BY <3>3 DEF x, y
  <2>6. \A g \in Gens(Tail(box), "Analyze") : \E i \in Analyses(Tail(box)) : Tail(box)[i].gen = g
    BY DEF Gens, Messages, Analyses
  <2> QED BY <2>5, <2>6
<1> QED BY <1>1, <1>2

-----------------------------------------------------------------------------
\* A context and the worker in its slot.

Numbers(A, S, C, R) == A \cup S \cup C \cup R \subseteq Nat

\* The context is scheduled, or what the link is about stays.
Turns(p, q) ==
  /\ q.active = p.active /\ q.awaitingSupersede = p.awaitingSupersede
  /\ (q.gen = p.gen /\ q.pending = p.pending) \/ q.gen = p.gen + 1

LEMMA LinkedTurns ==
  ASSUME NEW p \in ProjectRecord, NEW q \in ProjectRecord, NEW v, NEW A, NEW S, NEW C, NEW R,
         Numbers(A, S, C, R), Linked(p, v, A, S, C, R), p.active <= p.gen, Turns(p, q)
  PROVE  Linked(q, v, A, S, C, R)
<1>1. p.gen \in Nat /\ p.active \in Nat /\ q.gen \in Nat /\ q.active \in Nat
  BY DEF ProjectRecord
<1> QED BY <1>1 DEF Linked, Numbers, Turns

\* The newest generation is sent.
LEMMA LinkedStart ==
  ASSUME NEW p \in ProjectRecord, NEW q \in ProjectRecord, NEW v, NEW A, NEW S, NEW C, NEW R,
         Numbers(A, S, C, R), Linked(p, v, A, S, C, R),
         p.active = 0, p.awaitingSupersede = 0, p.pending, p.gen # 0,
         q.active = p.gen, q.gen = p.gen, ~q.pending, q.awaitingSupersede = 0
  PROVE  /\ Linked(q, v, A \cup {p.gen}, S, C, R)
         /\ q.active \notin S
<1>1. p.gen \in Nat
  BY DEF ProjectRecord
<1>2. v = 0 /\ A = {} /\ \A k \in S \cup R \cup C : k # p.gen
  BY <1>1 DEF Linked, Numbers
<1> QED BY <1>1, <1>2 DEF Linked, Numbers

\* A supersede is sent.
LEMMA LinkedAsk ==
  ASSUME NEW p \in ProjectRecord, NEW q \in ProjectRecord, NEW v, NEW A, NEW S, NEW C, NEW R,
         Linked(p, v, A, S, C, R), NEW x, x < p.gen, p.active # 0 => x = p.active,
         q.active = p.active, q.gen = p.gen, q.pending = p.pending, q.awaitingSupersede = x
  PROVE  Linked(q, v, A, S \cup {x}, C, R)
  BY DEF Linked

\* The host reads that a generation was superseded.
LEMMA LinkedSuperseded ==
  ASSUME NEW p \in ProjectRecord, NEW v, NEW A, NEW S, NEW C, NEW R, NEW k,
         Linked(p, v, A, S, C, R \cup {k})
  PROVE  /\ p.awaitingSupersede = 0 \/ p.awaitingSupersede # k => Linked(p, v, A, S, C, R)
         /\ p.awaitingSupersede # 0 /\ p.awaitingSupersede = k /\ SupersedesActive(p) =>
              \A q \in ProjectRecord :
                q.active = 0 /\ q.awaitingSupersede = 0 /\ q.gen = p.gen /\ q.pending = p.pending =>
                  Linked(q, v, A, S, C, R)
<1>1. ASSUME p.awaitingSupersede = 0 \/ p.awaitingSupersede # k
      PROVE  Linked(p, v, A, S, C, R)
  BY <1>1 DEF Linked
<1>2. ASSUME p.awaitingSupersede # 0, p.awaitingSupersede = k, SupersedesActive(p),
             NEW q \in ProjectRecord,
             q.active = 0, q.awaitingSupersede = 0, q.gen = p.gen, q.pending = p.pending
      PROVE  Linked(q, v, A, S, C, R)
  <2>1. p.active = 0 \/ p.active = k
    BY <1>2 DEF SupersedesActive
  <2>2. v = 0 /\ A = {}
    BY <2>1 DEF Linked
  <2> QED BY <1>2, <2>2 DEF Linked
<1> QED BY <1>1, <1>2

\* The host reads a commit.
LEMMA LinkedCommit ==
  ASSUME NEW p \in ProjectRecord, NEW v, NEW A, NEW S, NEW C, NEW R, NEW k \in Nat,
         Linked(p, v, A, S, C \cup {k}, R)
  PROVE  /\ ~Committing(p, k) => Linked(p, v, A, S, C, R)
         /\ \A q \in ProjectRecord :
              Committing(p, k) /\ k # 0 /\ q.active = 0 /\ q.gen = p.gen
                /\ q.awaitingSupersede = p.awaitingSupersede /\ q.pending = p.pending =>
                  Linked(q, v, A, S, C, R)
<1>1. p.gen \in Nat /\ k <= p.gen
  BY DEF Linked, ProjectRecord
<1>2. ASSUME ~Committing(p, k) PROVE Linked(p, v, A, S, C, R)
  <2>1. p.active = k => k < p.gen
    BY <1>1, <1>2 DEF Committing
  <2> QED BY <2>1 DEF Linked
<1>3. ASSUME NEW q \in ProjectRecord, Committing(p, k), k # 0,
             q.active = 0, q.gen = p.gen,
             q.awaitingSupersede = p.awaitingSupersede, q.pending = p.pending
      PROVE  Linked(q, v, A, S, C, R)
  <2>1. v = 0 /\ A = {}
    BY <1>3 DEF Committing, Linked
  <2> QED BY <1>3, <2>1 DEF Linked
<1> QED BY <1>2, <1>3

\* The worker starts an analysis.
LEMMA LinkedAnalysis ==
  ASSUME NEW p \in ProjectRecord, NEW v \in Nat, NEW A, NEW S, NEW C, NEW R, NEW h,
         h \notin A, h > v, Linked(p, v, A \cup {h}, S, C, R)
  PROVE  v = 0 /\ Linked(p, h, A, S, C, R)
<1>1. h = p.active /\ h # 0
  BY DEF Linked
<1>2. p.active \in Nat
  BY DEF ProjectRecord
<1>3. v = 0 /\ A = {} /\ h \notin C \cup R
  BY <1>1, <1>2 DEF Linked
<1> QED BY <1>1, <1>3 DEF Linked

\* The worker supersedes a generation.
LEMMA LinkedSupersedes ==
  ASSUME NEW p \in ProjectRecord, NEW v, NEW A, NEW S, NEW C, NEW R, NEW k,
         Linked(p, v, A, S \cup {k}, C, R), k = p.active => A = {},
         NEW u, u = (IF v = k THEN 0 ELSE v)
  PROVE  Linked(p, u, A, S, C, R \cup {k})
<1>1. u \in {0, v}
  OBVIOUS
<1>2. k = p.active => u = 0
  BY DEF Linked
<1>3. /\ u \in {0, p.active} /\ A \subseteq {p.active} /\ 0 \notin A
  BY <1>1 DEF Linked
<1>4. p.active # 0 /\ p.active \in C \cup (R \cup {k}) => A = {} /\ u = 0
  BY <1>1, <1>2 DEF Linked
<1>5. p.active # 0 =>
        A # {} \/ u = p.active \/ p.active \in C \cup (R \cup {k}) \/ p.active < p.gen
  BY DEF Linked
<1> QED BY <1>3, <1>4, <1>5 DEF Linked

\* The worker commits.
LEMMA LinkedCommits ==
  ASSUME NEW p \in ProjectRecord, NEW v, v # 0, NEW A, NEW S, NEW C, NEW R,
         Numbers(A, S, C, R), Linked(p, v, A, S, C, R), \A g \in A : g > v, GenerationsMatch(p)
  PROVE  Linked(p, 0, A, S, C \cup {v}, R)
<1>1. p.gen \in Nat /\ p.active \in Nat
  BY DEF ProjectRecord
<1>2. v = p.active
  BY DEF Linked
<1>3. A = {}
  BY <1>1, <1>2 DEF Linked
<1>4. v <= p.gen /\ (p.pending => v # p.gen)
  BY <1>2 DEF GenerationsMatch
<1> QED BY <1>1, <1>2, <1>3, <1>4 DEF Linked

-----------------------------------------------------------------------------
\* Steps that leave the workers alone.

LEMMA NumbersOf ==
  ASSUME TypeOK, NEW w \in Workers
  PROVE  Numbers(Gens(inbox[w], "Analyze"), Gens(inbox[w], "SupersedeAnalysis"),
                 Gens(outbox[w], "Commit"), Gens(outbox[w], "Superseded"))
<1>1. inbox[w] \in Seq(HostMessage) /\ outbox[w] \in Seq(WorkerMessage \cup {Died})
  BY DEF TypeOK
<1>2. /\ \A m \in Messages(inbox[w]) : m \in HostMessage
      /\ \A m \in Messages(outbox[w]) : m \in WorkerMessage \cup {Died}
  BY <1>1 DEF Messages
<1>3. \A m \in HostMessage : m.tag \in {"Analyze", "SupersedeAnalysis"} => m.gen \in Nat
  BY DEF HostMessage
<1>4. \A m \in WorkerMessage \cup {Died} : m.tag \in {"Commit", "Superseded"} => m.gen \in Nat
  BY DEF WorkerMessage, Died
<1> QED BY <1>2, <1>3, <1>4 DEF Numbers, Gens

\* At most a query, or the end of one, is sent.
QuietBox(old, new) ==
  new = old \/ \E m : m.tag \in {"Query", "CancelQuery"} /\ new = Append(old, m)

LEMMA ServesTurns ==
  ASSUME NEW p \in ProjectRecord, NEW q \in ProjectRecord, p.active <= p.gen, Turns(p, q),
         NEW s, NEW box \in Seq(HostMessage), NEW new, QuietBox(box, new), NEW out,
         Numbers(Gens(box, "Analyze"), Gens(box, "SupersedeAnalysis"),
                 Gens(out, "Commit"), Gens(out, "Superseded")),
         Serves(p, s, box, out)
  PROVE  Serves(q, s, new, out)
<1>1. /\ Gens(new, "Analyze") = Gens(box, "Analyze")
      /\ Gens(new, "SupersedeAnalysis") = Gens(box, "SupersedeAnalysis")
      /\ \A m \in Messages(new) : m.tag # "Shutdown"
      /\ p.active # 0 => Behind(new, p.active)
  <2>1. CASE new = box
    BY <2>1 DEF Serves
  <2>2. ASSUME NEW m, m.tag \in {"Query", "CancelQuery"}, new = Append(box, m)
        PROVE  <1>1!:
    <3>1. Messages(new) = Messages(box) \cup {m}
      BY <2>2, MessagesOf
    <3>2. p.active # 0 => Behind(new, p.active)
      BY <2>2, BehindKept DEF Serves
    <3>3. \A n \in Messages(new) : n.tag # "Shutdown"
      BY <2>2, <3>1 DEF Serves
    <3> QED BY <2>2, <3>2, <3>3, GensAppend
  <2> QED BY <2>1, <2>2 DEF QuietBox
<1>2. Linked(q, s.active.gen, Gens(box, "Analyze"), Gens(box, "SupersedeAnalysis"),
             Gens(out, "Commit"), Gens(out, "Superseded"))
  BY LinkedTurns DEF Serves
<1> QED BY <1>1, <1>2 DEF Serves, Turns

\* A worker that keeps its slot, and what it has to do, goes on serving.
LEMMA AttendsKept ==
  ASSUME TypeOK, TypeOK', CommitInv, NEW w \in Workers, Attends(w),
         proc'[w] = proc[w], runtime'[w] = runtime[w], outbox'[w] = outbox[w],
         w \in listening', w \notin shuttingDown', QuietBox(inbox[w], inbox'[w]),
         Turns(project[w[1]], project'[w[1]])
  PROVE  Attends(w)'
<1> DEFINE p == project[w[1]]
<1> DEFINE q == project'[w[1]]
<1>1. w[1] \in Contexts /\ p \in ProjectRecord /\ q \in ProjectRecord
      /\ inbox[w] \in Seq(HostMessage) /\ p.active <= p.gen
  BY DEF TypeOK, Workers, CommitInv, ContextsMatch, GenerationsMatch
<1> HIDE DEF p, q
<1>2. Serves(q, runtime[w], inbox'[w], outbox[w])
  BY <1>1, NumbersOf, ServesTurns DEF Attends, p, q
<1> QED BY <1>2 DEF Attends, q

SameSlots == \A c \in Contexts :
  project'[c].slot = project[c].slot /\ project'[c].epoch = project[c].epoch

LEMMA HostFrame ==
  ASSUME TypeOK, TypeOK', CommitInv, \A w \in Workers : WorkerHealth(w),
         UNCHANGED <<proc, ready, listening, runtime, outbox>>,
         shuttingDown' \subseteq shuttingDown,
         \A w \in Workers : QuietBox(inbox[w], inbox'[w]),
         SameSlots, \A c \in Contexts : Turns(project[c], project'[c])
  PROVE  \A w \in Workers : WorkerHealth(w)'
<1> SUFFICES ASSUME NEW w \in Workers PROVE WorkerHealth(w)'
  OBVIOUS
<1>1. w[1] \in Contexts
  BY DEF Workers
<1>2. Sound(w)' /\ Unspawned(w)'
  BY <1>1 DEF WorkerHealth, Sound, Unspawned, SameSlots
<1>3. InSlot(w)' => InSlot(w) /\ Attends(w)
  BY <1>1 DEF WorkerHealth, InSlot, SameSlots
<1>4. InSlot(w)' => Attends(w)'
  BY <1>1, <1>3, AttendsKept DEF Attends
<1> QED BY <1>2, <1>4 DEF WorkerHealth

-----------------------------------------------------------------------------
\* Source events and discovery.

SameThreads == UNCHANGED <<proc, ready, listening, runtime, outbox, shuttingDown>>
SupervisorTurns == sup' = sup \/ (sup'.pc # "ensuring" /\ sup.pc # "retiring")

\* The contexts stay as they are.
LEMMA RestHealth ==
  ASSUME TypeOK, TypeOK', CommitInv, Healthy, UNCHANGED <<project, current, retirements>>,
         SameThreads, signal => signal', SupervisorTurns,
         \A w \in Workers : QuietBox(inbox[w], inbox'[w])
  PROVE  Healthy'
<1>1. SameSlots /\ \A c \in Contexts : Turns(project[c], project'[c])
  BY DEF SameSlots, Turns
<1>2. \A w \in Workers : WorkerHealth(w)'
  BY <1>1, HostFrame DEF Healthy, SameThreads
<1>3. \A c \in Contexts : ContextHealth(c)'
  BY DEF Healthy, ContextHealth, Asked, Slotted, SupervisorTurns
<1>4. SupervisorHealth'
  BY DEF Healthy, SupervisorHealth, SupervisorTurns, InSlot
<1> QED BY <1>2, <1>3, <1>4 DEF Healthy

LEMMA ScheduleFields ==
  ASSUME NEW p \in ProjectRecord, NEW q \in ProjectRecord, Fields(p), p.active <= p.gen,
         q.state = p.state, q.state # "Closed", q.gen = p.gen, q.active = p.active,
         SameSupersede(p, q), q.slot = p.slot, q.epoch = p.epoch
  PROVE  LET r == Schedule(q)
         IN /\ Fields(r) /\ Turns(p, r) /\ r.slot = p.slot /\ r.epoch = p.epoch
            /\ r.supersedeRequested = IF p.active # 0 THEN p.active ELSE p.supersedeRequested
<1> DEFINE r == Schedule(q)
<1>1. /\ r.gen = q.gen + 1 /\ r.state = "Pending" /\ r.active = q.active
      /\ r.awaitingSupersede = q.awaitingSupersede /\ r.slot = q.slot /\ r.epoch = q.epoch
      /\ r.supersedeRequested = IF q.active # 0 THEN q.active ELSE q.supersedeRequested
  BY DEF Schedule, ProjectRecord
<1> HIDE DEF r
<1>2. p.gen \in Nat /\ p.active \in Nat /\ p.supersedeRequested \in Nat
  BY DEF ProjectRecord
<1>3. r.supersedeRequested = IF p.active # 0 THEN p.active ELSE p.supersedeRequested
  BY <1>1 DEF SameSupersede
<1>4. Fields(r)
  BY <1>1, <1>2, <1>3 DEF Fields, SupersedesActive, SameSupersede
<1>5. Turns(p, r)
  BY <1>1 DEF Turns, SameSupersede
<1> QED BY <1>1, <1>3, <1>4, <1>5 DEF r

\* The context in use, or a new one, is scheduled.
LEMMA ScheduledHealth ==
  ASSUME TypeOK, TypeOK', CommitInv, Healthy, NEW c \in Contexts, c \notin retirements,
         NEW q \in ProjectRecord, q.state = project[c].state, q.state # "Closed",
         q.gen = project[c].gen, q.active = project[c].active, SameSupersede(project[c], q),
         q.slot = project[c].slot, q.epoch = project[c].epoch,
         project' = [project EXCEPT ![c] = Schedule(q)],
         UNCHANGED <<retirements, inbox>>, SameThreads, SupervisorTurns,
         signal => signal', q.active # 0 => signal',
         current' = current \/ (current = 0 /\ current' = c)
  PROVE  Healthy'
<1>1. project[c] \in ProjectRecord /\ project[c].active <= project[c].gen /\ Fields(project[c])
  BY DEF TypeOK, CommitInv, ContextsMatch, GenerationsMatch, Healthy, ContextHealth
<1>2. project'[c] = Schedule(q) /\ \A k \in Contexts : k # c => project'[k] = project[k]
  BY DEF TypeOK
<1>3. /\ Fields(project'[c]) /\ Turns(project[c], project'[c])
      /\ project'[c].slot = project[c].slot /\ project'[c].epoch = project[c].epoch
      /\ project'[c].supersedeRequested =
           IF project[c].active # 0 THEN project[c].active ELSE project[c].supersedeRequested
  BY <1>1, <1>2, ScheduleFields
<1>4. SameSlots /\ \A k \in Contexts : Turns(project[k], project'[k])
  BY <1>2, <1>3 DEF SameSlots, Turns
<1>5. \A w \in Workers : WorkerHealth(w)'
  BY <1>4, HostFrame DEF Healthy, SameThreads, QuietBox
<1>6. ASSUME NEW k \in Contexts PROVE ContextHealth(k)'
  <2>1. Fields(project'[k])
    BY <1>2, <1>3 DEF Healthy, ContextHealth
  <2>2. Slotted(k)'
    <3>1. k # 0
      BY EngineAssumption DEF Contexts
    <3> QED BY <1>4, <3>1 DEF Healthy, ContextHealth, Slotted, SameSlots
  <2>3. Asked(k)'
    <3>1. CASE k = c
      BY <1>1, <1>3, <3>1 DEF Healthy, ContextHealth, Asked, SupervisorTurns
    <3>2. CASE k # c
      BY <1>2, <3>2 DEF Healthy, ContextHealth, Asked, SupervisorTurns
    <3> QED BY <3>1, <3>2
  <2> QED BY <2>1, <2>2, <2>3 DEF ContextHealth
<1>7. SupervisorHealth'
  <2>1. retirements' # {} => signal'
    BY DEF Healthy, SupervisorHealth
  <2>2. ASSUME sup'.pc = "ensuring", NEW w \in sup'.on
        PROVE  /\ InSlot(w)' /\ project'[w[1]].active = 0
               /\ project'[w[1]].awaitingSupersede = 0 /\ project'[w[1]].supersedeRequested = 0
    <3>1. sup' = sup /\ w \in Workers
      BY <2>2 DEF SupervisorTurns, TypeOK, SupervisorRecord
    <3>2. w[1] \in Contexts
      BY <3>1 DEF Workers
    <3>3. /\ InSlot(w) /\ project[w[1]].active = 0
          /\ project[w[1]].awaitingSupersede = 0 /\ project[w[1]].supersedeRequested = 0
      BY <2>2, <3>1 DEF Healthy, SupervisorHealth
    <3> QED BY <1>2, <1>3, <1>4, <3>2, <3>3 DEF InSlot, SameSlots, Turns
  <2> QED BY <2>1, <2>2 DEF SupervisorHealth
<1> QED BY <1>5, <1>6, <1>7 DEF Healthy

\* The last document of a context is closed.
LEMMA ClosedHealth ==
  ASSUME TypeOK, TypeOK', CommitInv, Healthy, NEW c \in Contexts, c = current,
         NEW q \in ProjectRecord, q.state = "Closed", q.gen = project[c].gen,
         q.pending = project[c].pending, q.active = project[c].active,
         SameSupersede(project[c], q), q.slot = project[c].slot, q.epoch = project[c].epoch,
         project' = [project EXCEPT ![c] = q], retirements' = retirements \cup {c},
         UNCHANGED <<inbox, sup>>, SameThreads, signal'
  PROVE  Healthy'
<1>1. project[c] \in ProjectRecord /\ Fields(project[c])
  BY DEF TypeOK, Healthy, ContextHealth
<1>2. project'[c] = q /\ \A k \in Contexts : k # c => project'[k] = project[k]
  BY DEF TypeOK
<1>3. SameSlots /\ \A k \in Contexts : Turns(project[k], project'[k])
  BY <1>2 DEF SameSlots, Turns, SameSupersede
<1>4. \A w \in Workers : WorkerHealth(w)'
  BY <1>3, HostFrame DEF Healthy, SameThreads, QuietBox
<1>5. ASSUME NEW k \in Contexts PROVE ContextHealth(k)'
  <2>1. Fields(q)
    BY <1>1 DEF Fields, SupersedesActive, SameSupersede
  <2>2. CASE k = c
    BY <1>2, <2>1, <2>2 DEF ContextHealth, Asked, Slotted
  <2>3. CASE k # c
    BY <1>2, <2>3 DEF Healthy, ContextHealth, Asked, Slotted
  <2> QED BY <2>2, <2>3
<1>6. SupervisorHealth'
  <2>1. ASSUME sup.pc = "ensuring", NEW w \in sup.on
        PROVE  /\ InSlot(w)' /\ project'[w[1]].active = 0
               /\ project'[w[1]].awaitingSupersede = 0 /\ project'[w[1]].supersedeRequested = 0
    <3>1. w[1] \in Contexts
      BY <2>1 DEF TypeOK, SupervisorRecord, Workers
    <3>2. /\ InSlot(w) /\ project[w[1]].active = 0
          /\ project[w[1]].awaitingSupersede = 0 /\ project[w[1]].supersedeRequested = 0
      BY <2>1 DEF Healthy, SupervisorHealth
    <3> QED BY <1>2, <1>3, <3>1, <3>2 DEF InSlot, SameSlots, SameSupersede
  <2> QED BY <2>1 DEF SupervisorHealth
<1> QED BY <1>4, <1>5, <1>6 DEF Healthy

LEMMA EventHealth ==
  ASSUME WorkInv, TypeOK', Healthy,
         \/ \E d \in Docs : Open(d) \/ ChangeAssociated(d) \/ ChangeUndiscovered(d) \/ Close(d)
         \/ \E kind \in FileEvents : Invalidate(kind)
  PROVE  Healthy'
<1> USE DEF WorkInv, TypeInv
<1>1. Running /\ signal' = TRUE /\ SameThreads /\ UNCHANGED <<inbox, sup>>
  BY DEF Open, ChangeAssociated, ChangeUndiscovered, Close, Invalidate, SourceEvent, SameThreads,
         threadVars, fiberVars
<1>2. SupervisorTurns /\ \A w \in Workers : QuietBox(inbox[w], inbox'[w])
  BY <1>1 DEF SupervisorTurns, QuietBox
<1>3. ASSUME UNCHANGED <<project, current, retirements>> PROVE Healthy'
  BY <1>1, <1>2, <1>3, RestHealth
<1>4. current # 0 =>
        /\ current \in Contexts /\ project[current] \in ProjectRecord
        /\ project[current].state # "Closed" /\ current \notin retirements
  BY <1>1, CurrentIsOpen DEF RetirementsLeft
<1>5. CASE \E d \in Docs : Open(d) \/ ChangeUndiscovered(d)
  BY <1>3, <1>5 DEF Open, ChangeUndiscovered, projectVars
<1>6. ASSUME NEW d \in Docs, ChangeAssociated(d) PROVE Healthy'
  <2> DEFINE q == [project[current] EXCEPT !.docs[d] = events + 1]
  <2>1. /\ current # 0 /\ project' = [project EXCEPT ![current] = Schedule(q)]
        /\ UNCHANGED <<current, retirements>>
    BY <1>6 DEF ChangeAssociated, Associated
  <2>2. q \in ProjectRecord
    <3>1. events + 1 \in Nat
      BY DEF TypeOK
    <3> QED BY <1>4, <2>1, <3>1, DocumentType
  <2>3. /\ q.state = project[current].state /\ q.gen = project[current].gen
        /\ q.active = project[current].active /\ SameSupersede(project[current], q)
        /\ q.slot = project[current].slot /\ q.epoch = project[current].epoch
    BY <1>4, <2>1 DEF ProjectRecord, SameSupersede
  <2> HIDE DEF q
  <2> QED BY <1>1, <1>2, <1>4, <2>1, <2>2, <2>3, ScheduledHealth
<1>7. ASSUME NEW d \in Docs, Close(d) PROVE Healthy'
  <2>1. CASE ~Associated(d)
    BY <1>3, <1>7, <2>1 DEF Close, projectVars
  <2>2. CASE Associated(d)
    <3> DEFINE left == [project[current] EXCEPT !.docs[d] = NoText]
    <3> DEFINE last == ~HasDocuments(left)
    <3> DEFINE closed == [left EXCEPT !.state = "Closed"]
    <3>1. /\ current # 0
          /\ project' = [project EXCEPT ![current] = IF last THEN closed ELSE Schedule(left)]
          /\ current' = (IF last THEN 0 ELSE current)
          /\ retirements' = IF last THEN retirements \cup {current} ELSE retirements
      BY <1>7, <2>2 DEF Close, Associated, Leaving
    <3>2. left \in ProjectRecord
      BY <1>4, <3>1, DocumentType DEF NoText
    <3>3. /\ left.state = project[current].state /\ left.gen = project[current].gen
          /\ left.pending = project[current].pending
          /\ left.active = project[current].active /\ SameSupersede(project[current], left)
          /\ left.slot = project[current].slot /\ left.epoch = project[current].epoch
      BY <1>4, <3>1 DEF ProjectRecord, SameSupersede
    <3> HIDE DEF left
    <3>4. /\ closed \in ProjectRecord /\ closed.state = "Closed" /\ closed.gen = left.gen
          /\ closed.pending = left.pending /\ closed.active = left.active
          /\ SameSupersede(left, closed)
          /\ closed.slot = left.slot /\ closed.epoch = left.epoch
      BY <3>2 DEF ProjectRecord, SameSupersede
    <3> HIDE DEF closed
    <3>5. SameSupersede(project[current], closed)
      BY <3>3, <3>4 DEF SameSupersede
    <3>6. CASE last
      BY <1>1, <1>4, <3>1, <3>3, <3>4, <3>5, <3>6, ClosedHealth
    <3>7. CASE ~last
      BY <1>1, <1>2, <1>4, <3>1, <3>2, <3>3, <3>7, ScheduledHealth
    <3> QED BY <3>6, <3>7
  <2> QED BY <2>1, <2>2
<1>8. ASSUME NEW kind \in FileEvents, Invalidate(kind) PROVE Healthy'
  <2> DEFINE q == [project[current] EXCEPT !.dirty = @ \/ kind = "source",
                                           !.rediscover = @ \/ kind = "manifest"]
  <2>1. /\ UNCHANGED <<current, retirements>>
        /\ \/ UNCHANGED project
           \/ current # 0 /\ project' = [project EXCEPT ![current] = Schedule(q)]
    BY <1>8 DEF Invalidate
  <2>2. CASE UNCHANGED project
    BY <1>3, <2>1, <2>2
  <2>3. CASE current # 0 /\ project' = [project EXCEPT ![current] = Schedule(q)]
    <3>1. q \in ProjectRecord
      BY <1>4, <2>3 DEF ProjectRecord
    <3>2. /\ q.state = project[current].state /\ q.gen = project[current].gen
          /\ q.active = project[current].active /\ SameSupersede(project[current], q)
          /\ q.slot = project[current].slot /\ q.epoch = project[current].epoch
      BY <1>4, <2>3 DEF ProjectRecord, SameSupersede
    <3> HIDE DEF q
    <3> QED BY <1>1, <1>2, <1>4, <2>1, <2>3, <3>1, <3>2, ScheduledHealth
  <2> QED BY <2>1, <2>2, <2>3
<1> QED BY <1>5, <1>6, <1>7, <1>8

LEMMA RequestHealth ==
  ASSUME WorkInv, TypeOK', Healthy, NEW r \in Requests,
         (\E d \in Docs : Ask(r, d)) \/ Abandon(r) \/ Resume(r)
  PROVE  Healthy'
<1> USE DEF WorkInv, TypeInv
<1>1. /\ UNCHANGED <<project, current, retirements, signal>> /\ SameThreads /\ SupervisorTurns
      /\ ClientStep
  BY DEF Ask, Abandon, Resume, ClientStep, projectVars, threadVars, fiberVars, SameThreads,
         SupervisorTurns
<1> DEFINE Sent1 == \E w : \E m : m.tag \in {"Query", "CancelQuery"} /\ Send(w, m)
<1>2. UNCHANGED inbox \/ Sent1
  <2>1. ASSUME NEW d, NEW c, Dispatch(r, d, c)
        PROVE  UNCHANGED inbox \/ Sent1
    <3>1. Query(project[c].gen, r, d).tag = "Query"
      BY DEF Query
    <3> QED BY <2>1, <3>1 DEF Dispatch
  <2>2. Abandon(r) => UNCHANGED inbox \/ Sent1
    <3>1. CancelQuery(r).tag = "CancelQuery"
      BY DEF CancelQuery
    <3> QED BY <3>1 DEF Abandon
  <2> HIDE DEF Sent1
  <2> QED BY <2>1, <2>2 DEF Ask, Resume
<1>3. \A w \in Workers : QuietBox(inbox[w], inbox'[w])
  BY <1>2 DEF Send, QuietBox, TypeOK
<1> QED BY <1>1, <1>3, RestHealth

LEMMA DiscoveredHealth ==
  ASSUME WorkInv, TypeOK', Healthy, Discovered, DiscoveryIsSeen
  PROVE  Healthy'
<1> USE DEF WorkInv, TypeInv
<1>1. /\ Running /\ sup.pc = "discovering" /\ UNCHANGED <<retirements, signal, inbox>>
      /\ SameThreads
  BY DEF Discovered, SupervisorStep, SameThreads, threadVars
<1>2. /\ SupervisorTurns
      /\ \/ UNCHANGED <<project, current>>
         \/ Adopt(FoundText)
  BY <1>1 DEF Discovered, FoundText, SupervisorTurns, Supervisor
<1>3. CASE UNCHANGED <<project, current>>
  BY <1>1, <1>2, <1>3, RestHealth DEF QuietBox
<1>4. CASE Adopt(FoundText) /\ {d \in Docs : FoundText[d] # NoText} # {}
  <2> DEFINE touched == {d \in Docs : FoundText[d] # NoText}
  <2> DEFINE c == IF current # 0 THEN current ELSE created + 1
  <2> DEFINE docs == [d \in Docs |-> IF d \in touched THEN FoundText[d] ELSE project[c].docs[d]]
  <2> DEFINE q == [project[c] EXCEPT !.docs = docs, !.rediscover = FALSE]
  <2>1. project' = [project EXCEPT ![c] = Schedule(q)] /\ current' = c
    BY <1>4 DEF Adopt
  <2>2. created \in Nat /\ current \in Nat
    BY EngineAssumption DEF TypeOK, Contexts
  <2>3. c \in Contexts /\ project[c] \in ProjectRecord
    <3>1. c # 0
      BY <2>2
    <3> QED BY <2>1, <3>1 DEF TypeOK
  <2>4. project[c].state # "Closed" /\ c \notin retirements
    <3>1. CASE current # 0
      BY <1>1, <3>1, CurrentIsOpen DEF RetirementsLeft
    <3>2. CASE current = 0
      BY <2>2, <2>3, <3>2 DEF CommitInv, CurrentInv, RetirementsLeft
    <3> QED BY <3>1, <3>2
  <2>5. FoundText \in Snapshot
    <3>1. batch.found \in Snapshot /\ batch.text \in Nat
      BY DEF TypeOK, BatchRecord
    <3> QED BY <3>1 DEF FoundText, Snapshot
  <2>6. docs \in Snapshot
    BY <2>3, <2>5 DEF Snapshot, ProjectRecord
  <2>7. current' = current \/ (current = 0 /\ current' = c)
    BY <2>1
  <2> HIDE DEF docs, c, touched
  <2>8. /\ q \in ProjectRecord /\ q.state = project[c].state
        /\ q.gen = project[c].gen /\ q.active = project[c].active
        /\ SameSupersede(project[c], q)
        /\ q.slot = project[c].slot /\ q.epoch = project[c].epoch
    <3> DEFINE x == [project[c] EXCEPT !.docs = docs]
    <3>1. x \in ProjectRecord
      BY <2>3, <2>6 DEF ProjectRecord
    <3>2. /\ x.state = project[c].state /\ x.gen = project[c].gen
          /\ x.active = project[c].active /\ SameSupersede(project[c], x)
          /\ x.slot = project[c].slot /\ x.epoch = project[c].epoch
      BY <2>3 DEF ProjectRecord, SameSupersede
    <3>3. q = [x EXCEPT !.rediscover = FALSE]
      OBVIOUS
    <3> HIDE DEF x
    <3> QED BY <3>1, <3>2, <3>3 DEF ProjectRecord, SameSupersede
  <2> HIDE DEF q
  <2>9. project' # project
    <3>1. Schedule(q).gen = q.gen + 1 /\ q.gen \in Nat
      BY <2>4, <2>8 DEF Schedule, ProjectRecord
    <3>2. project'[c].gen # project[c].gen
      BY <2>1, <2>3, <2>8, <3>1 DEF TypeOK
    <3> QED BY <3>2
  <2>10. q.active # 0 => signal'
    BY <1>1, <2>1, <2>8, <2>9 DEF DiscoveryIsSeen
  <2> QED BY <1>1, <1>2, <2>1, <2>3, <2>4, <2>7, <2>8, <2>10, ScheduledHealth
<1>5. CASE Adopt(FoundText) /\ {d \in Docs : FoundText[d] # NoText} = {}
  BY <1>3, <1>5 DEF Adopt
<1> QED BY <1>2, <1>3, <1>4, <1>5

-----------------------------------------------------------------------------
\* Supersedes and retirements.

\* A worker is asked to supersede what is active.
LEMMA ServesAsked ==
  ASSUME NEW p \in ProjectRecord, NEW q \in ProjectRecord, NEW s,
         NEW box \in Seq(HostMessage), NEW out, Serves(p, s, box, out),
         NEW x, x < p.gen, p.active # 0 => x = p.active,
         q.active = p.active, q.gen = p.gen, q.pending = p.pending, q.awaitingSupersede = x
  PROVE  Serves(q, s, Append(box, SupersedeAnalysis(x)), out)
<1> DEFINE m == SupersedeAnalysis(x)
<1> DEFINE new == Append(box, m)
<1>1. m.tag = "SupersedeAnalysis" /\ m.gen = x
  BY DEF SupersedeAnalysis
<1> HIDE DEF m
<1>2. /\ Gens(new, "Analyze") = Gens(box, "Analyze")
      /\ Gens(new, "SupersedeAnalysis") = Gens(box, "SupersedeAnalysis") \cup {x}
  BY <1>1, GensAppend
<1>3. p.active # 0 => Behind(new, p.active)
  BY <1>1, BehindKept DEF Serves
<1>4. \A n \in Messages(new) : n.tag # "Shutdown"
  <2>1. Messages(new) = Messages(box) \cup {m}
    BY MessagesOf
  <2> QED BY <1>1, <2>1 DEF Serves
<1> DEFINE v == s.active.gen
<1> DEFINE A == Gens(box, "Analyze")
<1> DEFINE S == Gens(box, "SupersedeAnalysis")
<1> DEFINE C == Gens(out, "Commit")
<1> DEFINE R == Gens(out, "Superseded")
<1>5. Linked(p, v, A, S, C, R)
  BY DEF Serves
<1> HIDE DEF v, A, S, C, R, new
<1>6. Linked(q, v, A, S \cup {x}, C, R)
  BY <1>5, LinkedAsk
<1> QED BY <1>2, <1>3, <1>4, <1>6 DEF Serves, v, A, S, C, R, new, m

LEMMA SupersedeHealth ==
  ASSUME WorkInv, TypeOK', Running, Healthy, NEW signaled,
         SupersedeThenDiscover(project, signaled),
         UNCHANGED <<current, proc, ready, listening, runtime, outbox>>,
         shuttingDown' \subseteq shuttingDown, retirements' # {} => signaled,
         \/ retirements' = retirements
         \/ retirements' = {} /\ \A k \in retirements : project[k].slot = 0
  PROVE  Healthy'
<1> USE DEF WorkInv, TypeInv
<1> DEFINE c == current
<1> DEFINE p == project[c]
<1> DEFINE w == <<c, p.slot>>
<1> DEFINE wanted == c # 0 /\ p.supersedeRequested # 0 /\ p.slot # 0
<1> DEFINE marked == [p EXCEPT !.supersedeRequested = 0, !.awaitingSupersede = p.supersedeRequested]
<1> DEFINE m == SupersedeAnalysis(p.supersedeRequested)
<1>1. ASSUME wanted
      PROVE  /\ c \in Contexts /\ p \in ProjectRecord /\ w \in Workers /\ w[1] = c /\ w[2] = p.slot
             /\ InSlot(w) /\ Attends(w) /\ Alive(w)
  <2>1. c \in Contexts /\ p \in ProjectRecord
    BY <1>1 DEF TypeOK
  <2>2. w \in Workers /\ w[1] = c /\ w[2] = p.slot
    BY <1>1, <2>1, SlotType
  <2>3. InSlot(w)
    BY <2>2 DEF InSlot
  <2>4. Attends(w)
    BY <2>2, <2>3 DEF Healthy, WorkerHealth
  <2> QED BY <2>1, <2>2, <2>3, <2>4 DEF Attends, Alive
<1>2. /\ project' = (IF wanted THEN [project EXCEPT ![c] = marked] ELSE project)
      /\ inbox' = (IF wanted THEN [inbox EXCEPT ![w] = Append(@, m)] ELSE inbox)
      /\ signaled => signal'
      /\ sup'.pc \in {"debounce", "discovering"}
  <2>1. signaled => signal'
    BY DEF SupersedeThenDiscover
  <2>2. sup'.pc \in {"debounce", "discovering"}
    <3>1. sup' = Supervisor("debounce", {}) \/ sup' = Supervisor("discovering", {})
      BY DEF SupersedeThenDiscover
    <3> QED BY <3>1 DEF Supervisor
  <2>3. CASE wanted
    <3>1. Alive(w)
      BY <1>1, <2>3
    <3>2. project' = [project EXCEPT ![c] = marked]
      BY <2>3, <3>1 DEF SupersedeThenDiscover
    <3>3. inbox' = [inbox EXCEPT ![w] = Append(@, m)]
      BY <2>3, <3>1 DEF SupersedeThenDiscover, Send
    <3> QED BY <2>3, <2>1, <2>2, <3>2, <3>3
  <2>4. CASE ~wanted
    <3>1. project' = project /\ inbox' = inbox
      BY <2>4 DEF SupersedeThenDiscover
    <3> QED BY <2>4, <2>1, <2>2, <3>1
  <2> QED BY <2>3, <2>4
<1>3. wanted =>
        /\ marked \in ProjectRecord /\ marked.state = p.state /\ marked.gen = p.gen
        /\ marked.pending = p.pending /\ marked.active = p.active
        /\ marked.supersedeRequested = 0 /\ marked.awaitingSupersede = p.supersedeRequested
        /\ marked.slot = p.slot /\ marked.epoch = p.epoch
  BY <1>1 DEF ProjectRecord
<1> HIDE DEF marked, m
<1>4. /\ wanted => project'[c] = marked
      /\ \A k \in Contexts : k # c \/ ~wanted => project'[k] = project[k]
      /\ wanted => inbox'[w] = Append(inbox[w], m)
      /\ \A u \in Workers : u # w \/ ~wanted => inbox'[u] = inbox[u]
  BY <1>1, <1>2 DEF TypeOK
<1>5. SameSlots
  BY <1>3, <1>4 DEF SameSlots
<1>6. wanted => Fields(p) /\ p.supersedeRequested < p.gen
  BY <1>1 DEF Healthy, ContextHealth, Fields
<1>7. ASSUME NEW k \in Contexts PROVE ContextHealth(k)'
  <2>1. Fields(project'[k])
    <3>1. wanted => Fields(marked)
      BY <1>3, <1>6 DEF Fields, SupersedesActive
    <3>2. Fields(project[k])
      BY DEF Healthy, ContextHealth
    <3> QED BY <1>4, <3>1, <3>2
  <2>2. Slotted(k)'
    BY <1>5 DEF Healthy, ContextHealth, Slotted, SameSlots
  <2>3. ASSUME project'[k].supersedeRequested # 0, project'[k].state # "Closed" PROVE FALSE
    <3>1. project'[k] = project[k] /\ ~(k = c /\ wanted)
      BY <1>3, <1>4, <2>3
    <3>2. project[k].slot # 0
      BY <2>3, <3>1 DEF Healthy, ContextHealth, Fields
    <3>3. k \notin retirements /\ k # 0
      BY <2>3, <3>1, EngineAssumption DEF Healthy, ContextHealth, Asked, Contexts
    <3>4. k = c
      BY <3>2, <3>3 DEF Healthy, ContextHealth, Slotted
    <3> QED BY <2>3, <3>1, <3>2, <3>3, <3>4
  <2> QED BY <2>1, <2>2, <2>3 DEF ContextHealth, Asked
<1>8. SupervisorHealth'
  BY <1>2 DEF SupervisorHealth
<1>9. ASSUME NEW u \in Workers PROVE WorkerHealth(u)'
  <2>1. u[1] \in Contexts
    BY DEF Workers
  <2>2. Sound(u)' /\ Unspawned(u)'
    BY <1>5, <2>1 DEF Healthy, WorkerHealth, Sound, Unspawned, SameSlots
  <2>3. ASSUME InSlot(u)' PROVE Attends(u)'
    <3>1. InSlot(u) /\ Attends(u)
      BY <1>5, <2>1, <2>3 DEF Healthy, WorkerHealth, InSlot, SameSlots
    <3>2. CASE wanted /\ u = w
      <4>1. Serves(p, runtime[u], inbox[u], outbox[u])
        BY <1>1, <3>1, <3>2 DEF Attends
      <4>2. inbox[u] \in Seq(HostMessage)
        BY DEF TypeOK
      <4>3. p.active # 0 => p.supersedeRequested = p.active
        BY <1>6, <3>2 DEF Fields, SupersedesActive
      <4>4. Serves(marked, runtime[u], Append(inbox[u], m), outbox[u])
        BY <1>1, <1>3, <1>6, <3>2, <4>1, <4>2, <4>3, ServesAsked DEF m
      <4>5. Serves(project'[u[1]], runtime'[u], inbox'[u], outbox'[u])
        BY <1>1, <1>4, <3>2, <4>4
      <4> HIDE DEF w
      <4> QED BY <3>1, <4>5 DEF Attends
    <3>3. CASE ~(wanted /\ u = w)
      <4>1. ~wanted \/ u[1] # c
        <5>1. u[1] = c /\ wanted => u[2] = p.slot
          BY <3>1 DEF InSlot
        <5>2. u = <<u[1], u[2]>>
          BY DEF Workers
        <5> QED BY <3>3, <5>1, <5>2
      <4>2. inbox'[u] = inbox[u] /\ project'[u[1]] = project[u[1]]
        BY <1>4, <2>1, <3>3, <4>1
      <4> QED BY <3>1, <4>2 DEF Attends
    <3> QED BY <3>2, <3>3
  <2> QED BY <2>2, <2>3 DEF WorkerHealth
<1> QED BY <1>7, <1>8, <1>9 DEF Healthy

LEMMA RetiredItself ==
  ASSUME NEW p \in ProjectRecord, p.slot = 0, p.active = 0, p.awaitingSupersede = 0
  PROVE  Retired(p) = p
  BY DEF Retired, ProjectRecord

LEMMA RetiredFields ==
  ASSUME NEW p \in ProjectRecord
  PROVE  LET q == Retired(p)
         IN /\ q.slot = 0 /\ q.active = 0 /\ q.awaitingSupersede = 0 /\ q.state = p.state
            /\ q.supersedeRequested = p.supersedeRequested /\ q.epoch = p.epoch /\ q.gen = p.gen
  BY DEF Retired, ProjectRecord

LEMMA RetirementHealth ==
  ASSUME WorkInv, TypeOK', Healthy, TakeSignal \/ FinishRetirements
  PROVE  Healthy'
<1> USE DEF WorkInv, TypeInv
<1>1. /\ Running
      /\ UNCHANGED <<current, proc, ready, listening, runtime, outbox>>
  BY DEF TakeSignal, FinishRetirements, SupervisorStep, threadVars
<1>2. CASE FinishRetirements
  <2>1. SupersedeThenDiscover(project, signal) /\ UNCHANGED retirements
        /\ shuttingDown' \subseteq shuttingDown
    BY <1>2 DEF FinishRetirements
  <2>2. retirements' # {} => signal
    BY <2>1 DEF Healthy, SupervisorHealth
  <2> QED BY <1>1, <2>1, <2>2, SupersedeHealth
<1>3. CASE TakeSignal /\ RetiredSlots = {}
  <2>1. SupersedeThenDiscover(RetiredContexts, FALSE) /\ UNCHANGED shuttingDown /\ retirements' = {}
    BY <1>3 DEF TakeSignal, RetiredContexts, RetiredSlots
  <2>2. ASSUME NEW k \in retirements PROVE project[k].slot = 0 /\ Retired(project[k]) = project[k]
    <3>1. project[k].slot = 0
      BY <1>3 DEF RetiredSlots
    <3>2. project[k] \in ProjectRecord /\ Fields(project[k])
      BY DEF TypeOK, Healthy, ContextHealth
    <3> QED BY <3>1, <3>2, RetiredItself DEF Fields
  <2>3. RetiredContexts = project
    <3>1. \A k \in Contexts : RetiredContexts[k] = project[k]
      BY <2>2 DEF RetiredContexts
    <3>2. RetiredContexts = [k \in Contexts |-> RetiredContexts[k]]
      BY DEF RetiredContexts
    <3>3. project = [k \in Contexts |-> project[k]]
      BY DEF TypeOK
    <3> QED BY <3>1, <3>2, <3>3
  <2>4. SupersedeThenDiscover(project, FALSE) /\ shuttingDown' \subseteq shuttingDown
    BY <2>1, <2>3
  <2> QED BY <1>1, <2>1, <2>2, <2>4, SupersedeHealth
<1>4. CASE TakeSignal /\ RetiredSlots # {}
  <2>1. /\ project' = RetiredContexts /\ Dismiss(RetiredSlots)
        /\ sup' = Supervisor("retiring", RetiredSlots) /\ retirements' = {}
    BY <1>4 DEF TakeSignal, RetiredContexts, RetiredSlots
  <2>2. /\ sup'.pc = "retiring"
        /\ \A k \in Contexts : k \notin retirements => project'[k] = project[k]
        /\ \A k \in retirements : project'[k] = Retired(project[k])
    BY <2>1 DEF Supervisor, RetiredContexts, TypeOK
  <2>3. \A k \in retirements :
          LET q == project'[k]
              p == project[k]
          IN /\ q.slot = 0 /\ q.active = 0 /\ q.awaitingSupersede = 0 /\ q.state = p.state
             /\ q.supersedeRequested = p.supersedeRequested /\ q.epoch = p.epoch /\ q.gen = p.gen
    <3>1. \A k \in retirements : project[k] \in ProjectRecord
      BY DEF TypeOK
    <3> QED BY <2>2, <3>1, RetiredFields
  <2>4. ASSUME NEW k \in Contexts PROVE ContextHealth(k)'
    <3>1. CASE k \in retirements
      <4>1. Fields(project[k]) /\ Asked(k) /\ project[k].epoch \in Nat
        BY DEF Healthy, ContextHealth, TypeOK, ProjectRecord
      <4>2. Fields(project'[k])
        BY <2>3, <3>1, <4>1 DEF Fields, SupersedesActive, Asked
      <4>3. Slotted(k)' /\ Asked(k)'
        BY <2>1, <2>2, <2>3, <3>1 DEF Slotted, Asked
      <4> QED BY <4>2, <4>3 DEF ContextHealth
    <3>2. CASE k \notin retirements
      BY <1>1, <2>1, <2>2, <3>2 DEF Healthy, ContextHealth, Slotted, Asked
    <3> QED BY <3>1, <3>2
  <2>5. SupervisorHealth'
    BY <2>1, <2>2 DEF SupervisorHealth
  <2>6. ASSUME NEW w \in Workers PROVE WorkerHealth(w)'
    <3>1. w[1] \in Contexts /\ w[2] \in Nat \ {0}
      BY EngineAssumption DEF Workers, Epochs
    <3>2. Sound(w)'
      BY <1>1 DEF Healthy, WorkerHealth, Sound
    <3>3. w \in RetiredSlots => w[1] \in retirements /\ w[2] = project[w[1]].slot
      BY DEF RetiredSlots, SlotOf
    <3>4. Unspawned(w)'
      <4>1. project'[w[1]].epoch = project[w[1]].epoch
        BY <2>2, <2>3, <3>1
      <4>2. project[w[1]].slot <= project[w[1]].epoch /\ project[w[1]].epoch \in Nat
        BY <3>1 DEF Healthy, ContextHealth, Fields, TypeOK, ProjectRecord
      <4>3. w[2] > project[w[1]].epoch => w \notin RetiredSlots
        BY <3>1, <3>3, <4>2
      <4> QED BY <1>1, <2>1, <4>1, <4>3 DEF Healthy, WorkerHealth, Unspawned, Dismiss
    <3>5. ASSUME InSlot(w)' PROVE Attends(w)'
      <4>1. w[1] \notin retirements
        BY <2>3, <3>1, <3>5 DEF InSlot
      <4>2. project'[w[1]] = project[w[1]] /\ w \notin RetiredSlots
        BY <2>2, <3>1, <3>3, <4>1
      <4>3. Attends(w) /\ inbox'[w] = inbox[w] /\ w \notin shuttingDown'
        BY <2>1, <3>5, <4>2 DEF Healthy, WorkerHealth, InSlot, Dismiss, Attends
      <4> QED BY <1>1, <4>2, <4>3 DEF Attends
    <3> QED BY <3>2, <3>4, <3>5 DEF WorkerHealth
  <2> QED BY <2>4, <2>5, <2>6 DEF Healthy
<1> QED BY <1>2, <1>3, <1>4


-----------------------------------------------------------------------------
\* One worker and its context.

SameWorker(u) ==
  /\ proc'[u] = proc[u] /\ inbox'[u] = inbox[u] /\ outbox'[u] = outbox[u]
  /\ runtime'[u] = runtime[u] /\ ready'[u] = ready[u]
  /\ (u \in listening') = (u \in listening) /\ (u \in shuttingDown') = (u \in shuttingDown)

\* What a step that answers a worker, or sends it something, may do to its context.
Settles(p, q) ==
  /\ Fields(q)
  /\ q.supersedeRequested = 0 \/ (q.supersedeRequested = p.supersedeRequested /\ q.state = p.state)

\* What the supervisor waits for is not disturbed.
Leaves(p, q) ==
  /\ q.active \in {0, p.active} /\ q.awaitingSupersede \in {0, p.awaitingSupersede}
  /\ q.supersedeRequested = p.supersedeRequested

LEMMA WorkerStepHealth ==
  ASSUME TypeOK, TypeOK', Healthy, NEW w \in Workers,
         \A k \in Contexts : k # w[1] => project'[k] = project[k],
         project' = project \/ (InSlot(w) /\ Settles(project[w[1]], project'[w[1]])),
         sup' = sup => project' = project \/ Leaves(project[w[1]], project'[w[1]]),
         SameSlots, UNCHANGED <<current, retirements>>, signal => signal', SupervisorTurns,
         \A u \in Workers : u # w => SameWorker(u),
         WorkerHealth(w)'
  PROVE  Healthy'
<1>1. w[1] \in Contexts
  BY DEF Workers
<1>2. ASSUME NEW k \in Contexts PROVE ContextHealth(k)'
  <2>1. project'[k] = project[k] \/ Settles(project[k], project'[k])
    BY DEF Settles
  <2>2. Fields(project'[k])
    BY <2>1 DEF Healthy, ContextHealth, Settles
  <2>3. Asked(k)'
    <3>1. ASSUME project'[k].supersedeRequested # 0, project'[k].state # "Closed"
          PROVE  (signal' \/ sup'.pc = "retiring") /\ k \notin retirements'
      <4>1. project[k].supersedeRequested # 0 /\ project[k].state # "Closed"
        BY <2>1, <3>1 DEF Settles
      <4>2. (signal \/ sup.pc = "retiring") /\ k \notin retirements
        BY <4>1 DEF Healthy, ContextHealth, Asked
      <4> QED BY <4>2 DEF SupervisorTurns
    <3> QED BY <3>1 DEF Asked
  <2>4. Slotted(k)'
    BY DEF Healthy, ContextHealth, Slotted, SameSlots
  <2> QED BY <2>2, <2>3, <2>4 DEF ContextHealth
<1>3. ASSUME NEW u \in Workers PROVE WorkerHealth(u)'
  <2>1. CASE u = w
    BY <2>1
  <2>2. CASE u # w
    <3>1. u[1] \in Contexts /\ SameWorker(u) /\ WorkerHealth(u)
      BY <2>2 DEF Workers, Healthy
    <3>2. Sound(u)' /\ Unspawned(u)'
      BY <3>1 DEF WorkerHealth, Sound, Unspawned, SameWorker, SameSlots
    <3>3. ASSUME InSlot(u)' PROVE Attends(u)'
      <4>1. InSlot(u) /\ Attends(u)
        BY <3>1, <3>3 DEF InSlot, SameSlots, WorkerHealth
      <4>2. project' = project \/ u[1] # w[1]
        <5>1. InSlot(w) /\ u[1] = w[1] => u[2] = w[2]
          BY <4>1 DEF InSlot
        <5>2. u = <<u[1], u[2]>> /\ w = <<w[1], w[2]>>
          BY DEF Workers
        <5> QED BY <2>2, <5>1, <5>2
      <4>3. project'[u[1]] = project[u[1]]
        BY <3>1, <4>2
      <4> QED BY <3>1, <4>1, <4>3 DEF SameWorker, Attends
    <3> QED BY <3>2, <3>3 DEF WorkerHealth
  <2> QED BY <2>1, <2>2
<1>4. SupervisorHealth'
  <2>1. retirements' # {} => signal'
    BY DEF Healthy, SupervisorHealth
  <2>2. ASSUME sup'.pc = "ensuring", NEW u \in sup'.on
        PROVE  /\ InSlot(u)' /\ project'[u[1]].active = 0
               /\ project'[u[1]].awaitingSupersede = 0 /\ project'[u[1]].supersedeRequested = 0
    <3>1. sup' = sup /\ u \in Workers
      BY <2>2 DEF SupervisorTurns, TypeOK, SupervisorRecord
    <3>2. u[1] \in Contexts
      BY <3>1 DEF Workers
    <3>3. /\ InSlot(u) /\ project[u[1]].active = 0
          /\ project[u[1]].awaitingSupersede = 0 /\ project[u[1]].supersedeRequested = 0
      BY <2>2, <3>1 DEF Healthy, SupervisorHealth
    <3>4. project'[u[1]] = project[u[1]] \/ Leaves(project[u[1]], project'[u[1]])
      BY <3>1, <3>2
    <3> QED BY <3>2, <3>3, <3>4 DEF InSlot, SameSlots, Leaves
  <2> QED BY <2>1, <2>2 DEF SupervisorHealth
<1> QED BY <1>2, <1>3, <1>4 DEF Healthy

-----------------------------------------------------------------------------
\* Starting an analysis.

LEMMA ServesStarted ==
  ASSUME NEW p \in ProjectRecord, NEW q \in ProjectRecord, NEW s,
         NEW box \in Seq(HostMessage), NEW out, Serves(p, s, box, out),
         Numbers(Gens(box, "Analyze"), Gens(box, "SupersedeAnalysis"),
                 Gens(out, "Commit"), Gens(out, "Superseded")),
         p.active = 0, p.awaitingSupersede = 0, p.pending, p.gen # 0,
         q.active = p.gen, q.gen = p.gen, ~q.pending, q.awaitingSupersede = 0,
         NEW m, m.tag = "Analyze", m.gen = p.gen
  PROVE  Serves(q, s, Append(box, m), out)
<1> DEFINE new == Append(box, m)
<1>1. /\ Gens(new, "Analyze") = Gens(box, "Analyze") \cup {p.gen}
      /\ Gens(new, "SupersedeAnalysis") = Gens(box, "SupersedeAnalysis")
  BY GensAppend
<1>2. \A n \in Messages(new) : n.tag # "Shutdown"
  <2>1. Messages(new) = Messages(box) \cup {m}
    BY MessagesOf
  <2> QED BY <2>1 DEF Serves
<1> DEFINE v == s.active.gen
<1> DEFINE A == Gens(box, "Analyze")
<1> DEFINE S == Gens(box, "SupersedeAnalysis")
<1> DEFINE C == Gens(out, "Commit")
<1> DEFINE R == Gens(out, "Superseded")
<1>3. Linked(p, v, A, S, C, R) /\ Numbers(A, S, C, R)
  BY DEF Serves
<1> HIDE DEF v, A, S, C, R
<1>4. Linked(q, v, A \cup {p.gen}, S, C, R) /\ q.active \notin S
  BY <1>3, LinkedStart
<1>5. Behind(new, q.active)
  <2>1. q.active \notin Gens(box, "SupersedeAnalysis")
    BY <1>4 DEF S
  <2> QED BY <2>1, BehindNew
<1> HIDE DEF new
<1> QED BY <1>1, <1>2, <1>4, <1>5 DEF Serves, v, A, S, C, R, new

LEMMA StartedHealth ==
  ASSUME WorkInv, TypeOK', Healthy, NEW w \in Workers, InSlot(w), StartAnalysisOn(w[1], w),
         UNCHANGED <<current, retirements, proc, ready, listening, runtime, outbox>>,
         sup.pc \in {"debounce", "ensuring"},
         LET p == project[w[1]]
         IN /\ p.pending /\ p.active = 0 /\ p.awaitingSupersede = 0
            /\ p.state = "Pending" /\ p.supersedeRequested = 0
  PROVE  Healthy'
<1> USE DEF WorkInv, TypeInv
<1> DEFINE p == project[w[1]]
<1> DEFINE started == [p EXCEPT !.pending = FALSE, !.active = p.gen,
                                !.dirty = FALSE, !.rediscover = FALSE]
<1> DEFINE m == Analyze(p.gen, p.docs, p.dirty \/ p.rediscover)
<1>1. /\ w[1] \in Contexts /\ p \in ProjectRecord /\ WorkerHealth(w) /\ Attends(w)
      /\ GenerationsMatch(p) /\ Fields(p) /\ inbox[w] \in Seq(HostMessage)
  BY DEF TypeOK, Workers, Healthy, WorkerHealth, ContextHealth, CommitInv, ContextsMatch
<1>2. Alive(w)
  BY <1>1 DEF Attends, Alive
<1>3. /\ project' = [project EXCEPT ![w[1]] = started]
      /\ inbox' = [inbox EXCEPT ![w] = Append(@, m)]
      /\ sup' = Supervisor("idle", {})
      /\ UNCHANGED <<signal, shuttingDown>>
  BY <1>2 DEF StartAnalysisOn, Send
<1>4. /\ started.gen = p.gen /\ started.pending = FALSE /\ started.active = p.gen
      /\ started.state = p.state /\ started.slot = p.slot /\ started.epoch = p.epoch
      /\ started.awaitingSupersede = 0 /\ started.supersedeRequested = 0
  BY <1>1 DEF ProjectRecord
<1>5. m.tag = "Analyze" /\ m.gen = p.gen
  BY DEF Analyze
<1> HIDE DEF started, m
<1>6. /\ project'[w[1]] = started /\ \A k \in Contexts : k # w[1] => project'[k] = project[k]
      /\ inbox'[w] = Append(inbox[w], m)
      /\ \A u \in Workers : u # w => SameWorker(u)
  BY <1>1, <1>3 DEF TypeOK, SameWorker
<1>7. started \in ProjectRecord
  BY <1>1, <1>6 DEF TypeOK
<1>8. p.gen # 0 /\ p.slot # 0
  <2>1. w[2] # 0
    BY DEF Workers, Epochs
  <2> QED BY <1>1, <2>1 DEF GenerationsMatch, InSlot
<1>9. Fields(started)
  BY <1>1, <1>4, <1>8 DEF Fields, SupersedesActive
<1>10. Serves(started, runtime[w], Append(inbox[w], m), outbox[w])
  BY <1>1, <1>4, <1>5, <1>7, <1>8, NumbersOf, ServesStarted DEF Attends
<1>11. SameSlots
  BY <1>4, <1>6 DEF SameSlots
<1>12. WorkerHealth(w)'
  <2>1. Sound(w)' /\ Unspawned(w)'
    BY <1>1, <1>3, <1>11 DEF WorkerHealth, Sound, Unspawned, SameSlots
  <2>2. Serves(project'[w[1]], runtime'[w], inbox'[w], outbox'[w])
    BY <1>6, <1>10
  <2>3. Attends(w)'
    BY <1>1, <1>3, <2>2 DEF Attends
  <2> QED BY <2>1, <2>3 DEF WorkerHealth
<1>13. Settles(p, started)
  BY <1>4, <1>9 DEF Settles
<1>14. SupervisorTurns /\ sup' # sup
  BY <1>3 DEF SupervisorTurns, Supervisor
<1> QED BY <1>3, <1>6, <1>11, <1>12, <1>13, <1>14, WorkerStepHealth

LEMMA StartHealth ==
  ASSUME WorkInv, TypeOK', Healthy, DebounceIdle \/ DebounceStart \/ WorkerIsReady
  PROVE  Healthy'
<1> USE DEF WorkInv, TypeInv
<1>1. CASE DebounceIdle
  BY <1>1, RestHealth DEF DebounceIdle, projectVars, SameThreads, threadVars, SupervisorTurns,
                          Supervisor, QuietBox
<1>2. CASE DebounceStart
  <2> DEFINE p == project[current]
  <2> DEFINE w == SlotOf(current)
  <2>1. /\ current # 0 /\ p.pending /\ p.active = 0 /\ p.awaitingSupersede = 0 /\ p.slot # 0
        /\ p.state = "Pending" /\ StartAnalysisOn(current, w) /\ sup.pc = "debounce" /\ ~signal
        /\ UNCHANGED <<current, retirements, proc, ready, listening, runtime, outbox>>
    BY <1>2 DEF DebounceStart, Startable, threadVars
  <2>2. current \in Contexts /\ p \in ProjectRecord
    BY <2>1 DEF TypeOK
  <2>3. w \in Workers /\ w[1] = current /\ InSlot(w)
    BY <2>1, <2>2, SlotType DEF SlotOf, InSlot
  <2>4. p.supersedeRequested = 0
    BY <2>1, <2>2 DEF Healthy, ContextHealth, Asked
  <2> HIDE DEF w
  <2> QED BY <2>1, <2>3, <2>4, StartedHealth
<1>3. CASE WorkerIsReady
  <2>1. PICK w \in sup.on : IF project[w[1]].state # "Pending"
                            THEN /\ sup' = Supervisor("idle", {})
                                 /\ UNCHANGED <<project, signal, failing, shuttingDown, inbox, req>>
                            ELSE StartAnalysisOn(w[1], w)
    BY <1>3 DEF WorkerIsReady
  <2>2. /\ sup.pc = "ensuring"
        /\ UNCHANGED <<current, retirements, proc, ready, listening, runtime, outbox>>
    BY <1>3 DEF WorkerIsReady, threadVars
  <2>3. /\ w \in Workers /\ project[w[1]].pending
    BY <2>2 DEF TypeOK, SupervisorRecord, CommitInv, EnsuredIsPending
  <2>4. CASE project[w[1]].state # "Pending"
    BY <2>1, <2>2, <2>4, RestHealth DEF SameThreads, SupervisorTurns, Supervisor, QuietBox
  <2>5. CASE project[w[1]].state = "Pending"
    <3>1. InSlot(w) /\ project[w[1]].active = 0 /\ project[w[1]].awaitingSupersede = 0
          /\ project[w[1]].supersedeRequested = 0
      BY <2>2 DEF Healthy, SupervisorHealth
    <3> QED BY <2>1, <2>2, <2>3, <2>5, <3>1, StartedHealth
  <2> QED BY <2>4, <2>5
<1> QED BY <1>1, <1>2, <1>3


LEMMA SpawnHealth ==
  ASSUME WorkInv, TypeOK', Healthy, DebounceSpawn
  PROVE  Healthy'
<1> USE DEF WorkInv, TypeInv
<1> DEFINE p == project[current]
<1> DEFINE e == p.epoch + 1
<1> DEFINE spawned == [p EXCEPT !.epoch = e, !.slot = e]
<1>1. /\ Running /\ current # 0 /\ p.active = 0 /\ p.awaitingSupersede = 0 /\ p.slot = 0
      /\ p.epoch < MaxEpoch /\ ~signal
      /\ UNCHANGED <<current, retirements, signal, ready, runtime, shuttingDown, outbox>>
  <2>1. Startable(current) /\ project[current].slot = 0
    BY DEF DebounceSpawn
  <2> QED BY <2>1 DEF DebounceSpawn, SupervisorStep, Startable
<1>2. /\ current \in Contexts /\ p \in ProjectRecord /\ p.state # "Closed"
      /\ p.epoch \in Nat /\ Fields(p)
  <2>1. current \in Contexts /\ p \in ProjectRecord /\ p.state # "Closed"
    BY <1>1, CurrentIsOpen
  <2> QED BY <2>1 DEF ProjectRecord, Healthy, ContextHealth
<1>3. PICK w \in Workers : w = <<current, e>>
  <2>1. e \in Epochs
    BY <1>1, <1>2, EngineAssumption DEF Epochs
  <2> QED BY <1>2, <2>1 DEF Workers
<1>4. w[1] = current /\ w[2] = e /\ e # 0
  BY <1>2, <1>3
<1>5. /\ project' = [project EXCEPT ![current] = spawned]
       /\ proc' = [proc EXCEPT ![w] = "live"] /\ listening' = listening \cup {w}
       /\ inbox' = [inbox EXCEPT ![w] = <<Initialize>>]
       /\ sup' = Supervisor("ensuring", {w})
  BY <1>3 DEF DebounceSpawn
<1>6. p.supersedeRequested = 0
  BY <1>1, <1>2 DEF Fields
<1>7. /\ runtime[w].active.gen = 0 /\ outbox[w] = <<>> /\ w \notin shuttingDown
      /\ ready[w] # "failed"
  BY <1>2, <1>4 DEF Healthy, WorkerHealth, Unspawned, Sound
<1>8. /\ spawned.active = 0 /\ spawned.awaitingSupersede = 0 /\ spawned.supersedeRequested = 0
      /\ spawned.state = p.state /\ spawned.epoch = e /\ spawned.slot = e
  BY <1>1, <1>2, <1>6 DEF ProjectRecord
<1> HIDE DEF spawned
<1>9. /\ project'[current] = spawned
      /\ \A k \in Contexts : k # current => project'[k] = project[k]
      /\ proc'[w] = "live" /\ inbox'[w] = <<Initialize>>
      /\ \A u \in Workers : u # w => SameWorker(u)
  BY <1>1, <1>2, <1>5 DEF TypeOK, SameWorker
<1>10. ASSUME NEW k \in Contexts PROVE ContextHealth(k)'
  <2>1. CASE k = current
    <3>1. Fields(spawned)
      BY <1>2, <1>4, <1>8 DEF Fields, SupersedesActive
    <3> QED BY <1>1, <1>8, <1>9, <2>1, <3>1 DEF ContextHealth, Asked, Slotted
  <2>2. CASE k # current
    <3>1. ContextHealth(k) /\ project'[k] = project[k]
      BY <1>9, <2>2 DEF Healthy
    <3>2. project[k].supersedeRequested # 0 /\ project[k].state # "Closed" => FALSE
      <4>1. sup.pc = "debounce"
        BY DEF DebounceSpawn
      <4> QED BY <1>1, <3>1, <4>1 DEF ContextHealth, Asked
    <3> QED BY <1>1, <3>1, <3>2 DEF ContextHealth, Asked, Slotted
  <2> QED BY <2>1, <2>2
<1>11. SupervisorHealth'
  <2>1. sup'.on = {w}
    BY <1>5 DEF Supervisor
  <2>2. retirements' # {} => signal'
    BY <1>1 DEF Healthy, SupervisorHealth
  <2> QED BY <1>8, <1>9, <1>4, <2>1, <2>2 DEF SupervisorHealth, InSlot
<1>12. WorkerHealth(w)'
  <2>1. Sound(w)'
    BY <1>1, <1>3 DEF Healthy, WorkerHealth, Sound
  <2>2. Unspawned(w)'
    <3>1. project'[w[1]].epoch = w[2] /\ w[2] \in Nat
      BY <1>2, <1>8, <1>9, <1>4
    <3> QED BY <3>1 DEF Unspawned
  <2>3. Serves(spawned, runtime[w], <<Initialize>>, <<>>)
    <3>1. \A m \in Messages(<<Initialize>>) : m.tag # "Shutdown"
      BY DEF Messages, Initialize
    <3>2. Linked(spawned, 0, {}, {}, {}, {})
      BY <1>8 DEF Linked
    <3> QED BY <1>7, <1>8, <3>1, <3>2, GensEmpty DEF Serves
  <2>4. Serves(project'[w[1]], runtime'[w], inbox'[w], outbox'[w])
    BY <1>1, <1>7, <1>9, <1>4, <2>3
  <2>5. proc'[w] = "live" /\ w \in listening' /\ w \notin shuttingDown'
    BY <1>1, <1>7, <1>9, <1>5
  <2>6. Attends(w)'
    BY <2>4, <2>5 DEF Attends
  <2> QED BY <2>1, <2>2, <2>6 DEF WorkerHealth
<1>13. ASSUME NEW u \in Workers, u # w PROVE WorkerHealth(u)'
  <2>1. /\ u[1] \in Contexts /\ u[2] \in Nat /\ u = <<u[1], u[2]>>
        /\ WorkerHealth(u) /\ SameWorker(u)
    BY <1>9, <1>13 DEF Workers, Epochs, Healthy
  <2>2. Sound(u)'
    BY <2>1 DEF WorkerHealth, Sound, SameWorker
  <2>3. Unspawned(u)'
    <3>1. u[2] > project'[u[1]].epoch => u[2] > project[u[1]].epoch
      BY <1>2, <1>8, <1>9, <2>1
    <3> QED BY <2>1, <3>1 DEF WorkerHealth, Unspawned, SameWorker
  <2>4. ASSUME InSlot(u)' PROVE Attends(u)'
    <3>1. u[1] # current
      BY <1>3, <1>8, <1>9, <1>13, <2>1, <2>4 DEF InSlot
    <3>2. project'[u[1]] = project[u[1]]
      BY <1>9, <2>1, <3>1
    <3>3. Attends(u)
      BY <2>1, <2>4, <3>2 DEF WorkerHealth, InSlot
    <3>4. Serves(project'[u[1]], runtime'[u], inbox'[u], outbox'[u])
      BY <2>1, <3>2, <3>3 DEF Attends, SameWorker
    <3> QED BY <2>1, <3>3, <3>4 DEF Attends, SameWorker
  <2> QED BY <2>2, <2>3, <2>4 DEF WorkerHealth
<1> QED BY <1>10, <1>11, <1>12, <1>13 DEF Healthy


-----------------------------------------------------------------------------
\* Reading the messages of a worker.

\* What reading message m makes of a context.
Reads(p, q, m) ==
  \/ /\ q = p
     /\ m.tag = "Superseded" => p.awaitingSupersede = 0 \/ p.awaitingSupersede # m.gen
     /\ m.tag = "Commit" => ~Committing(p, m.gen)
  \/ /\ m.tag = "Superseded" /\ p.awaitingSupersede # 0 /\ p.awaitingSupersede = m.gen
     /\ q.gen = p.gen /\ q.pending = p.pending /\ q.active = 0 /\ q.awaitingSupersede = 0
  \/ /\ m.tag = "Commit" /\ Committing(p, m.gen) /\ m.gen # 0
     /\ q.gen = p.gen /\ q.pending = p.pending /\ q.active = 0
     /\ q.awaitingSupersede = p.awaitingSupersede

LEMMA ServesRead ==
  ASSUME NEW p \in ProjectRecord, NEW q \in ProjectRecord, NEW s, NEW box,
         NEW out \in Seq(WorkerMessage \cup {Died}), out # <<>>, Serves(p, s, box, out),
         SupersedesActive(p), Reads(p, q, Head(out))
  PROVE  Serves(q, s, box, Tail(out))
<1> DEFINE m == Head(out)
<1> DEFINE v == s.active.gen
<1> DEFINE A == Gens(box, "Analyze")
<1> DEFINE S == Gens(box, "SupersedeAnalysis")
<1> DEFINE C == Gens(out, "Commit")
<1> DEFINE R == Gens(out, "Superseded")
<1> DEFINE D == Gens(Tail(out), "Commit")
<1> DEFINE T == Gens(Tail(out), "Superseded")
<1>1. /\ C = IF m.tag = "Commit" THEN D \cup {m.gen} ELSE D
      /\ R = IF m.tag = "Superseded" THEN T \cup {m.gen} ELSE T
  BY GensTail
<1>2. m.tag = "Commit" => m.gen \in Nat
  <2>1. m \in WorkerMessage \cup {Died}
    BY TailFacts
  <2> QED BY <2>1 DEF WorkerMessage, Died
<1>3. Linked(p, v, A, S, C, R) /\ Reads(p, q, m)
  BY DEF Serves
<1> HIDE DEF m, v, A, S, C, R, D, T
<1>4. Linked(q, v, A, S, D, T)
  <2>1. CASE m.tag \notin {"Commit", "Superseded"}
    BY <1>1, <1>3, <2>1 DEF Reads
  <2>2. CASE m.tag = "Superseded"
    <3>1. Linked(p, v, A, S, D, T \cup {m.gen})
      BY <1>1, <1>3, <2>2
    <3>2. p.awaitingSupersede = 0 \/ p.awaitingSupersede # m.gen => Linked(p, v, A, S, D, T)
      BY <3>1, LinkedSuperseded
    <3>3. p.awaitingSupersede # 0 /\ p.awaitingSupersede = m.gen =>
            \A r \in ProjectRecord :
              r.active = 0 /\ r.awaitingSupersede = 0 /\ r.gen = p.gen /\ r.pending = p.pending =>
                Linked(r, v, A, S, D, T)
      BY <3>1, LinkedSuperseded
    <3> QED BY <1>3, <2>2, <3>2, <3>3 DEF Reads
  <2>3. CASE m.tag = "Commit"
    <3>1. Linked(p, v, A, S, D \cup {m.gen}, T)
      BY <1>1, <1>3, <2>3
    <3> QED BY <1>2, <1>3, <2>3, <3>1, LinkedCommit DEF Reads
  <2> QED BY <2>1, <2>2, <2>3
<1>5. q.active \in {0, p.active}
  BY <1>3 DEF Reads
<1> QED BY <1>4, <1>5 DEF Serves, v, A, S, D, T

LEMMA SlotIsSpawned ==
  ASSUME NEW p \in ProjectRecord, p.slot <= p.epoch
  PROVE  ~(p.slot > p.epoch)
<1>1. p.slot \in {0} \cup 1..MaxEpoch /\ p.epoch \in Nat /\ MaxEpoch \in Nat
  BY EngineAssumption DEF ProjectRecord, Epochs
<1> QED BY <1>1

\* A worker in its slot is read.
LEMMA ReadHealth ==
  ASSUME WorkInv, TypeOK', Healthy, NEW w \in Workers, InSlot(w), outbox[w] # <<>>,
         Consume(w), UNCHANGED <<current, retirements, proc, runtime, sup, inbox, shuttingDown>>,
         signal => signal', \A u \in Workers : u # w => ready'[u] = ready[u],
         ready'[w] # "failed",
         \A k \in Contexts : k # w[1] => project'[k] = project[k],
         LET p == project[w[1]]
             q == project'[w[1]]
         IN /\ q.slot = p.slot /\ q.epoch = p.epoch /\ Reads(p, q, Head(outbox[w]))
            /\ q = p \/ (Settles(p, q) /\ Leaves(p, q))
  PROVE  Healthy'
<1> USE DEF WorkInv, TypeInv
<1> DEFINE p == project[w[1]]
<1> DEFINE q == project'[w[1]]
<1>1. /\ w[1] \in Contexts /\ p \in ProjectRecord /\ q \in ProjectRecord
      /\ WorkerHealth(w) /\ Attends(w) /\ Fields(p)
      /\ outbox[w] \in Seq(WorkerMessage \cup {Died})
  BY DEF TypeOK, Workers, Healthy, WorkerHealth, ContextHealth
<1>2. /\ listening' = listening /\ outbox' = [outbox EXCEPT ![w] = Tail(@)]
      /\ outbox'[w] = Tail(outbox[w])
  BY DEF Consume, TypeOK
<1>3. \A u \in Workers : u # w => SameWorker(u)
  BY <1>2 DEF SameWorker, TypeOK
<1>4. SameSlots
  BY DEF SameSlots
<1>5. Serves(q, runtime[w], inbox[w], Tail(outbox[w]))
  BY <1>1, ServesRead DEF Attends, Fields
<1>6. WorkerHealth(w)'
  <2>1. Messages(outbox'[w]) \subseteq Messages(outbox[w])
    BY <1>1, <1>2, MessagesAre
  <2>2. Sound(w)'
    BY <1>1, <2>1 DEF WorkerHealth, Sound
  <2>3. Unspawned(w)'
    <3>1. ~(w[2] > p.epoch)
      <4>1. p.slot = w[2] /\ p.slot <= p.epoch
        BY <1>1 DEF InSlot, Fields
      <4> QED BY <1>1, <4>1, SlotIsSpawned
    <3> QED BY <3>1 DEF Unspawned
  <2>4. Attends(w)'
    BY <1>1, <1>2, <1>5 DEF Attends
  <2> QED BY <2>2, <2>3, <2>4 DEF WorkerHealth
<1>7. project' = project \/ (Settles(p, q) /\ Leaves(p, q))
  <2>1. q = p => \A k \in Contexts : project'[k] = project[k]
    BY <1>1
  <2>2. /\ project' = [k \in Contexts |-> project'[k]]
        /\ project = [k \in Contexts |-> project[k]]
    BY DEF TypeOK
  <2> QED BY <2>1, <2>2
<1> QED BY <1>3, <1>4, <1>6, <1>7, WorkerStepHealth DEF SupervisorTurns

LEMMA ReceiveHealth ==
  ASSUME WorkInv, TypeOK', Healthy, NEW w \in Workers, ListenerNext(w)
  PROVE  Healthy'
<1> USE DEF WorkInv, TypeInv
<1> DEFINE p == project[w[1]]
<1> DEFINE m == Head(outbox[w])
<1>1. /\ w[1] \in Contexts /\ p \in ProjectRecord /\ WorkerHealth(w) /\ Fields(p)
      /\ outbox[w] \in Seq(WorkerMessage \cup {Died})
  BY DEF TypeOK, Workers, Healthy, WorkerHealth, ContextHealth
<1>2. ASSUME NEW tag, Receive(w, tag)
      PROVE  /\ UNCHANGED <<current, retirements, proc, runtime>>
             /\ outbox[w] # <<>> /\ m.tag = tag /\ m \in Messages(outbox[w])
  BY <1>1, <1>2, MessagesAre DEF Receive
<1>3. CASE ReceiveStale(w)
  <2>1. /\ UNCHANGED <<current, retirements, proc, runtime, project, signal, ready, inbox,
                       shuttingDown, sup>>
        /\ listening' = listening \ {w} /\ outbox' = [outbox EXCEPT ![w] = <<>>] /\ ~InSlot(w)
    BY <1>2, <1>3 DEF ReceiveStale, StopListening, NoFailure
  <2>2. outbox'[w] = <<>> /\ \A u \in Workers : u # w => SameWorker(u)
    BY <2>1 DEF SameWorker, TypeOK
  <2>3. WorkerHealth(w)'
    BY <1>1, <2>1, <2>2 DEF WorkerHealth, Sound, Unspawned, InSlot, Messages
  <2> QED BY <2>1, <2>2, <2>3, WorkerStepHealth DEF SupervisorTurns, SameSlots
<1>4. CASE ReceiveReady(w) \/ ReceiveResult(w)
  <2>1. PICK tag \in {"Ready", "Result"} : Receive(w, tag)
    BY <1>4 DEF ReceiveReady, ReceiveResult
  <2>2. /\ InSlot(w) /\ Consume(w) /\ UNCHANGED <<project, signal, sup, inbox, shuttingDown>>
        /\ ready' = ready \/ ready' = [ready EXCEPT ![w] = "ready"]
    BY <1>4 DEF ReceiveReady, ReceiveResult, NoFailure
  <2>3. ready'[w] # "failed" /\ \A u \in Workers : u # w => ready'[u] = ready[u]
    BY <1>1, <2>2 DEF WorkerHealth, Sound, TypeOK
  <2>4. Reads(p, p, m)
    BY <1>2, <2>1 DEF Reads
  <2> QED BY <1>2, <2>1, <2>2, <2>3, <2>4, ReadHealth
<1>5. CASE ReceiveSuperseded(w)
  <2> DEFINE q == [p EXCEPT !.awaitingSupersede = 0, !.active = 0]
  <2> DEFINE answers == p.awaitingSupersede # 0 /\ p.awaitingSupersede = m.gen
  <2>1. /\ InSlot(w) /\ Consume(w) /\ UNCHANGED <<ready, sup, inbox, shuttingDown>>
        /\ Receive(w, "Superseded")
        /\ IF answers THEN project' = [project EXCEPT ![w[1]] = q] /\ signal' = TRUE
           ELSE UNCHANGED <<project, signal>>
    BY <1>5 DEF ReceiveSuperseded, NoFailure
  <2>2. ready'[w] # "failed"
    BY <1>1, <2>1 DEF WorkerHealth, Sound
  <2>3. /\ q.gen = p.gen /\ q.pending = p.pending /\ q.active = 0 /\ q.awaitingSupersede = 0
        /\ q.slot = p.slot /\ q.epoch = p.epoch /\ q.state = p.state
        /\ q.supersedeRequested = p.supersedeRequested
    BY <1>1 DEF ProjectRecord
  <2> HIDE DEF q
  <2>4. Settles(p, q) /\ Leaves(p, q)
    BY <1>1, <2>3 DEF Settles, Leaves, Fields, SupersedesActive
  <2>5. /\ project'[w[1]] = IF answers THEN q ELSE p
        /\ \A k \in Contexts : k # w[1] => project'[k] = project[k]
    BY <1>1, <2>1 DEF TypeOK
  <2>6. m.tag = "Superseded"
    BY <1>2, <2>1
  <2>7. Reads(p, project'[w[1]], m)
    BY <2>3, <2>5, <2>6 DEF Reads
  <2> QED BY <1>2, <2>1, <2>2, <2>3, <2>4, <2>5, <2>7, ReadHealth
<1>6. CASE ReceiveCommit(w)
  <2> DEFINE q == [p EXCEPT !.active = 0, !.state = "Committed",
                            !.failureCount = 0, !.circuit = "Closed"]
  <2>1. /\ InSlot(w) /\ Consume(w) /\ UNCHANGED <<ready, signal, sup, inbox, shuttingDown>>
        /\ Receive(w, "Commit")
        /\ IF Committing(p, m.gen) THEN project' = [project EXCEPT ![w[1]] = q]
           ELSE UNCHANGED project
    BY <1>6 DEF ReceiveCommit, NoFailure
  <2>2. ready'[w] # "failed"
    BY <1>1, <2>1 DEF WorkerHealth, Sound
  <2>3. /\ q.gen = p.gen /\ q.pending = p.pending /\ q.active = 0
        /\ q.awaitingSupersede = p.awaitingSupersede
        /\ q.slot = p.slot /\ q.epoch = p.epoch /\ q.state = "Committed"
        /\ q.supersedeRequested = p.supersedeRequested
    BY <1>1 DEF ProjectRecord
  <2> HIDE DEF q
  <2>4. m.tag = "Commit" /\ m.gen # 0
    <3>1. m.tag = "Commit" /\ 1 \in 1..Len(outbox[w]) /\ m = outbox[w][1]
      BY <1>1, <1>2, <2>1, TailFacts
    <3> QED BY <3>1 DEF CommitInv, CommitsKnown, Known
  <2>5. ASSUME Committing(p, m.gen) PROVE Settles(p, q) /\ Leaves(p, q)
    <3>1. p.active = p.gen /\ p.active # 0
      BY <2>4, <2>5 DEF Committing
    <3>2. p.supersedeRequested = 0
      <4>1. p.gen \in Nat
        BY <1>1 DEF ProjectRecord
      <4> QED BY <1>1, <3>1, <4>1 DEF Fields, SupersedesActive
    <3>3. p.slot # 0
      BY <1>1, <3>1 DEF Fields
    <3> QED BY <1>1, <2>3, <3>2, <3>3 DEF Settles, Leaves, Fields, SupersedesActive
  <2>6. /\ project'[w[1]] = IF Committing(p, m.gen) THEN q ELSE p
        /\ \A k \in Contexts : k # w[1] => project'[k] = project[k]
    BY <1>1, <2>1 DEF TypeOK
  <2>7. Reads(p, project'[w[1]], m)
    BY <2>3, <2>4, <2>6 DEF Reads
  <2> QED BY <1>2, <2>1, <2>2, <2>3, <2>5, <2>6, <2>7, ReadHealth
<1>7. CASE ReceiveFailure(w) \/ ReceiveDied(w)
  <2>1. \E tag \in {"Failure", "Died"} : Receive(w, tag)
    BY <1>7 DEF ReceiveFailure, ReceiveDied
  <2> QED BY <1>1, <1>2, <2>1 DEF WorkerHealth, Sound
<1> QED BY <1>3, <1>4, <1>5, <1>6, <1>7 DEF ListenerNext


-----------------------------------------------------------------------------
\* The worker threads.

\* What a worker makes of message m: the state s becomes t, and news is posted.
Handles(s, m, t, news) ==
  /\ news = <<>> \/ \E r : news = <<r>> /\ r.tag \notin {"Failure", "Died"}
  /\ m.tag = "Analyze" /\ s.active.gen = 0 => news = <<>> /\ t.active.gen = m.gen
  /\ m.tag = "SupersedeAnalysis" =>
       /\ \E r : news = <<r>> /\ r.tag = "Superseded" /\ r.gen = m.gen
       /\ t.active.gen = IF s.active.gen = m.gen THEN 0 ELSE s.active.gen
  /\ m.tag \in {"Initialize", "Query", "CancelQuery"} =>
       /\ news = <<>> \/ \E r : news = <<r>> /\ r.tag \notin {"Commit", "Superseded"}
       /\ t.active.gen = s.active.gen

LEMMA AcceptedHandles ==
  ASSUME NEW s \in RuntimeState, NEW m \in HostMessage, NEW now
  PROVE  Handles(s, m, Accepted(s, m, now).state, Accepted(s, m, now).replies)
<1> DEFINE step == Accepted(s, m, now)
<1> USE DEF Step
<1>1. CASE m.tag = "Initialize"
  <2>1. step = Step(s, <<Ready>>)
    BY <1>1 DEF Accepted
  <2> QED BY <1>1, <2>1 DEF Handles, Ready
<1>2. CASE m.tag = "Analyze"
  <2>1. step = StartAnalysis(s, m, now)
    BY <1>2 DEF Accepted
  <2>2. CASE s.active.gen = 0
    <3>1. step.replies = <<>> /\ step.state.active.gen = m.gen
      BY <2>1, <2>2 DEF StartAnalysis, Analysing, RuntimeState
    <3> QED BY <1>2, <3>1 DEF Handles
  <2>3. CASE s.active.gen # 0
    <3>1. step.replies = <<Superseded(s.active.gen)>>
      BY <2>1, <2>3 DEF StartAnalysis
    <3>2. Superseded(s.active.gen).tag = "Superseded"
      BY DEF Superseded
    <3> QED BY <1>2, <2>3, <3>1, <3>2 DEF Handles
  <2> QED BY <2>2, <2>3
<1>3. CASE m.tag = "SupersedeAnalysis"
  <2>1. step = Step(WithoutGeneration(s, m.gen), <<Superseded(m.gen)>>)
    BY <1>3 DEF Accepted
  <2>2. Superseded(m.gen).tag = "Superseded" /\ Superseded(m.gen).gen = m.gen
    BY DEF Superseded
  <2>3. step.state.active.gen = IF s.active.gen = m.gen THEN 0 ELSE s.active.gen
    BY <2>1, WithoutGenerationFacts DEF NoAnalysis
  <2> QED BY <1>3, <2>1, <2>2, <2>3 DEF Handles
<1>4. CASE m.tag = "Query"
  <2>1. step = StartQuery(s, m)
    BY <1>4 DEF Accepted
  <2>2. /\ step.state.active = s.active
        /\ step.replies = <<>> \/ step.replies = <<Unavailable(m)>>
    BY <2>1 DEF StartQuery, WithoutQuery, RuntimeState
  <2>3. Unavailable(m).tag = "Result"
    BY DEF Unavailable
  <2> QED BY <1>4, <2>2, <2>3 DEF Handles
<1>5. CASE m.tag = "CancelQuery"
  <2>1. step.state.active = s.active /\ step.replies = <<>>
    BY <1>5 DEF Accepted, WithoutQuery, RuntimeState
  <2> QED BY <1>5, <2>1 DEF Handles
<1>6. CASE m.tag = "Shutdown"
  <2>1. step.replies = <<Stopped>> /\ Stopped.tag = "Stopped"
    BY <1>6 DEF Accepted, Stopped
  <2> QED BY <1>6, <2>1 DEF Handles
<1> QED BY <1>1, <1>2, <1>3, <1>4, <1>5, <1>6 DEF HostMessage

\* The worker in the slot of a context takes its oldest message.
LEMMA ServesAccepts ==
  ASSUME NEW p \in ProjectRecord, NEW s \in RuntimeState, NEW box \in Seq(HostMessage),
         box # <<>>, NEW out \in Seq(WorkerMessage \cup {Died}), Serves(p, s, box, out),
         WorkOf(p, s, box), NEW t, NEW news, NEW new, Handles(s, Head(box), t, news),
         news = <<>> => new = out, \A r : news = <<r>> => new = Append(out, r)
  PROVE  Serves(p, t, Tail(box), new)
<1> DEFINE m == Head(box)
<1> DEFINE v == s.active.gen
<1> DEFINE A == Gens(Tail(box), "Analyze")
<1> DEFINE S == Gens(Tail(box), "SupersedeAnalysis")
<1> DEFINE C == Gens(out, "Commit")
<1> DEFINE R == Gens(out, "Superseded")
<1>1. /\ m \in HostMessage /\ m \in Messages(box) /\ m.tag # "Shutdown" /\ v \in Nat
      /\ \A n \in Messages(Tail(box)) : n.tag # "Shutdown"
      /\ p.active # 0 => Behind(Tail(box), p.active)
  <2>1. m \in HostMessage
    BY TailFacts
  <2>2. Messages(box) = {m} \cup Messages(Tail(box))
    BY MessagesAre
  <2>3. v \in Nat
    BY DEF RuntimeState, AnalysisRecord
  <2>4. p.active # 0 => Behind(Tail(box), p.active)
    BY BehindKept DEF Serves
  <2> QED BY <2>1, <2>2, <2>3, <2>4 DEF Serves
<1>2. /\ Gens(box, "Analyze") = IF m.tag = "Analyze" THEN A \cup {m.gen} ELSE A
      /\ Gens(box, "SupersedeAnalysis") =
           IF m.tag = "SupersedeAnalysis" THEN S \cup {m.gen} ELSE S
  BY GensTail
<1>3. m.tag = "Analyze" => m.gen > v /\ m.gen \notin A
  <2>1. m.tag = "Analyze" => m.gen \in Gens(box, "Analyze")
    BY <1>1 DEF Gens
  <2> QED BY <2>1, WaitingAnalyses
<1>4. m.tag = "SupersedeAnalysis" /\ m.gen = p.active => A = {}
  <2>1. CASE p.active # 0
    BY <2>1, BehindKept DEF Serves
  <2>2. CASE p.active = 0
    BY <1>2, <2>2 DEF Serves, Linked
  <2> QED BY <2>1, <2>2
<1>5. Linked(p, v, Gens(box, "Analyze"), Gens(box, "SupersedeAnalysis"), C, R)
  BY DEF Serves
<1>6. Handles(s, m, t, news)
  OBVIOUS
<1>7. \A r, tag : news = <<r>> =>
        Gens(new, tag) = IF r.tag = tag THEN Gens(out, tag) \cup {r.gen} ELSE Gens(out, tag)
  <2> SUFFICES ASSUME NEW r, NEW tag, news = <<r>>
               PROVE  Gens(new, tag) =
                        IF r.tag = tag THEN Gens(out, tag) \cup {r.gen} ELSE Gens(out, tag)
    OBVIOUS
  <2>1. new = Append(out, r)
    OBVIOUS
  <2> QED BY <2>1, GensAppend
<1> HIDE DEF m, v, A, S, C, R
<1>8. Linked(p, t.active.gen, A, S, Gens(new, "Commit"), Gens(new, "Superseded"))
  <2>1. CASE m.tag = "Analyze"
    <3>1. Linked(p, v, A \cup {m.gen}, S, C, R)
      BY <1>2, <1>5, <2>1
    <3>2. v = 0 /\ Linked(p, m.gen, A, S, C, R)
      BY <1>1, <1>3, <2>1, <3>1, LinkedAnalysis
    <3>3. new = out /\ t.active.gen = m.gen
      BY <1>6, <2>1, <3>2 DEF Handles, v
    <3> QED BY <3>2, <3>3 DEF C, R
  <2>2. CASE m.tag = "SupersedeAnalysis"
    <3>1. Linked(p, v, A, S \cup {m.gen}, C, R)
      BY <1>2, <1>5, <2>2
    <3>2. t.active.gen = (IF v = m.gen THEN 0 ELSE v)
      BY <1>6, <2>2 DEF Handles, v
    <3>3. Linked(p, t.active.gen, A, S, C, R \cup {m.gen})
      BY <1>4, <2>2, <3>1, <3>2, LinkedSupersedes
    <3>4. PICK r : news = <<r>> /\ r.tag = "Superseded" /\ r.gen = m.gen
      BY <1>6, <2>2 DEF Handles
    <3>5. Gens(new, "Commit") = C /\ Gens(new, "Superseded") = R \cup {m.gen}
      BY <1>7, <3>4 DEF C, R
    <3> QED BY <3>3, <3>5
  <2>3. CASE m.tag \in {"Initialize", "Query", "CancelQuery"}
    <3>1. Linked(p, v, A, S, C, R)
      BY <1>2, <1>5, <2>3
    <3>2. t.active.gen = v
      BY <1>6, <2>3 DEF Handles, v
    <3>3. Gens(new, "Commit") = C /\ Gens(new, "Superseded") = R
      <4>1. CASE news = <<>>
        BY <4>1 DEF C, R
      <4>2. ASSUME NEW r, news = <<r>>, r.tag \notin {"Commit", "Superseded"}
            PROVE  Gens(new, "Commit") = C /\ Gens(new, "Superseded") = R
        BY <1>7, <4>2 DEF C, R
      <4> QED BY <1>6, <2>3, <4>1, <4>2 DEF Handles
    <3> QED BY <3>1, <3>2, <3>3
  <2> QED BY <1>1, <2>1, <2>2, <2>3 DEF HostMessage
<1> QED BY <1>1, <1>8 DEF Serves, A, S


\* A thread takes a step; what it does to its own messages and state is given.
LEMMA ThreadStepHealth ==
  ASSUME WorkInv, TypeOK', Healthy, NEW w \in Workers, Alive(w), ThreadStep,
         UNCHANGED shuttingDown,
         \A u \in Workers : u # w => /\ proc'[u] = proc[u] /\ inbox'[u] = inbox[u]
                                     /\ runtime'[u] = runtime[u] /\ outbox'[u] = outbox[u],
         \A m \in Messages(outbox'[w]) :
           m \in Messages(outbox[w]) \/ m.tag \notin {"Died", "Failure"},
         InSlot(w) => Attends(w)'
  PROVE  Healthy'
<1> USE DEF WorkInv, TypeInv
<1>1. UNCHANGED <<project, current, retirements, signal, sup, ready, listening>>
  BY DEF ThreadStep, projectVars, fiberVars
<1>2. WorkerHealth(w)'
  <2>1. Sound(w)'
    BY <1>1 DEF Healthy, WorkerHealth, Sound
  <2>2. ~(w[2] > project[w[1]].epoch)
    BY DEF CommitInv, EpochsInOrder, Alive
  <2>3. Unspawned(w)'
    BY <1>1, <2>2 DEF Unspawned
  <2>4. InSlot(w)' => InSlot(w)
    BY <1>1 DEF InSlot
  <2> QED BY <2>1, <2>3, <2>4 DEF WorkerHealth
<1>3. \A u \in Workers : u # w => SameWorker(u)
  BY <1>1 DEF SameWorker
<1> QED BY <1>1, <1>2, <1>3, WorkerStepHealth DEF SupervisorTurns, SameSlots

LEMMA AcceptHealth ==
  ASSUME WorkInv, TypeOK', Healthy, NEW w \in Workers, WorkerAccepts(w)
  PROVE  Healthy'
<1> USE DEF WorkInv, TypeInv
<1> DEFINE m == Head(inbox[w])
<1> DEFINE step == Accepted(runtime[w], m, disk)
<1> DEFINE news == step.replies
<1> DEFINE t == step.state
<1>1. /\ ThreadStep /\ UNCHANGED shuttingDown /\ proc[w] = "live" /\ inbox[w] # <<>>
      /\ PostToHost(w, news)
      /\ IF m.tag = "Shutdown" THEN Exit(w)
         ELSE /\ runtime' = [runtime EXCEPT ![w] = t]
              /\ inbox' = [inbox EXCEPT ![w] = Tail(@)]
              /\ UNCHANGED proc
  BY DEF WorkerAccepts
<1>2. /\ w[1] \in Contexts /\ project[w[1]] \in ProjectRecord
      /\ runtime[w] \in RuntimeState /\ inbox[w] \in Seq(HostMessage)
      /\ outbox[w] \in Seq(WorkerMessage \cup {Died}) /\ WorkerHealth(w)
      /\ WorkOf(project[w[1]], runtime[w], inbox[w])
  BY DEF TypeOK, Workers, Healthy, CommitInv, WorkOrdered
<1>3. m \in HostMessage /\ m \in Messages(inbox[w])
  BY <1>1, <1>2, TailFacts, MessagesAre
<1>4. Handles(runtime[w], m, t, news)
  BY <1>2, <1>3, AcceptedHandles
<1> HIDE DEF step
<1>5. news = <<>> \/ \E r : news = <<r>> /\ r.tag \notin {"Failure", "Died"}
  BY <1>4 DEF Handles
<1>6. /\ \A u \in Workers : u # w => outbox'[u] = outbox[u]
      /\ Messages(outbox'[w]) \subseteq Messages(outbox[w]) \cup Messages(news)
  BY <1>1, <1>5, PostMessages
<1>7. \A r \in Messages(news) : r.tag \notin {"Died", "Failure"}
  BY <1>5 DEF Messages
<1>8. \A u \in Workers : u # w =>
        proc'[u] = proc[u] /\ inbox'[u] = inbox[u] /\ runtime'[u] = runtime[u]
  BY <1>1 DEF Exit, TypeOK
<1>9. ASSUME InSlot(w) PROVE Attends(w)'
  <2>1. Attends(w)
    BY <1>2, <1>9 DEF WorkerHealth
  <2>2. m.tag # "Shutdown"
    BY <1>3, <2>1 DEF Attends, Serves
  <2>3. runtime'[w] = t /\ inbox'[w] = Tail(inbox[w]) /\ proc'[w] = "live"
    BY <1>1, <2>2 DEF TypeOK
  <2>4. /\ news = <<>> => outbox'[w] = outbox[w]
        /\ \A r : news = <<r>> => outbox'[w] = Append(outbox[w], r)
    <3>1. outbox'[w] = outbox[w] \o news
      BY <1>1, <2>1 DEF PostToHost, Attends, TypeOK
    <3> QED BY <1>2, <3>1, PostNothing, PostOne
  <2>5. Serves(project[w[1]], t, Tail(inbox[w]), outbox'[w])
    BY <1>1, <1>2, <1>4, <2>1, <2>4, ServesAccepts DEF Attends
  <2>6. UNCHANGED <<project, listening>>
    BY <1>1 DEF ThreadStep, projectVars
  <2> HIDE DEF t
  <2> QED BY <1>1, <2>1, <2>3, <2>5, <2>6 DEF Attends
<1> QED BY <1>1, <1>6, <1>7, <1>8, <1>9, ThreadStepHealth DEF Alive

\* The worker ends an analysis or a query.
LEMMA EndHealth ==
  ASSUME WorkInv, TypeOK', Healthy, NEW w \in Workers, WorkerCommits(w) \/ WorkerAnswers(w)
  PROVE  Healthy'
<1> USE DEF WorkInv, TypeInv
<1> DEFINE p == project[w[1]]
<1> DEFINE s == runtime[w]
<1>1. /\ w[1] \in Contexts /\ p \in ProjectRecord /\ GenerationsMatch(p)
      /\ s \in RuntimeState /\ inbox[w] \in Seq(HostMessage)
      /\ outbox[w] \in Seq(WorkerMessage \cup {Died}) /\ WorkerHealth(w)
      /\ WorkOf(p, s, inbox[w])
  BY DEF TypeOK, Workers, Healthy, CommitInv, WorkOrdered, ContextsMatch
<1>2. PICK t, r :
        /\ proc[w] = "live" /\ WorkerRuns(w, Step(t, <<r>>))
        /\ \/ s.active.gen # 0 /\ t.active.gen = 0 /\ r.tag = "Commit" /\ r.gen = s.active.gen
           \/ t.active.gen = s.active.gen /\ r.tag = "Result"
  <2>1. CASE WorkerCommits(w)
    <3> DEFINE t == [s EXCEPT !.active = NoAnalysis, !.committed = s.active]
    <3>1. t.active.gen = 0
      BY <1>1 DEF RuntimeState, NoAnalysis
    <3>2. Commit(s.active.gen).tag = "Commit" /\ Commit(s.active.gen).gen = s.active.gen
      BY DEF Commit
    <3>3. /\ proc[w] = "live" /\ s.active.gen # 0
          /\ WorkerRuns(w, Step(t, <<Commit(s.active.gen)>>))
      BY <2>1 DEF WorkerCommits, Completed
    <3> HIDE DEF t
    <3> QED BY <3>1, <3>2, <3>3
  <2>2. CASE WorkerAnswers(w)
    <3>1. PICK q \in s.queries : WorkerRuns(w, Answered(s, q))
      BY <2>2 DEF WorkerAnswers
    <3> DEFINE t == [s EXCEPT !.queries = @ \ {q}]
    <3>2. t.active.gen = s.active.gen
      BY <1>1 DEF RuntimeState
    <3>3. Answer(q).tag = "Result"
      BY DEF Answer
    <3>4. proc[w] = "live" /\ WorkerRuns(w, Step(t, <<Answer(q)>>))
      BY <2>2, <3>1 DEF WorkerAnswers, Answered
    <3> HIDE DEF t
    <3> QED BY <3>2, <3>3, <3>4
  <2> QED BY <2>1, <2>2
<1>3. /\ ThreadStep /\ PostToHost(w, <<r>>) /\ runtime' = [runtime EXCEPT ![w] = t]
      /\ UNCHANGED <<proc, inbox, shuttingDown>>
  BY <1>2 DEF WorkerRuns, Step
<1>4. /\ \A u \in Workers : u # w => outbox'[u] = outbox[u]
      /\ Messages(outbox'[w]) \subseteq Messages(outbox[w]) \cup Messages(<<r>>)
  BY <1>3, PostMessages
<1>5. \A n \in Messages(<<r>>) : n.tag \notin {"Died", "Failure"}
  BY <1>2 DEF Messages
<1>6. runtime'[w] = t /\ \A u \in Workers : u # w => runtime'[u] = runtime[u]
  BY <1>3 DEF TypeOK
<1>7. ASSUME InSlot(w) PROVE Attends(w)'
  <2>1. Attends(w)
    BY <1>1, <1>7 DEF WorkerHealth
  <2>2. outbox'[w] = Append(outbox[w], r)
    <3>1. outbox'[w] = outbox[w] \o <<r>>
      BY <1>3, <2>1 DEF PostToHost, Attends, TypeOK
    <3> QED BY <1>1, <3>1, PostOne
  <2> DEFINE A == Gens(inbox[w], "Analyze")
  <2> DEFINE S == Gens(inbox[w], "SupersedeAnalysis")
  <2> DEFINE C == Gens(outbox[w], "Commit")
  <2> DEFINE R == Gens(outbox[w], "Superseded")
  <2>3. /\ Gens(outbox'[w], "Commit") = IF r.tag = "Commit" THEN C \cup {r.gen} ELSE C
        /\ Gens(outbox'[w], "Superseded") = R
    <3>1. \A tag : Gens(outbox'[w], tag) =
            IF r.tag = tag THEN Gens(outbox[w], tag) \cup {r.gen} ELSE Gens(outbox[w], tag)
      <4>1. outbox[w] \in Seq(WorkerMessage \cup {Died})
        BY <1>1
      <4>2. \A tag : Gens(Append(outbox[w], r), tag) =
              IF r.tag = tag THEN Gens(outbox[w], tag) \cup {r.gen} ELSE Gens(outbox[w], tag)
        BY <4>1, GensAppend, Zenon
      <4> QED BY ONLY <2>2, <4>2
    <3>2. r.tag # "Superseded"
      BY <1>2
    <3>3. Gens(outbox'[w], "Commit") = IF r.tag = "Commit" THEN C \cup {r.gen} ELSE C
      BY ONLY <3>1
    <3>4. Gens(outbox'[w], "Superseded") = R
      BY ONLY <3>1, <3>2
    <3> QED BY ONLY <3>3, <3>4
  <2>4. Linked(p, s.active.gen, A, S, C, R) /\ Numbers(A, S, C, R)
    BY <2>1, NumbersOf DEF Attends, Serves
  <2>5. \A g \in A : g > s.active.gen
    BY <1>1, WaitingAnalyses
  <2> HIDE DEF A, S, C, R
  <2>6. Linked(p, t.active.gen, A, S, Gens(outbox'[w], "Commit"), Gens(outbox'[w], "Superseded"))
    BY <1>1, <1>2, <2>3, <2>4, <2>5, LinkedCommits
  <2>7. Serves(p, t, inbox[w], outbox'[w])
    BY <2>1, <2>6 DEF Attends, Serves, A, S
  <2>8. UNCHANGED <<project, listening>>
    BY <1>3 DEF ThreadStep, projectVars
  <2> QED BY <1>3, <1>6, <2>1, <2>7, <2>8 DEF Attends
<1> QED BY <1>2, <1>3, <1>4, <1>5, <1>6, <1>7, ThreadStepHealth DEF Alive

LEMMA ThreadHealth ==
  ASSUME WorkInv, TypeOK', Healthy, NEW w \in Workers, ThreadNext(w)
  PROVE  Healthy'
<1> USE DEF WorkInv, TypeInv
<1>1. CASE Terminate(w)
  <2>1. /\ Alive(w) /\ w \in shuttingDown /\ ThreadStep /\ Exit(w)
        /\ UNCHANGED <<shuttingDown, outbox>>
    BY <1>1 DEF Terminate
  <2>2. \A u \in Workers : u # w => /\ proc'[u] = proc[u] /\ inbox'[u] = inbox[u]
                                    /\ runtime'[u] = runtime[u] /\ outbox'[u] = outbox[u]
    BY <2>1 DEF Exit, TypeOK
  <2>3. ~InSlot(w)
    BY <2>1 DEF Healthy, WorkerHealth, Attends
  <2> QED BY <2>1, <2>2, <2>3, ThreadStepHealth
<1> QED BY <1>1, AcceptHealth, EndHealth DEF ThreadNext


-----------------------------------------------------------------------------
\* What needs a fault.

\* When nothing is on its way, the worker runs what is active.
LEMMA SilentWorks ==
  ASSUME WorkInv, Running, Healthy, NEW c \in Contexts, project[c].slot # 0, Silent(SlotOf(c))
  PROVE  /\ project[c].active # 0 => WorksOn(SlotOf(c), project[c].active)
         /\ project[c].awaitingSupersede = 0
<1> USE DEF WorkInv, TypeInv
<1> DEFINE p == project[c]
<1>1. PICK w \in Workers : w = SlotOf(c)
  BY SlotType DEF TypeOK, SlotOf
<1>2. w[1] = c /\ w[2] = p.slot
  BY <1>1 DEF SlotOf
<1>3. Attends(w) /\ ContextHealth(c) /\ p \in ProjectRecord
  BY <1>2 DEF Healthy, WorkerHealth, InSlot, TypeOK
<1>4. sup.pc = "idle" /\ ~signal /\ outbox[w] = <<>> /\ inbox[w] = <<>>
  BY <1>1, <1>3 DEF Silent, Attends
<1>5. Linked(p, runtime[w].active.gen, {}, {}, {}, {})
  BY <1>2, <1>3, <1>4, GensEmpty DEF Attends, Serves
<1>6. /\ p.awaitingSupersede = 0
      /\ p.active # 0 => runtime[w].active.gen = p.active \/ p.active < p.gen
  BY <1>5 DEF Linked
<1>7. p.state # "Closed"
  <2>1. c \notin retirements
    BY <1>4 DEF Healthy, SupervisorHealth
  <2>2. c = current
    BY <1>3, <2>1 DEF ContextHealth, Slotted
  <2>3. current # 0
    BY <2>2, EngineAssumption DEF Contexts
  <2> QED BY <2>2, <2>3, CurrentIsOpen
<1>8. p.supersedeRequested = 0
  BY <1>3, <1>4, <1>7 DEF ContextHealth, Asked
<1>9. p.active # 0 => p.active = p.gen
  BY <1>3, <1>6, <1>7, <1>8 DEF ContextHealth, Fields
<1>10. p.active # 0 => ~(p.active < p.gen)
  <2>1. p.gen \in Nat
    BY <1>3 DEF ProjectRecord
  <2> HIDE DEF p
  <2> QED BY <1>9, <2>1
<1>11. proc[w] = "live"
  BY <1>3 DEF Attends
<1> QED BY <1>1, <1>6, <1>10, <1>11 DEF WorksOn

\* A fault is counted.
LEMMA FaultCounts == \A kind : faults = 0 /\ Fault(kind) => faults' # 0
  BY DEF Fault

LEMMA NoFault ==
  ASSUME faults = 0, faults' = 0, Faulty
  PROVE  FALSE
<1>1. \A kind : ~Fault(kind)
  BY FaultCounts
<1> QED BY <1>1 DEF Faulty, SpawnFails, Stall, WorkerDefects, WorkerForgetsQuery, WorkerDies,
                    WorkerHangs

\* The supervisor starts an analysis on a worker that is alive.
LEMMA StartsQuietly ==
  ASSUME WorkInv, Healthy, DebounceStart \/ WorkerIsReady
  PROVE  failing' = failing /\ leasing' = leasing
<1> USE DEF WorkInv, TypeInv
<1>1. CASE DebounceStart
  <2>1. current \in Contexts /\ project[current].slot # 0
    BY <1>1 DEF DebounceStart, Startable, TypeOK
  <2>2. PICK w \in Workers : w = SlotOf(current)
    BY <2>1, SlotType DEF TypeOK, SlotOf
  <2>3. InSlot(w)
    BY <2>2 DEF InSlot, SlotOf
  <2>4. Alive(SlotOf(current))
    BY <2>2, <2>3 DEF Healthy, WorkerHealth, Attends, Alive
  <2> QED BY <1>1, <2>4 DEF DebounceStart, StartAnalysisOn
<1>2. CASE WorkerIsReady
  <2>1. sup.pc = "ensuring" /\ sup.on \subseteq Workers
    BY <1>2 DEF WorkerIsReady, TypeOK, SupervisorRecord
  <2>2. \A w \in sup.on : Alive(w)
    BY <2>1 DEF Healthy, SupervisorHealth, WorkerHealth, Attends, Alive
  <2> QED BY <1>2, <2>2 DEF WorkerIsReady, StartAnalysisOn
<1> QED BY <1>1, <1>2

\* The worker the supervisor waits for does not fail to become ready.
LEMMA BecomesReady ==
  ASSUME WorkInv, Healthy, faults = 0, faults' = 0, WorkerNeverReady \/ ReadinessExpires
  PROVE  FALSE
<1> USE DEF WorkInv, TypeInv
<1>1. sup.pc = "ensuring" /\ sup.on \subseteq Workers
  BY DEF WorkerNeverReady, ReadinessExpires, TypeOK, SupervisorRecord
<1>2. \A w \in sup.on : ready[w] # "failed" /\ proc[w] = "live"
  BY <1>1 DEF Healthy, SupervisorHealth, WorkerHealth, Attends, Sound
<1>3. ~Fault("slowStart")
  BY FaultCounts
<1> QED BY <1>2, <1>3 DEF WorkerNeverReady, ReadinessExpires

\* No listener reads that something failed.
LEMMA ListensQuietly ==
  ASSUME WorkInv, Healthy, NEW w \in Workers, ListenerNext(w)
  PROVE  failing' = failing /\ leasing' = leasing /\ sup' = sup
<1> USE DEF WorkInv, TypeInv
<1>1. leasing' = leasing /\ (NoFailure \/ ReceiveFailure(w) \/ ReceiveDied(w))
  BY DEF ListenerNext, ReceiveStale, ReceiveReady, ReceiveSuperseded, ReceiveCommit,
         ReceiveFailure, ReceiveResult, ReceiveDied, Receive
<1>2. ASSUME outbox[w] # <<>> PROVE Head(outbox[w]).tag \notin {"Died", "Failure"}
  BY <1>2, MessagesAre DEF Healthy, WorkerHealth, Sound, TypeOK
<1>3. ~ReceiveFailure(w) /\ ~ReceiveDied(w)
  BY <1>2 DEF ReceiveFailure, ReceiveDied, Receive
<1> QED BY <1>1, <1>3 DEF NoFailure

\* No lease expires.
LEMMA NoLeaseExpires ==
  ASSUME WorkInv, Running, Healthy, faults = 0, faults' = 0, NEW c \in Contexts
  PROVE  ~NoProgress(c) /\ ~LeaseExpires(c)
<1>1. project[c].slot = 0 => project[c].active = 0
  BY DEF Healthy, ContextHealth, Fields
<1>2. ~Fault("lease")
  BY FaultCounts
<1> QED BY <1>1, <1>2, SilentWorks DEF NoProgress, LeaseExpires

\* No failure and no lease, and health goes on, when no fault happens.
LEMMA QuietStep ==
  ASSUME WorkInv, TypeOK', Running, Healthy, failing = {}, leasing = {},
         faults = 0, faults' = 0, Next, DiscoveryIsSeen, ~ShutdownBegins
  PROVE  Healthy' /\ failing' = {} /\ leasing' = {}
<1>1. CASE Client
  <2>1. failing' = failing /\ leasing' = leasing
    BY <1>1 DEF Client, Open, ChangeAssociated, ChangeUndiscovered, Close, Invalidate, Ask,
                Abandon, SourceEvent, ClientStep, fiberVars
  <2> QED BY <1>1, <2>1, EventHealth, RequestHealth DEF Client
<1>2. CASE SupervisorNext
  <2>1. CASE TakeSignal \/ FinishRetirements
    BY <2>1, RetirementHealth DEF TakeSignal, FinishRetirements
  <2>2. CASE Discovered
    BY <2>2, DiscoveredHealth DEF Discovered
  <2>3. CASE DebounceIdle \/ DebounceStart \/ WorkerIsReady
    BY <2>3, StartHealth, StartsQuietly DEF DebounceIdle
  <2>4. CASE DebounceSpawn
    BY <2>4, SpawnHealth DEF DebounceSpawn
  <2> QED BY <1>2, <2>1, <2>2, <2>3, <2>4, BecomesReady DEF SupervisorNext
<1>3. CASE \E r \in Requests : Resume(r)
  BY <1>3, RequestHealth DEF Resume, ClientStep, fiberVars
<1>4. CASE \E w \in Workers : ListenerNext(w)
  BY <1>4, ReceiveHealth, ListensQuietly
<1>5. CASE \E w \in Workers : ThreadNext(w)
  <2>1. ThreadStep
    BY <1>5 DEF ThreadNext, WorkerAccepts, WorkerCommits, WorkerAnswers, Terminate, WorkerRuns
  <2>2. failing' = failing /\ leasing' = leasing
    BY <2>1 DEF ThreadStep, fiberVars
  <2> QED BY <1>5, <2>2, ThreadHealth
<1>6. ~(\E w \in Workers : FinishLease(w)) /\ ~(\E f \in failing : FinishFailure(f))
  BY DEF FinishLease
<1>7. ASSUME NEW c \in Contexts PROVE ~NoProgress(c) /\ ~LeaseExpires(c)
  BY NoLeaseExpires
<1>8. ~ShutdownEnds
  BY DEF ShutdownEnds, Running
<1> QED BY <1>1, <1>2, <1>3, <1>4, <1>5, <1>6, <1>7, <1>8, NoFault DEF Next


\* Once the engine is being shut down, nothing starts to fail.
LEMMA StoppedStep ==
  ASSUME ~Running, Next
  PROVE  /\ ~Running' /\ project' = project /\ current' \in {current, 0}
         /\ failing' \in {failing, {}} /\ leasing' \in {leasing, {}}
<1>1. CASE ShutdownEnds
  BY <1>1 DEF ShutdownEnds, Running
<1>2. CASE \E w \in Workers :
             ThreadNext(w) \/ WorkerDefects(w) \/ WorkerForgetsQuery(w) \/ WorkerDies(w)
               \/ WorkerHangs(w)
  <2>1. ThreadStep
    BY <1>2 DEF ThreadNext, WorkerAccepts, WorkerCommits, WorkerAnswers, Terminate, WorkerDefects,
                WorkerForgetsQuery, WorkerDies, WorkerHangs, WorkerRuns
  <2> QED BY <2>1 DEF ThreadStep, projectVars, fiberVars, Running
<1>3. ~Client
  BY DEF Client, Open, ChangeAssociated, ChangeUndiscovered, Close, Invalidate, Ask, Abandon,
         SourceEvent, ClientStep, ShutdownBegins
<1>4. ~SupervisorNext /\ \A r \in Requests : ~Resume(r)
  BY DEF SupervisorNext, TakeSignal, FinishRetirements, Discovered, DebounceIdle, DebounceStart,
         DebounceSpawn, WorkerIsReady, WorkerNeverReady, ReadinessExpires, SupervisorStep,
         Resume, ClientStep
<1>5. \A w \in Workers : ~ListenerNext(w) /\ ~FinishLease(w)
  BY DEF ListenerNext, ReceiveStale, ReceiveReady, ReceiveSuperseded, ReceiveCommit,
         ReceiveFailure, ReceiveResult, ReceiveDied, Receive, FinishLease, SupervisorStep
<1>6. /\ \A c \in Contexts : ~NoProgress(c) /\ ~LeaseExpires(c) /\ ~Stall(c)
      /\ \A f \in failing : ~FinishFailure(f)
      /\ ~SpawnFails
  BY DEF NoProgress, LeaseExpires, Stall, WatchdogStep, FinishFailure, SupervisorStep, SpawnFails
<1> QED BY <1>1, <1>2, <1>3, <1>4, <1>5, <1>6 DEF Next, Faulty

\* Faults are not forgotten.
LEMMA FaultsStay ==
  ASSUME faults \in Nat, [Next]_vars, faults' = 0
  PROVE  faults = 0
<1>1. \A kind : ~Fault(kind)
  BY DEF Fault
<1>2. CASE Client
  BY <1>2 DEF Client, Open, ChangeAssociated, ChangeUndiscovered, Close, Invalidate, Ask, Abandon,
              SourceEvent, ClientStep, ShutdownBegins
<1>3. CASE SupervisorNext \/ \E r \in Requests : Resume(r)
  BY <1>1, <1>3 DEF SupervisorNext, TakeSignal, FinishRetirements, Discovered, DebounceIdle,
     DebounceStart, DebounceSpawn, WorkerIsReady, WorkerNeverReady, ReadinessExpires,
     SupervisorStep, Resume, ClientStep
<1>4. CASE \E w \in Workers : ListenerNext(w) \/ ThreadNext(w) \/ FinishLease(w)
  BY <1>4 DEF ListenerNext, ReceiveStale, ReceiveReady, ReceiveSuperseded, ReceiveCommit,
     ReceiveFailure, ReceiveResult, ReceiveDied, Receive, FinishLease, SupervisorStep,
     ThreadNext, WorkerAccepts, WorkerCommits, WorkerAnswers, Terminate
<1>5. CASE \/ \E c \in Contexts : NoProgress(c) \/ LeaseExpires(c)
           \/ \E f \in failing : FinishFailure(f)
           \/ ShutdownEnds \/ UNCHANGED vars
  BY <1>1, <1>5 DEF NoProgress, LeaseExpires, FinishFailure, SupervisorStep, ShutdownEnds, vars
<1>6. ~Faulty
  BY <1>1 DEF Faulty, SpawnFails, Stall, WorkerDefects, WorkerForgetsQuery, WorkerDies,
              WorkerHangs
<1> QED BY <1>2, <1>3, <1>4, <1>5, <1>6 DEF Next

-----------------------------------------------------------------------------
\* The invariant holds.

LEMMA HealthIsUnfailing ==
  ASSUME TypeOK, Healthy, failing = {}, leasing = {}
  PROVE  Unfailing
  BY DEF Unfailing, CurrentState, Healthy, ContextHealth, Fields, TypeOK

LEMMA ClosingIsUnfailing ==
  ASSUME TypeOK, Unfailing, ShutdownBegins
  PROVE  Unfailing' /\ ~Running'
<1>1. ~Running' /\ UNCHANGED <<failing, leasing, current>>
  BY DEF ShutdownBegins, Running, fiberVars
<1>2. CASE current = 0
  BY <1>1, <1>2 DEF ShutdownBegins, Unfailing, CurrentState
<1>3. CASE current # 0
  <2> DEFINE q == [Retired(project[current]) EXCEPT !.state = "Closed"]
  <2>1. current \in Contexts /\ project[current] \in ProjectRecord
    BY <1>3 DEF TypeOK
  <2>2. q.active = 0 /\ q.state = "Closed"
    BY <2>1 DEF Retired, ProjectRecord
  <2>3. project' = [project EXCEPT ![current] = q]
    BY <1>3 DEF ShutdownBegins
  <2> HIDE DEF q
  <2>4. \A c \in Contexts : project'[c] = IF c = current THEN q ELSE project[c]
    BY <2>3 DEF TypeOK
  <2>5. \A c \in Contexts : SupersedesActive(project'[c])
    BY <2>2, <2>4 DEF SupersedesActive, Unfailing
  <2> QED BY <1>1, <2>1, <2>2, <2>4, <2>5 DEF Unfailing, CurrentState
<1> QED BY <1>1, <1>2, <1>3

LEMMA InitHealth == Init => HealthInv
<1> SUFFICES ASSUME Init PROVE Unfailing /\ Healthy
  BY DEF HealthInv
<1>1. /\ \A c \in Contexts : project[c] = NewProject
      /\ \A w \in Workers : /\ ready[w] = "waiting" /\ outbox[w] = <<>> /\ runtime[w] = Fresh
                            /\ w[1] \in Contexts /\ w[2] # 0
      /\ retirements = {} /\ sup.pc = "idle" /\ shuttingDown = {}
      /\ failing = {} /\ leasing = {} /\ current = 0
  BY EngineAssumption DEF Init, Supervisor, Workers, Epochs
<1>2. \A c \in Contexts : ContextHealth(c) /\ SupersedesActive(project[c])
  BY <1>1 DEF ContextHealth, Fields, Asked, Slotted, SupersedesActive, NewProject
<1>3. \A w \in Workers : WorkerHealth(w)
  <2>1. \A m \in Messages(<<>>) : FALSE
    BY DEF Messages
  <2>2. Fresh.active.gen = 0
    BY DEF Fresh, NoAnalysis
  <2> QED BY <1>1, <2>1, <2>2 DEF WorkerHealth, Sound, Unspawned, InSlot, NewProject
<1> QED BY <1>1, <1>2, <1>3 DEF Healthy, SupervisorHealth, Unfailing, CurrentState

LEMMA StepHealth ==
  ASSUME WorkInv, WorkInv', HealthInv, [Next /\ DiscoveryIsSeen]_vars
  PROVE  HealthInv'
<1> SUFFICES ASSUME faults' = 0 PROVE Unfailing' /\ (Running => Healthy)'
  BY DEF HealthInv
<1>1. faults = 0 /\ TypeOK /\ TypeOK'
  BY FaultsStay DEF WorkInv, TypeInv, TypeOK
<1>2. Unfailing /\ (Running => Healthy)
  BY <1>1 DEF HealthInv
<1>3. CASE UNCHANGED vars
  BY <1>2, <1>3 DEF vars, sourceVars, projectVars, fiberVars, threadVars, Unfailing,
     CurrentState, SupersedesActive, Running, Healthy, SupervisorHealth, ContextHealth, Fields,
     Asked, Slotted, WorkerHealth, Sound, Unspawned, Attends, InSlot, Serves
<1>4. CASE Next /\ ~Running
  BY <1>1, <1>2, <1>4, StoppedStep DEF Unfailing, CurrentState
<1>5. CASE ShutdownBegins
  BY <1>1, <1>2, <1>5, ClosingIsUnfailing
<1>6. CASE Next /\ DiscoveryIsSeen /\ Running /\ ~ShutdownBegins
  <2>1. Healthy' /\ failing' = {} /\ leasing' = {}
    BY <1>1, <1>2, <1>6, QuietStep DEF Unfailing
  <2>2. Unfailing'
    BY <1>1, <2>1 DEF Unfailing, CurrentState, Healthy, ContextHealth, Fields, TypeOK
  <2> QED BY <2>1, <2>2
<1> QED BY <1>3, <1>4, <1>5, <1>6

LEMMA HealthHolds == Spec /\ [][DiscoveryIsSeen]_vars => []HealthInv
<1>1. WorkInv /\ WorkInv' /\ HealthInv /\ [Next /\ DiscoveryIsSeen]_vars => HealthInv'
  BY StepHealth
<1> QED BY <1>1, InitHealth, WorkHolds, PTL DEF Spec

\* While nothing outside the engine goes wrong, no project fails: no order of edits,
\* discoveries, supersedes and retirements makes an analysis fail or run out of time.
\* Hypothesis: a discovery finds the supervisor signaled, or nothing active.
THEOREM HealthyDoNotFail == Spec /\ [][DiscoveryIsSeen]_vars => []HealthyProjectsDoNotFail
<1>1. HealthInv => HealthyProjectsDoNotFail
  BY DEF HealthInv, Unfailing, HealthyProjectsDoNotFail
<1> QED BY <1>1, HealthHolds, PTL


-----------------------------------------------------------------------------
\* A workspace of one document.

\* A document that belongs to a project is discovered again only before the project
\* is started: it was closed and opened again while it was being discovered.
Rediscovered ==
  Running /\ current # 0 /\ (discovery # {} \/ sup.pc = "discovering") =>
    project[current].active = 0 /\ sup.pc \in {"debounce", "retiring", "discovering"}

LEMMA ScheduleActive ==
  ASSUME NEW p \in ProjectRecord
  PROVE  Schedule(p).active = p.active
  BY DEF Schedule, ProjectRecord

\* A context that was not created runs nothing.
LEMMA UncreatedIsIdle ==
  ASSUME WorkInv, Healthy, NEW c \in Contexts, c > created
  PROVE  project[c].active = 0
<1> USE DEF WorkInv, TypeInv
<1>1. created \in Nat /\ current \in Nat /\ c \in Nat
  BY EngineAssumption DEF TypeOK, Contexts
<1>2. c # current /\ c \notin retirements
  BY <1>1 DEF CommitInv, CurrentInv, RetirementsLeft
<1> QED BY <1>2 DEF Healthy, ContextHealth, Slotted, Fields

\* The documents of the project in use are all there are.
LEMMA OneIsAssociated ==
  ASSUME OneDocument, WorkInv, ServiceInv, Running, current # 0, NEW d \in Docs
  PROVE  IsOpen(d) /\ Associated(d)
<1>1. current \in Contexts /\ project[current] \in ProjectRecord /\ HasDocuments(project[current])
  BY CurrentIsOpen DEF WorkInv, TypeInv
<1>2. project[current].docs[d] # NoText
  <2>1. project[current].docs # NoSources /\ project[current].docs \in [Docs -> Nat]
    BY <1>1 DEF HasDocuments, ProjectRecord, Snapshot
  <2> QED BY <2>1 DEF OneDocument, NoSources
<1> QED BY <1>1, <1>2 DEF ServiceInv, TextsInv, TextsHeld, TextHeld, Associated

\* An event does not start anything, and discovers nothing that has its project.
LEMMA EventRediscovers ==
  ASSUME OneDocument, "manifest" \notin FileEvents, WorkInv, ServiceInv, TypeOK', Rediscovered,
         Running', current' # 0, discovery' # {} \/ sup'.pc = "discovering",
         \/ \E d \in Docs : Open(d) \/ ChangeAssociated(d) \/ ChangeUndiscovered(d) \/ Close(d)
         \/ \E kind \in FileEvents : Invalidate(kind)
  PROVE  project'[current'].active = 0 /\ sup'.pc \in {"debounce", "retiring", "discovering"}
<1> USE DEF WorkInv, TypeInv
<1>1. Running /\ sup' = sup
  BY DEF Open, ChangeAssociated, ChangeUndiscovered, Close, Invalidate, SourceEvent, fiberVars
<1>2. ~(\E d \in Docs : Open(d) \/ ChangeUndiscovered(d))
  BY <1>1, OneIsAssociated DEF Open, ChangeUndiscovered, projectVars
<1>3. ~(\E d \in Docs : Close(d))
  <2> SUFFICES ASSUME NEW d \in Docs, Close(d) PROVE FALSE
    OBVIOUS
  <2>1. CASE ~Associated(d)
    <3>1. current' = current
      BY <2>1 DEF Close, projectVars
    <3> QED BY <1>1, <2>1, <3>1, OneIsAssociated
  <2>2. CASE Associated(d)
    <3>1. current \in Contexts /\ project[current].docs \in [Docs -> Nat]
      BY <2>2 DEF Associated, TypeOK, ProjectRecord, Snapshot
    <3> DEFINE left == [project[current] EXCEPT !.docs[d] = NoText]
    <3>2. left.docs = [project[current].docs EXCEPT ![d] = NoText]
      BY <3>1 DEF TypeOK, ProjectRecord
    <3>3. left.docs = NoSources
      BY <3>1, <3>2 DEF OneDocument, NoSources
    <3> QED BY <2>2, <3>3 DEF Close, HasDocuments
  <2> QED BY <2>1, <2>2
<1>4. UNCHANGED <<discovery, current>> /\ current \in Contexts
  <2>1. UNCHANGED <<discovery, current>>
    BY <1>2, <1>3 DEF ChangeAssociated, Invalidate
  <2> QED BY <2>1 DEF TypeOK
<1>5. project[current].active = 0 /\ sup.pc \in {"debounce", "retiring", "discovering"}
  BY <1>1, <1>4 DEF Rediscovered
<1>6. project'[current].active = 0
  <2>1. CASE \E d \in Docs : ChangeAssociated(d)
    <3>1. PICK d \in Docs : ChangeAssociated(d)
      BY <2>1
    <3> DEFINE q == [project[current] EXCEPT !.docs[d] = events + 1]
    <3>2. q \in ProjectRecord /\ q.active = project[current].active
      <4>1. project[current] \in ProjectRecord /\ events + 1 \in Nat
        BY <1>4 DEF TypeOK
      <4>2. q \in ProjectRecord
        BY <4>1, DocumentType
      <4> QED BY <4>1, <4>2 DEF ProjectRecord
    <3>3. project' = [project EXCEPT ![current] = Schedule(q)]
      BY <3>1 DEF ChangeAssociated
    <3> HIDE DEF q
    <3> QED BY <1>4, <1>5, <3>2, <3>3, ScheduleActive DEF TypeOK
  <2>2. CASE \E kind \in FileEvents : Invalidate(kind)
    <3>1. PICK kind \in FileEvents : Invalidate(kind)
      BY <2>2
    <3> DEFINE q == [project[current] EXCEPT !.dirty = @ \/ kind = "source",
                                             !.rediscover = @ \/ kind = "manifest"]
    <3>2. q \in ProjectRecord /\ q.active = project[current].active
      <4>1. project[current] \in ProjectRecord
        BY <1>4 DEF TypeOK
      <4> DEFINE x == [project[current] EXCEPT !.dirty = @ \/ kind = "source"]
      <4>2. x \in ProjectRecord /\ x.active = project[current].active
        BY <4>1 DEF ProjectRecord
      <4>3. q = [x EXCEPT !.rediscover = @ \/ kind = "manifest"]
        BY <4>1 DEF ProjectRecord
      <4> HIDE DEF x
      <4> QED BY <4>2, <4>3 DEF ProjectRecord
    <3>3. project' = project \/ project' = [project EXCEPT ![current] = Schedule(q)]
      BY <3>1 DEF Invalidate
    <3> HIDE DEF q
    <3> QED BY <1>4, <1>5, <3>2, <3>3, ScheduleActive DEF TypeOK
  <2> QED BY <1>2, <1>3, <2>1, <2>2
<1> QED BY <1>1, <1>4, <1>5, <1>6

LEMMA SupersedeRediscovers ==
  ASSUME TypeOK, TypeOK', current \in Contexts, NEW P \in [Contexts -> ProjectRecord], NEW signaled,
         SupersedeThenDiscover(P, signaled), P[current].active = 0
  PROVE  project'[current].active = 0 /\ sup'.pc \in {"debounce", "discovering"}
<1> DEFINE p == P[current]
<1> DEFINE marked == [p EXCEPT !.supersedeRequested = 0,
                               !.awaitingSupersede = p.supersedeRequested]
<1>1. /\ marked \in ProjectRecord /\ marked.active = 0 /\ Retired(marked).active = 0
  <2>1. marked \in ProjectRecord /\ marked.active = 0
    BY DEF ProjectRecord
  <2> QED BY <2>1, RetiredFields
<1>2. project' = P \/ \E q \in {marked, Retired(marked)} : project' = [P EXCEPT ![current] = q]
  BY DEF SupersedeThenDiscover
<1> HIDE DEF marked
<1>3. project'[current].active = 0
  BY <1>1, <1>2
<1> QED BY <1>3 DEF SupersedeThenDiscover, Supervisor

\* Nor does the supervisor, before it has discovered it.
LEMMA RetirementRediscovers ==
  ASSUME WorkInv, ServiceInv, TypeOK', Rediscovered,
         Running', current' # 0, discovery' # {} \/ sup'.pc = "discovering",
         TakeSignal \/ FinishRetirements
  PROVE  project'[current'].active = 0 /\ sup'.pc \in {"debounce", "retiring", "discovering"}
<1> USE DEF WorkInv, TypeInv
<1>1. Running /\ current' = current /\ current \in Contexts /\ sup.pc # "discovering"
  BY DEF TakeSignal, FinishRetirements, SupervisorStep, TypeOK
<1>2. discovery # {}
  BY <1>1 DEF TakeSignal, FinishRetirements, SupersedeThenDiscover, Supervisor
<1>3. project[current].active = 0
  BY <1>1, <1>2 DEF Rediscovered
<1>4. CASE TakeSignal
  <2>1. RetiredContexts \in [Contexts -> ProjectRecord]
    BY RetirementsType
  <2>2. RetiredContexts[current].active = 0
    <3>1. Retired(project[current]).active = 0
      BY <1>1, RetiredFields DEF TypeOK
    <3> QED BY <1>1, <1>3, <3>1 DEF RetiredContexts
  <2>3. CASE RetiredSlots = {}
    <3>1. SupersedeThenDiscover(RetiredContexts, FALSE)
      BY <1>4, <2>3 DEF TakeSignal, RetiredContexts, RetiredSlots
    <3> QED BY <1>1, <2>1, <2>2, <3>1, SupersedeRediscovers
  <2>4. CASE RetiredSlots # {}
    <3>1. project' = RetiredContexts /\ sup' = Supervisor("retiring", RetiredSlots)
      BY <1>4, <2>4 DEF TakeSignal, RetiredContexts, RetiredSlots
    <3> QED BY <1>1, <2>2, <3>1 DEF Supervisor
  <2> QED BY <2>3, <2>4
<1>5. CASE FinishRetirements
  BY <1>1, <1>3, <1>5, SupersedeRediscovers DEF FinishRetirements, TypeOK
<1> QED BY <1>4, <1>5

LEMMA DiscoveredRediscovers ==
  ASSUME WorkInv, Healthy, TypeOK', Rediscovered, current' # 0, Discovered
  PROVE  project'[current'].active = 0 /\ sup'.pc \in {"debounce", "discovering"}
<1> USE DEF WorkInv, TypeInv
<1>1. /\ Running /\ sup.pc = "discovering"
      /\ \/ UNCHANGED <<project, current>> /\ sup' = sup
         \/ Adopt(FoundText) /\ sup'.pc = "debounce"
  BY DEF Discovered, SupervisorStep, FoundText, Supervisor
<1>2. current # 0 => project[current].active = 0
  BY <1>1 DEF Rediscovered
<1>3. CASE UNCHANGED <<project, current>>
  BY <1>1, <1>2, <1>3
<1>4. CASE Adopt(FoundText) /\ {d \in Docs : FoundText[d] # NoText} # {}
  <2> DEFINE touched == {d \in Docs : FoundText[d] # NoText}
  <2> DEFINE c == IF current # 0 THEN current ELSE created + 1
  <2> DEFINE docs == [d \in Docs |-> IF d \in touched THEN FoundText[d] ELSE project[c].docs[d]]
  <2> DEFINE q == [project[c] EXCEPT !.docs = docs, !.rediscover = FALSE]
  <2>1. project' = [project EXCEPT ![c] = Schedule(q)] /\ current' = c
    BY <1>4 DEF Adopt
  <2>2. c \in Contexts /\ project[c] \in ProjectRecord
    BY <2>1 DEF TypeOK
  <2>3. project[c].active = 0
    <3>1. CASE current = 0
      <4>1. created + 1 \in Contexts /\ created \in Nat
        BY <2>2, <3>1, EngineAssumption DEF TypeOK, Contexts
      <4>2. created + 1 > created
        BY <4>1
      <4> QED BY <3>1, <4>1, <4>2, UncreatedIsIdle
    <3> QED BY <1>2, <3>1
  <2>4. docs \in Snapshot
    <3>1. batch.found \in Snapshot /\ batch.text \in Nat
      BY DEF TypeOK, BatchRecord
    <3>2. FoundText \in Snapshot
      BY <3>1 DEF FoundText, Snapshot
    <3> QED BY <2>2, <3>2 DEF Snapshot, ProjectRecord
  <2> HIDE DEF docs, c, touched
  <2>5. q \in ProjectRecord /\ q.active = project[c].active
    BY <2>2, <2>4 DEF ProjectRecord
  <2> HIDE DEF q
  <2> QED BY <1>1, <2>1, <2>2, <2>3, <2>5, ScheduleActive DEF TypeOK
<1>5. CASE Adopt(FoundText) /\ {d \in Docs : FoundText[d] # NoText} = {}
  BY <1>1, <1>2, <1>5 DEF Adopt
<1> QED BY <1>1, <1>3, <1>4, <1>5


\* While the worker in use is quiet or reports, what runs in it runs on or has ended.
LEMMA ListenerRediscovers ==
  ASSUME WorkInv, TypeOK', Healthy, NEW w \in Workers, ListenerNext(w),
         NEW c \in Contexts, project[c].active = 0
  PROVE  project'[c].active = 0 /\ UNCHANGED <<current, discovery, sup>>
<1> USE DEF WorkInv, TypeInv
<1>1. ASSUME outbox[w] # <<>> PROVE Head(outbox[w]).tag \notin {"Died", "Failure"}
  BY <1>1, MessagesAre DEF Healthy, WorkerHealth, Sound, TypeOK
<1>2. ~ReceiveFailure(w) /\ ~ReceiveDied(w)
  BY <1>1 DEF ReceiveFailure, ReceiveDied, Receive
<1>3. UNCHANGED <<current, discovery, sup>>
  BY <1>2 DEF ListenerNext, ReceiveStale, ReceiveReady, ReceiveSuperseded, ReceiveCommit,
     ReceiveResult, Receive, NoFailure
<1>4. CASE ReceiveSuperseded(w)
  <2>1. \/ project' = project
        \/ project' = [project EXCEPT ![w[1]].awaitingSupersede = 0, ![w[1]].active = 0]
    BY <1>4 DEF ReceiveSuperseded
  <2>2. w[1] \in Contexts /\ project[w[1]] \in ProjectRecord
    BY DEF TypeOK, Workers
  <2> DEFINE q == [project[w[1]] EXCEPT !.awaitingSupersede = 0, !.active = 0]
  <2>3. q.active = 0
    BY <2>2 DEF ProjectRecord
  <2>4. project' = project \/ project' = [project EXCEPT ![w[1]] = q]
    BY <2>1
  <2> HIDE DEF q
  <2> QED BY <1>3, <2>2, <2>3, <2>4 DEF TypeOK
<1>5. CASE ReceiveCommit(w)
  <2> DEFINE p == project[w[1]]
  <2> DEFINE q == [p EXCEPT !.active = 0, !.state = "Committed", !.failureCount = 0,
                            !.circuit = "Closed"]
  <2>1. project' = project \/ project' = [project EXCEPT ![w[1]] = q]
    <3>1. \/ project' = project
          \/ project' = [project EXCEPT ![w[1]].active = 0, ![w[1]].state = "Committed",
                                         ![w[1]].failureCount = 0, ![w[1]].circuit = "Closed"]
      BY <1>5 DEF ReceiveCommit
    <3> QED BY <3>1
  <2>2. w[1] \in Contexts /\ p \in ProjectRecord
    BY DEF TypeOK, Workers
  <2>3. q.active = 0
    BY <2>2 DEF ProjectRecord
  <2> HIDE DEF q
  <2> QED BY <1>3, <2>1, <2>2, <2>3 DEF TypeOK
<1>6. CASE ReceiveStale(w) \/ ReceiveReady(w) \/ ReceiveResult(w)
  BY <1>3, <1>6 DEF ReceiveStale, ReceiveReady, ReceiveResult
<1> QED BY <1>2, <1>4, <1>5, <1>6 DEF ListenerNext

LEMMA StepRediscovers ==
  ASSUME OneDocument, "manifest" \notin FileEvents, WorkInv, ServiceInv, TypeOK', Healthy,
         Rediscovered, failing = {}, leasing = {}, faults = 0, faults' = 0, Running, Next
  PROVE  Rediscovered'
<1> USE DEF WorkInv, TypeInv
<1> SUFFICES ASSUME Running', current' # 0, discovery' # {} \/ sup'.pc = "discovering"
             PROVE  /\ project'[current'].active = 0
                    /\ sup'.pc \in {"debounce", "retiring", "discovering"}
  BY DEF Rediscovered
<1>1. ASSUME UNCHANGED <<discovery, project, current, sup>>
      PROVE  /\ project'[current'].active = 0
             /\ sup'.pc \in {"debounce", "retiring", "discovering"}
  BY <1>1 DEF Rediscovered
<1>2. CASE Client
  <2>1. ~ShutdownBegins
    BY DEF ShutdownBegins, Running
  <2>2. CASE \E r \in Requests : Abandon(r) \/ \E d \in Docs : Ask(r, d)
    BY <1>1, <2>2 DEF Abandon, Ask, ClientStep, projectVars, fiberVars
  <2> QED BY <1>2, <2>1, <2>2, EventRediscovers DEF Client
<1>3. CASE SupervisorNext
  <2>1. CASE TakeSignal \/ FinishRetirements
    BY <2>1, RetirementRediscovers
  <2>2. CASE Discovered
    BY <2>2, DiscoveredRediscovers
  <2>3. CASE DebounceIdle \/ DebounceStart \/ DebounceSpawn \/ WorkerIsReady
    <3>1. /\ discovery' = discovery /\ current' = current
          /\ sup.pc = "ensuring" \/ (sup.pc = "debounce" /\ ~signal)
      BY <2>3 DEF DebounceIdle, DebounceStart, DebounceSpawn, WorkerIsReady, projectVars
    <3>2. discovery = {}
      BY <3>1 DEF Rediscovered, ServiceInv, TextsInv, DiscoveryIsSignaled
    <3>3. ASSUME NEW c, NEW w, StartAnalysisOn(c, w) PROVE sup'.pc # "discovering"
      BY <3>3 DEF StartAnalysisOn, Fail, Supervisor
    <3>4. sup'.pc # "discovering"
      BY <2>3, <3>3 DEF DebounceIdle, DebounceStart, DebounceSpawn, WorkerIsReady, Supervisor
    <3> QED BY <3>1, <3>2, <3>4
  <2> QED BY <1>3, <2>1, <2>2, <2>3, BecomesReady DEF SupervisorNext
<1>4. CASE \E r \in Requests : Resume(r)
  BY <1>1, <1>4 DEF Resume, ClientStep, projectVars, fiberVars
<1>5. CASE \E w \in Workers : ListenerNext(w)
  <2>1. PICK w \in Workers : ListenerNext(w)
    BY <1>5
  <2>2. UNCHANGED <<current, discovery>>
    BY <2>1 DEF ListenerNext, ReceiveStale, ReceiveReady, ReceiveSuperseded, ReceiveCommit,
       ReceiveFailure, ReceiveResult, ReceiveDied, Receive
  <2>3. UNCHANGED sup
    BY <2>1, ListensQuietly
  <2>4. current \in Contexts /\ project[current].active = 0
    BY <2>2, <2>3 DEF Rediscovered, TypeOK
  <2> QED BY <2>1, <2>2, <2>3, <2>4, ListenerRediscovers DEF Rediscovered
<1>6. CASE \E w \in Workers : ThreadNext(w)
  <2>1. ThreadStep
    BY <1>6 DEF ThreadNext, WorkerAccepts, WorkerCommits, WorkerAnswers, Terminate, WorkerRuns
  <2> QED BY <1>1, <2>1 DEF ThreadStep, projectVars, fiberVars
<1>7. ~(\E w \in Workers : FinishLease(w)) /\ ~(\E f \in failing : FinishFailure(f))
  BY DEF FinishLease
<1>8. ASSUME NEW c \in Contexts PROVE ~NoProgress(c) /\ ~LeaseExpires(c)
  BY NoLeaseExpires
<1>9. ~ShutdownEnds
  BY DEF ShutdownEnds, Running
<1> QED BY <1>2, <1>3, <1>4, <1>5, <1>6, <1>7, <1>8, <1>9, NoFault DEF Next


\* What a discovery finds.
LEMMA RediscoveryIsSeen ==
  ASSUME WorkInv, TypeOK', Healthy, Rediscovered
  PROVE  DiscoveryIsSeen
<1> USE DEF WorkInv, TypeInv
<1> SUFFICES ASSUME Discovered, project' # project
             PROVE  project[current'].active = 0
  BY DEF DiscoveryIsSeen
<1>1. Running /\ sup.pc = "discovering"
  BY DEF Discovered, SupervisorStep
<1>2. current' = IF current # 0 THEN current ELSE created + 1
  BY DEF Discovered, Adopt
<1>3. CASE current # 0
  BY <1>1, <1>2, <1>3 DEF Rediscovered
<1>4. CASE current = 0
  <2>1. created \in Nat /\ created + 1 # 0 /\ created + 1 > created
    <3>1. created \in Nat
      BY EngineAssumption DEF TypeOK, Contexts
    <3> QED BY <3>1
  <2>2. created + 1 \in Contexts
    BY <1>2, <1>4, <2>1 DEF TypeOK
  <2> QED BY <1>2, <1>4, <2>1, <2>2, UncreatedIsIdle
<1> QED BY <1>3, <1>4

OneHealthInv == HealthInv /\ (faults = 0 => Rediscovered)

LEMMA OneHealthStep ==
  ASSUME OneDocument, "manifest" \notin FileEvents, WorkInv, WorkInv', ServiceInv,
         OneHealthInv, [Next]_vars
  PROVE  OneHealthInv'
<1>1. ASSUME faults' = 0
      PROVE  /\ TypeOK /\ TypeOK' /\ faults = 0 /\ Unfailing /\ (Running => Healthy)
             /\ Rediscovered
  <2>1. faults = 0 /\ TypeOK /\ TypeOK'
    BY <1>1, FaultsStay DEF WorkInv, TypeInv, TypeOK
  <2> QED BY <2>1 DEF OneHealthInv, HealthInv
<1>2. ASSUME faults' = 0 PROVE DiscoveryIsSeen
  <2>1. CASE Running
    BY <1>1, <1>2, <2>1, RediscoveryIsSeen
  <2>2. CASE ~Running
    BY <2>2 DEF DiscoveryIsSeen, Discovered, SupervisorStep
  <2> QED BY <2>1, <2>2
<1>3. HealthInv'
  <2>1. CASE faults' = 0
    BY <1>2, <2>1, StepHealth DEF OneHealthInv
  <2>2. CASE faults' # 0
    BY <2>2 DEF HealthInv
  <2> QED BY <2>1, <2>2
<1>4. ASSUME faults' = 0 PROVE Rediscovered'
  <2>1. CASE UNCHANGED vars
    BY <1>1, <1>4, <2>1 DEF Rediscovered, Running, vars, projectVars, fiberVars
  <2>2. CASE Next /\ Running
    BY <1>1, <1>4, <2>2, StepRediscovers DEF Unfailing
  <2>3. CASE Next /\ ~Running
    BY <2>3, StoppedStep DEF Rediscovered
  <2> QED BY <2>1, <2>2, <2>3
<1> QED BY <1>3, <1>4 DEF OneHealthInv

LEMMA OneHealthHolds ==
  ASSUME OneDocument, "manifest" \notin FileEvents
  PROVE  Spec => []OneHealthInv
<1>1. Init => OneHealthInv
  BY InitHealth DEF OneHealthInv, Rediscovered, Init
<1>2. WorkInv /\ WorkInv' /\ ServiceInv /\ OneHealthInv /\ [Next]_vars => OneHealthInv'
  BY OneHealthStep
<1> QED BY <1>1, <1>2, WorkHolds, OneIsNotFound, ServiceHolds, PTL DEF Spec

\* In a workspace of one document whose manifest does not change, no project fails by
\* itself: nothing is discovered again once it is being analysed.
THEOREM OneHealthyDoesNotFail ==
  ASSUME OneDocument, "manifest" \notin FileEvents
  PROVE  Spec => []HealthyProjectsDoNotFail
<1>1. OneHealthInv => HealthyProjectsDoNotFail
  BY DEF OneHealthInv, HealthInv, Unfailing, HealthyProjectsDoNotFail
<1> QED BY <1>1, OneHealthHolds, PTL

-----------------------------------------------------------------------------
\* The other promises, while no fault happens.

\* The hypotheses on failures and leases hold.
LEMMA UnfailingSuffices ==
  ASSUME Unfailing
  PROVE  /\ RetriesFindNothingActive /\ LeasesForgetNothing /\ SupersedesAreOfActive
         /\ RetriesFindNoWaiter /\ RetriesFindNoQuery
  BY DEF Unfailing, RetriesFindNothingActive, LeasesForgetNothing, SupersedesAreOfActive,
         SupersedesActive, RetriesFindNoWaiter, RetriesFindNoQuery

\* As long as no fault happened, obsolete work is preempted, a pending project is to be
\* started or is being analysed, and who waits for it waits for its newest generation:
\* what these promises need of retries and leases is only in doubt after a fault.
THEOREM HealthyEngineKeepsItsPromises ==
  Spec /\ [][DiscoveryIsSeen]_vars /\ [](faults = 0) =>
    [](ObsoleteWorkIsPreempted /\ PendingIsOwned /\ WaitersAwaitTheNewest)
<1>1. HealthInv /\ faults = 0 =>
        /\ RetriesFindNothingActive /\ LeasesForgetNothing /\ SupersedesAreOfActive
        /\ RetriesFindNoWaiter
  BY UnfailingSuffices DEF HealthInv
<1> QED BY <1>1, HealthHolds, ObsoleteIsPreempted, PendingProjectsAreOwned, WaitersAwait, PTL

\* With one document, as long as no fault happened, they hold without a hypothesis, and
\* the engine implements the snapshot service.
THEOREM HealthyEngineOfOneKeepsItsPromises ==
  ASSUME OneDocument, "manifest" \notin FileEvents
  PROVE  Spec /\ [](faults = 0) =>
           /\ [](ObsoleteWorkIsPreempted /\ PendingIsOwned /\ WaitersAwaitTheNewest)
           /\ ImplementsService
<1>1. OneHealthInv /\ faults = 0 =>
        /\ RetriesFindNothingActive /\ LeasesForgetNothing /\ SupersedesAreOfActive
        /\ RetriesFindNoWaiter /\ RetriesFindNoQuery
  BY UnfailingSuffices DEF OneHealthInv, HealthInv
<1> QED BY <1>1, OneHealthHolds, ObsoleteIsPreempted, PendingProjectsAreOwned, WaitersAwait,
           EngineImplementsServiceOfOne, PTL
-----------------------------------------------------------------------------
\* What can be queried.

\* An engine that is shut down has no committed project: shutdown closes the project in
\* the step that begins it, and no message of a worker is taken any more.
StoppedIsUncommitted == ~Running => ~CurrentState("Committed")

LEMMA RunningStays ==
  ASSUME Running, Next
  PROVE  Running' \/ ShutdownBegins
<1>1. CASE Client
  BY <1>1 DEF Client, Open, ChangeAssociated, ChangeUndiscovered, Close, Invalidate, Ask, Abandon,
              SourceEvent, ClientStep, Running
<1>2. CASE SupervisorNext \/ SpawnFails \/ \E r \in Requests : Resume(r)
  BY <1>2 DEF SupervisorNext, TakeSignal, FinishRetirements, Discovered, DebounceIdle,
     DebounceStart, DebounceSpawn, WorkerIsReady, WorkerNeverReady, ReadinessExpires, SpawnFails,
     SupervisorStep, Resume, ClientStep, Running
<1>3. CASE \E w \in Workers : ListenerNext(w) \/ FinishLease(w)
  BY <1>3 DEF ListenerNext, ReceiveStale, ReceiveReady, ReceiveSuperseded, ReceiveCommit,
     ReceiveFailure, ReceiveResult, ReceiveDied, Receive, FinishLease, SupervisorStep, Running
<1>4. CASE \E w \in Workers :
             ThreadNext(w) \/ WorkerDefects(w) \/ WorkerForgetsQuery(w) \/ WorkerDies(w)
               \/ WorkerHangs(w)
  BY <1>4 DEF ThreadNext, WorkerAccepts, WorkerCommits, WorkerAnswers, Terminate, WorkerDefects,
     WorkerForgetsQuery, WorkerDies, WorkerHangs, WorkerRuns, ThreadStep, Running
<1>5. CASE \/ \E c \in Contexts : NoProgress(c) \/ LeaseExpires(c) \/ Stall(c)
           \/ \E f \in failing : FinishFailure(f)
           \/ ShutdownEnds
  BY <1>5 DEF NoProgress, LeaseExpires, Stall, FinishFailure, ShutdownEnds, WatchdogStep,
     SupervisorStep, Running
<1> QED BY <1>1, <1>2, <1>3, <1>4, <1>5 DEF Next, Faulty

LEMMA StoppedUncommitted ==
  ASSUME TypeOK, StoppedIsUncommitted, [Next]_vars
  PROVE  StoppedIsUncommitted'
<1>1. CASE UNCHANGED vars
  BY <1>1 DEF vars, projectVars, fiberVars, StoppedIsUncommitted, Running, CurrentState
<1>2. CASE Next /\ ~Running
  <2>1. ~CurrentState("Committed") /\ project' = project /\ current' \in {current, 0}
    BY <1>2, StoppedStep DEF StoppedIsUncommitted
  <2> QED BY <2>1 DEF StoppedIsUncommitted, CurrentState
<1>3. CASE ShutdownBegins
  <2>1. CASE current = 0
    BY <1>3, <2>1 DEF ShutdownBegins, StoppedIsUncommitted, CurrentState
  <2>2. CASE current # 0
    <3> DEFINE closed == [Retired(project[current]) EXCEPT !.state = "Closed"]
    <3>1. /\ project' = [project EXCEPT ![current] = closed] /\ current' = current
          /\ current \in Contexts /\ project[current] \in ProjectRecord
      BY <1>3, <2>2 DEF ShutdownBegins, TypeOK
    <3>2. closed.state = "Closed"
      BY <3>1 DEF Retired, ProjectRecord
    <3> HIDE DEF closed
    <3> QED BY <3>1, <3>2 DEF StoppedIsUncommitted, CurrentState, TypeOK
  <2> QED BY <2>1, <2>2
<1>4. CASE Next /\ Running /\ ~ShutdownBegins
  BY <1>4, RunningStays DEF StoppedIsUncommitted
<1> QED BY <1>1, <1>2, <1>3, <1>4

\* What a query can read of any document is its accepted text, and nothing if it is
\* closed: also of a document that is to be discovered again, on which
\* OpenTextsAreCommitted says nothing.  The exception is that of CommittedTextsAreNewest.
THEOREM QueryableTextsAreNewest ==
  Spec /\ [][FoundIsUnrevised]_vars => []ViewIsAccepted
<1>1. ServiceInv /\ StoppedIsUncommitted => ViewIsAccepted
  <2>1. CASE Running
    BY <2>1, ViewIsNewest DEF ServiceInv, TypeInv
  <2>2. ASSUME ~Running, StoppedIsUncommitted PROVE ViewIsAccepted
    BY <2>2 DEF ViewIsAccepted, StoppedIsUncommitted, View, NoSources
  <2> QED BY <2>1, <2>2
<1>2. Init => StoppedIsUncommitted
  BY DEF Init, StoppedIsUncommitted, CurrentState
<1>3. ServiceInv /\ StoppedIsUncommitted /\ [Next]_vars => StoppedIsUncommitted'
  BY StoppedUncommitted DEF ServiceInv, TypeInv
<1> QED BY <1>1, <1>2, <1>3, ServiceHolds, PTL DEF Spec
=============================================================================
