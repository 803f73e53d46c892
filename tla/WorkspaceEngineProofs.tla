----------------------- MODULE WorkspaceEngineProofs -----------------------
(***************************************************************************)
(* Proofs about WorkspaceEngine, for any documents, requests, faults and   *)
(* bounds: its types, that no compiler thread is left running unowned, and *)
(* that a committed project is committed on what it holds.                 *)
(***************************************************************************)
EXTENDS WorkspaceEngine, WorkerRuntimeProofs

-----------------------------------------------------------------------------
\* What the helpers on project contexts keep.

LEMMA NewProjectType == NewProject \in ProjectRecord
  BY EngineAssumption DEF NewProject, ProjectRecord, NoSources, NoText, Snapshot

LEMMA GenerationType ==
  ASSUME NEW p \in ProjectRecord
  PROVE  [p EXCEPT !.gen = @ + 1] \in ProjectRecord /\ [p EXCEPT !.gen = @ + 1].slot = p.slot
  BY DEF ProjectRecord

LEMMA PendingType ==
  ASSUME NEW p \in ProjectRecord
  PROVE  LET q == [p EXCEPT !.state = "Pending", !.pending = TRUE]
         IN q \in ProjectRecord /\ q.slot = p.slot
  BY DEF ProjectRecord

LEMMA DocumentType ==
  ASSUME NEW p \in ProjectRecord, NEW d \in Docs, NEW text \in Nat
  PROVE  [p EXCEPT !.docs[d] = text] \in ProjectRecord /\ [p EXCEPT !.docs[d] = text].slot = p.slot
<1> DEFINE docs == [p.docs EXCEPT ![d] = text]
<1>1. docs \in Snapshot
  BY DEF Snapshot, ProjectRecord
<1>2. [p EXCEPT !.docs[d] = text] = [p EXCEPT !.docs = docs]
  OBVIOUS
<1> HIDE DEF docs
<1> QED BY <1>1, <1>2 DEF ProjectRecord

LEMMA ScheduleType ==
  ASSUME NEW p \in ProjectRecord
  PROVE  Schedule(p) \in ProjectRecord /\ Schedule(p).slot = p.slot
<1>1. CASE p.state = "Closed"
  BY <1>1 DEF Schedule
<1>2. CASE p.state # "Closed"
  <2> DEFINE p1 == [p EXCEPT !.circuit = IF @ = "Open" THEN "HalfOpen" ELSE @]
  <2> DEFINE p2 == [p1 EXCEPT !.supersedeRequested = IF p.active # 0 THEN p.active ELSE @]
  <2> DEFINE p3 == [p2 EXCEPT !.gen = @ + 1]
  <2>1. p1 \in ProjectRecord /\ p1.slot = p.slot
    BY DEF ProjectRecord
  <2>2. p2 \in ProjectRecord /\ p2.slot = p.slot
    BY <2>1 DEF ProjectRecord
  <2> HIDE DEF p1
  <2>3. p3 \in ProjectRecord /\ p3.slot = p.slot
    BY <2>2, GenerationType
  <2>4. Schedule(p) = [p3 EXCEPT !.state = "Pending", !.pending = TRUE]
    BY <1>2 DEF Schedule, p1
  <2> QED BY <2>3, <2>4, PendingType
<1> QED BY <1>1, <1>2

LEMMA RetiredType ==
  ASSUME NEW p \in ProjectRecord
  PROVE  Retired(p) \in ProjectRecord /\ Retired(p).slot = 0
  BY DEF Retired, ProjectRecord

LEMMA AfterFailureType ==
  ASSUME NEW p \in ProjectRecord, NEW halfOpen
  PROVE  AfterFailure(p, halfOpen) \in ProjectRecord /\ AfterFailure(p, halfOpen).slot = p.slot
<1>1. [p EXCEPT !.circuit = "Open"] \in ProjectRecord /\ [p EXCEPT !.circuit = "Open"].slot = p.slot
  BY DEF ProjectRecord
<1>2. LET q == [p EXCEPT !.gen = @ + 1, !.state = "Pending", !.pending = TRUE]
      IN q \in ProjectRecord /\ q.slot = p.slot
  <2> DEFINE p1 == [p EXCEPT !.gen = @ + 1]
  <2>1. p1 \in ProjectRecord /\ p1.slot = p.slot
    BY GenerationType
  <2>2. [p EXCEPT !.gen = @ + 1, !.state = "Pending", !.pending = TRUE]
          = [p1 EXCEPT !.state = "Pending", !.pending = TRUE]
    OBVIOUS
  <2> HIDE DEF p1
  <2> QED BY <2>1, <2>2, PendingType
<1> QED BY <1>1, <1>2 DEF AfterFailure

LEMMA SlotType ==
  ASSUME NEW c \in Contexts, NEW p \in ProjectRecord, p.slot # 0
  PROVE  <<c, p.slot>> \in Workers
  BY DEF ProjectRecord, Workers

-----------------------------------------------------------------------------
\* What the helpers on requests, messages and threads keep.

\* A request that waits for a context, or asked its worker, names both.
RequestsAreBound ==
  \A r \in Requests :
    req[r].pc \in {"waiting", "woken", "querying"} => req[r].ctx \in Contexts /\ req[r].doc \in Docs

RequestsType == req \in [Requests -> RequestRecord] /\ RequestsAreBound

LEMMA NewRequestType == NewRequest \in RequestRecord
  BY DEF NewRequest, RequestRecord, Outcomes, NoText

LEMMA SettledType ==
  ASSUME NEW r \in RequestRecord, NEW outcome \in Outcomes
  PROVE  Settled(r, outcome) \in RequestRecord /\ Settled(r, outcome).pc = "done"
  BY NewRequestType DEF Settled, RequestRecord

LEMMA SettleType ==
  ASSUME RequestsType, NEW S, NEW outcome \in Outcomes, Settle(S, outcome)
  PROVE  RequestsType'
<1>1. ASSUME NEW r \in Requests
      PROVE  /\ req'[r] \in RequestRecord
             /\ req'[r] = req[r] \/ req'[r].pc = "done"
  BY SettledType DEF Settle, RequestsType
<1>2. req' \in [Requests -> RequestRecord]
  BY <1>1 DEF Settle
<1> QED BY <1>1, <1>2 DEF RequestsType, RequestsAreBound

\* One request changes, to one that is done or bound.
LEMMA RequestType ==
  ASSUME RequestsType, NEW r \in Requests, NEW new \in RequestRecord,
         new.pc \in {"waiting", "woken", "querying"} => new.ctx \in Contexts /\ new.doc \in Docs,
         req' = [req EXCEPT ![r] = new]
  PROVE  RequestsType'
  BY DEF RequestsType, RequestsAreBound

InboxesType == inbox \in [Workers -> Seq(HostMessage)]

LEMMA SendType ==
  ASSUME InboxesType, NEW w, NEW m \in HostMessage, Send(w, m)
  PROVE  InboxesType'
<1>1. CASE Alive(w) /\ w \in Workers
  <2>1. Append(inbox[w], m) \in Seq(HostMessage)
    BY <1>1 DEF InboxesType
  <2>2. inbox' = [inbox EXCEPT ![w] = Append(@, m)]
    BY <1>1 DEF Send
  <2> QED BY <1>1, <2>1, <2>2 DEF InboxesType
<1>2. CASE ~(Alive(w) /\ w \in Workers)
  BY <1>2 DEF InboxesType, Send
<1> QED BY <1>1, <1>2

LEMMA DismissType ==
  ASSUME InboxesType, shuttingDown \subseteq Workers, NEW S \in SUBSET Workers, Dismiss(S)
  PROVE  InboxesType' /\ shuttingDown' = shuttingDown \cup S
<1>1. Shutdown \in HostMessage
  BY DEF Shutdown, HostMessage
<1> QED BY <1>1 DEF InboxesType, Dismiss

LEMMA MessageTypes ==
  ASSUME NEW g \in Nat
  PROVE  /\ SupersedeAnalysis(g) \in HostMessage
         /\ \A r \in Requests : CancelQuery(r) \in HostMessage
         /\ \A r \in Requests, d \in Docs : Query(g, r, d) \in HostMessage
         /\ \A docs \in Snapshot, reread \in BOOLEAN : Analyze(g, docs, reread) \in HostMessage
  BY DEF SupersedeAnalysis, CancelQuery, Query, Analyze, HostMessage

\* What failProject does until it waits, and all it does if it has no worker to
\* wait for: the slot is empty, and its worker is under a retirement deadline.
LEMMA FailType ==
  ASSUME TypeOK, RequestsAreBound, NEW c \in Contexts, NEW p \in ProjectRecord,
         NEW supervised \in BOOLEAN, Fail(c, p, supervised)
  PROVE  /\ project' \in [Contexts -> ProjectRecord]
         /\ project'[c].slot = 0
         /\ \A k \in Contexts \ {c} : project'[k] = project[k]
         /\ signal' \in BOOLEAN
         /\ sup' \in SupervisorRecord /\ (sup'.pc # "discovering" \/ sup' = sup)
         /\ failing' \subseteq FailureRecord
         /\ shuttingDown' = shuttingDown \cup (IF p.slot = 0 THEN {} ELSE {<<c, p.slot>>})
         /\ shuttingDown' \subseteq Workers
         /\ InboxesType' /\ RequestsType'
<1> DEFINE failed == [p EXCEPT !.state = "Failed", !.failureCount = @ + 1]
<1> DEFINE halfOpen == p.circuit = "HalfOpen"
<1> DEFINE next == AfterFailure(Retired(failed), halfOpen)
<1> DEFINE w == <<c, p.slot>>
<1>1. failed \in ProjectRecord
  <2> DEFINE q == [p EXCEPT !.state = "Failed"]
  <2>1. q \in ProjectRecord
    BY DEF ProjectRecord
  <2>2. failed = [q EXCEPT !.failureCount = @ + 1]
    OBVIOUS
  <2> HIDE DEF q
  <2> QED BY <2>1, <2>2 DEF ProjectRecord
<1>2. Retired(failed) \in ProjectRecord /\ Retired(failed).slot = 0
  BY <1>1, RetiredType
<1> HIDE DEF failed
<1>3. next \in ProjectRecord /\ next.slot = 0
  BY <1>2, AfterFailureType
<1>4. RequestsType'
  <2>1. Settle(Affected(c), "analysisFailed")
    BY DEF Fail
  <2> QED BY <2>1, SettleType DEF TypeOK, RequestsType, Outcomes
<1>5. Supervisor("idle", {}) \in SupervisorRecord
  BY DEF Supervisor, SupervisorRecord
<1>6. CASE p.slot = 0
  <2>1. /\ project' = [project EXCEPT ![c] = next]
        /\ signal' = (signal \/ next.state = "Pending")
        /\ sup' = IF supervised THEN Supervisor("idle", {}) ELSE sup
        /\ UNCHANGED <<failing, shuttingDown, inbox>>
    BY <1>6 DEF Fail, failed
  <2> QED BY <1>3, <1>4, <1>5, <1>6, <2>1 DEF TypeOK, InboxesType, Supervisor
<1>7. CASE p.slot # 0
  <2>1. /\ project' = [project EXCEPT ![c] = Retired(failed)]
        /\ failing' = failing \cup
             {[worker |-> w, halfOpen |-> halfOpen, supervised |-> supervised]}
        /\ Dismiss({w})
        /\ sup' = IF supervised THEN Supervisor("failing", {w}) ELSE sup
        /\ UNCHANGED signal
    BY <1>7 DEF Fail, failed
  <2>2. w \in Workers
    BY <1>7, SlotType
  <2>3. Supervisor("failing", {w}) \in SupervisorRecord
    BY <2>2 DEF Supervisor, SupervisorRecord
  <2>4. [worker |-> w, halfOpen |-> halfOpen, supervised |-> supervised] \in FailureRecord
    BY <2>2 DEF FailureRecord
  <2>5. InboxesType' /\ shuttingDown' = shuttingDown \cup {w}
    <3>1. InboxesType /\ shuttingDown \subseteq Workers
      BY DEF TypeOK, InboxesType
    <3>2. {w} \in SUBSET Workers /\ Dismiss({w})
      BY <2>1, <2>2
    <3> QED BY <3>1, <3>2, DismissType
  <2> HIDE DEF w, halfOpen
  <2>6. project' \in [Contexts -> ProjectRecord] /\ project'[c].slot = 0
    <3>1. project \in [Contexts -> ProjectRecord]
      BY DEF TypeOK
    <3>2. project' = [project EXCEPT ![c] = Retired(failed)]
      BY <2>1
    <3> HIDE DEF failed
    <3> QED BY <1>2, <3>1, <3>2
  <2>7. sup' \in SupervisorRecord /\ (sup'.pc # "discovering" \/ sup' = sup)
    BY <2>1, <2>3 DEF TypeOK, Supervisor
  <2> QED BY <1>4, <1>7, <2>1, <2>2, <2>4, <2>5, <2>6, <2>7 DEF TypeOK, w
<1> QED BY <1>6, <1>7

-----------------------------------------------------------------------------
\* The inductive invariant of the types.  Besides the types it says what the
\* bounds and the records that name other things rest on.

\* The version of an open document counts from one.
VersionsCount == \A d \in Docs : IsOpen(d) => ledger[d].version # 0

\* The supervisor discovers a document at the version it had when it was open.
BatchIsDated == sup.pc = "discovering" => batch.doc \in Docs /\ batch.version # 0

\* When the last context is used up, nothing can ask for another one.
ContextsRemain ==
  current = 0 /\ created = MaxContexts =>
    batch.found = NoSources /\ \A d \in Docs : ~IsOpen(d)

\* The ledger is cleared when the engine shuts down.
LedgerIsCleared == ~Running => \A d \in Docs : ~IsOpen(d)

BoundsInv == VersionsCount /\ BatchIsDated /\ ContextsRemain /\ LedgerIsCleared

TypeInv == TypeOK /\ RequestsAreBound /\ BoundsInv

\* What a step must not touch for the bounds to hold as before.
LEMMA BoundsFrame ==
  ASSUME BoundsInv, UNCHANGED <<ledger, current, created, batch, engine>>,
         sup'.pc # "discovering" \/ sup' = sup
  PROVE  BoundsInv'
  BY DEF BoundsInv, VersionsCount, BatchIsDated, ContextsRemain, LedgerIsCleared, IsOpen, Running

-----------------------------------------------------------------------------
\* Source events.

LEMMA OpenType ==
  ASSUME TypeInv, NEW d \in Docs, Open(d)
  PROVE  TypeInv'
<1> USE DEF TypeInv
<1>1. ledger' \in [Docs -> [version : Nat, text : Nat]]
  BY DEF Open, TypeOK
<1>2. RequestsType'
  BY SettleType DEF Open, TypeOK, RequestsType, Outcomes
<1>3. TypeOK'
  BY <1>1, <1>2 DEF Open, SourceEvent, TypeOK, RequestsType, projectVars, fiberVars, threadVars
<1>4. BoundsInv'
  BY DEF Open, SourceEvent, TypeOK, projectVars, fiberVars, BoundsInv, VersionsCount, BatchIsDated,
         ContextsRemain, LedgerIsCleared, IsOpen, Running
<1> QED BY <1>2, <1>3, <1>4 DEF RequestsType

\* The ledger after an edit.
LEMMA EditedType ==
  ASSUME TypeInv, NEW d \in Docs, IsOpen(d), Running,
         ledger' = [ledger EXCEPT ![d] = [version |-> @.version + 1, text |-> events + 1]],
         UNCHANGED <<current, created, batch, sup, engine>>
  PROVE  ledger' \in [Docs -> [version : Nat, text : Nat]] /\ BoundsInv'
<1> USE DEF TypeInv
<1>1. ledger[d].version + 1 \in Nat \ {0} /\ events + 1 \in Nat
  BY DEF TypeOK
<1>2. ledger' \in [Docs -> [version : Nat, text : Nat]]
  BY <1>1 DEF TypeOK
<1>3. ASSUME NEW e \in Docs
      PROVE  /\ IsOpen(e)' => IsOpen(e)
             /\ IsOpen(e)' => ledger'[e].version # 0
  BY <1>1 DEF TypeOK, IsOpen, BoundsInv, VersionsCount
<1> QED BY <1>2, <1>3 DEF BoundsInv, VersionsCount, BatchIsDated, ContextsRemain,
                       LedgerIsCleared,
                          Running

LEMMA ChangeAssociatedType ==
  ASSUME TypeInv, NEW d \in Docs, ChangeAssociated(d)
  PROVE  TypeInv'
<1> USE DEF TypeInv
<1> DEFINE p == [project[current] EXCEPT !.docs[d] = events + 1]
<1>1. current \in Contexts
  BY DEF ChangeAssociated, Associated, TypeOK
<1>2. p \in ProjectRecord
  <2>1. project[current] \in ProjectRecord /\ events + 1 \in Nat
    BY <1>1 DEF TypeOK
  <2> QED BY <2>1, DocumentType
<1>3. Schedule(p) \in ProjectRecord
  BY <1>2, ScheduleType
<1>4. project' = [project EXCEPT ![current] = Schedule(p)]
  BY DEF ChangeAssociated
<1> HIDE DEF p
<1>5. project' \in [Contexts -> ProjectRecord]
  BY <1>3, <1>4 DEF TypeOK
<1>6. RequestsType'
  BY SettleType DEF ChangeAssociated, TypeOK, RequestsType, Outcomes
<1>7. ledger' \in [Docs -> [version : Nat, text : Nat]] /\ BoundsInv'
  BY EditedType DEF ChangeAssociated, SourceEvent, fiberVars
<1>8. TypeOK'
  BY <1>5, <1>6, <1>7 DEF ChangeAssociated, SourceEvent, TypeOK, RequestsType, fiberVars, threadVars
<1> QED BY <1>6, <1>7, <1>8 DEF RequestsType

LEMMA ChangeUndiscoveredType ==
  ASSUME TypeInv, NEW d \in Docs, ChangeUndiscovered(d)
  PROVE  TypeInv'
<1> USE DEF TypeInv
<1>1. RequestsType'
  BY SettleType DEF ChangeUndiscovered, TypeOK, RequestsType, Outcomes
<1>2. ledger' \in [Docs -> [version : Nat, text : Nat]] /\ BoundsInv'
  BY EditedType DEF ChangeUndiscovered, SourceEvent, projectVars, fiberVars
<1>3. TypeOK'
  BY <1>1, <1>2 DEF ChangeUndiscovered, SourceEvent, TypeOK, RequestsType, projectVars, fiberVars,
                    threadVars
<1> QED BY <1>1, <1>2, <1>3 DEF RequestsType

LEMMA CloseType ==
  ASSUME TypeInv, NEW d \in Docs, Close(d)
  PROVE  TypeInv'
<1> USE DEF TypeInv
<1> DEFINE left == [project[current] EXCEPT !.docs[d] = NoText]
<1> DEFINE last == ~HasDocuments(left)
<1>1. ledger' \in [Docs -> [version : Nat, text : Nat]]
  BY DEF Close, TypeOK, Unopened, NoText
<1>2. \A e \in Docs : IsOpen(e)' => IsOpen(e) /\ e # d /\ ledger'[e] = ledger[e]
  BY DEF Close, TypeOK, IsOpen
<1>3. UNCHANGED <<batch, sup, engine, created>>
  BY DEF Close, SourceEvent, fiberVars, projectVars
<1>4. /\ VersionsCount' /\ BatchIsDated' /\ LedgerIsCleared'
      /\ current' = current => ContextsRemain'
  BY <1>2, <1>3 DEF BoundsInv, VersionsCount, BatchIsDated, LedgerIsCleared, ContextsRemain, Running
<1>5. CASE ~Associated(d)
  <2>1. Settle(DiscoveryWaiters({d}), "closed") /\ UNCHANGED projectVars
    BY <1>5 DEF Close
  <2>2. RequestsType'
    BY <2>1, SettleType DEF TypeOK, RequestsType, Outcomes
  <2>3. TypeOK'
    BY <1>1, <2>1, <2>2 DEF Close, SourceEvent, TypeOK, RequestsType, projectVars, fiberVars,
                            threadVars
  <2> QED BY <1>4, <2>1, <2>2, <2>3 DEF RequestsType, BoundsInv, projectVars
<1>6. CASE Associated(d)
  <2>1. current \in Contexts
    BY <1>6 DEF Associated, TypeOK
  <2>2. left \in ProjectRecord
    <3>1. project[current] \in ProjectRecord /\ NoText \in Nat
      BY <2>1 DEF TypeOK, NoText
    <3> QED BY <3>1, DocumentType
  <2>3. /\ project' = [project EXCEPT ![current] =
                         IF last THEN [left EXCEPT !.state = "Closed"] ELSE Schedule(left)]
        /\ current' = IF last THEN 0 ELSE current
        /\ retirements' = Leaving(current, last)
    BY <1>6 DEF Close
  <2>4. [left EXCEPT !.state = "Closed"] \in ProjectRecord /\ Schedule(left) \in ProjectRecord
    <3> HIDE DEF left
    <3>1. [left EXCEPT !.state = "Closed"] \in ProjectRecord
      BY <2>2 DEF ProjectRecord
    <3> QED BY <2>2, <3>1, ScheduleType
  <2>5. RequestsType'
    <3>1. ASSUME NEW r \in Requests
          PROVE  /\ req'[r] \in RequestRecord
                 /\ req'[r] = req[r] \/ req'[r].pc = "done"
      <4>1. req'[r] \in {req[r], Settled(req[r], "superseded"), Settled(req[r], "closed")}
        BY <1>6 DEF Close
      <4>2. req[r] \in RequestRecord /\ "superseded" \in Outcomes /\ "closed" \in Outcomes
        BY DEF TypeOK, Outcomes
      <4> QED BY <4>1, <4>2, SettledType
    <3>2. req' = [r \in Requests |-> req'[r]]
      BY <1>6 DEF Close
    <3> QED BY <3>1, <3>2 DEF RequestsType, RequestsAreBound
  <2>6. ContextsRemain'
    <3>1. SUFFICES ASSUME last, created = MaxContexts
                   PROVE  batch.found = NoSources /\ \A e \in Docs : ~IsOpen(e)'
      BY <1>3, <2>1, <2>3, EngineAssumption DEF ContextsRemain, Contexts, TypeOK
    <3>2. \A e \in Docs : (e = d \/ ~IsOpen(e) \/ Associated(e)) /\ batch.found[e] = NoText
      BY <3>1, EngineAssumption DEF Close, ContextsSuffice
    <3>3. left.docs = NoSources
      BY <3>1 DEF HasDocuments
    <3>4. left.docs = [project[current].docs EXCEPT ![d] = NoText]
      BY <2>1 DEF TypeOK, ProjectRecord
    <3>5. ASSUME NEW e \in Docs, e # d PROVE ~Associated(e)
      <4>1. project[current].docs \in Snapshot
        BY <2>1 DEF TypeOK, ProjectRecord
      <4>2. left.docs[e] = project[current].docs[e]
        BY <3>4, <3>5, <4>1 DEF Snapshot
      <4>3. left.docs[e] = NoText
        BY <3>3 DEF NoSources
      <4> HIDE DEF left
      <4> QED BY <4>2, <4>3 DEF Associated
    <3>6. batch.found = NoSources
      <4>1. batch.found \in Snapshot
        BY DEF TypeOK, BatchRecord
      <4> QED BY <3>2, <4>1 DEF Snapshot, NoSources
    <3> QED BY <1>2, <3>2, <3>5, <3>6
  <2> HIDE DEF left, last
  <2>7. project' \in [Contexts -> ProjectRecord]
    BY <2>3, <2>4 DEF TypeOK
  <2>8. current' \in {0} \cup Contexts /\ retirements' \in SUBSET Contexts
    BY <2>1, <2>3 DEF TypeOK, Leaving
  <2>9. TypeOK'
    BY <1>1, <1>3, <2>5, <2>7, <2>8 DEF Close, SourceEvent, TypeOK, RequestsType, fiberVars,
                                        threadVars
  <2> QED BY <1>4, <2>5, <2>6, <2>9 DEF RequestsType, BoundsInv
<1> QED BY <1>5, <1>6

LEMMA InvalidateType ==
  ASSUME TypeInv, NEW kind \in FileEvents, Invalidate(kind)
  PROVE  TypeInv'
<1> USE DEF TypeInv
<1> DEFINE p == [project[current] EXCEPT !.dirty = @ \/ kind = "source",
                                         !.rediscover = @ \/ kind = "manifest"]
<1>1. disk' \in Nat /\ events' \in Nat /\ discovery' \in SUBSET Docs
  BY DEF Invalidate, SourceEvent, TypeOK
<1>2. project' \in [Contexts -> ProjectRecord] /\ RequestsType'
  <2>1. CASE UNCHANGED <<project, req>>
    BY <2>1 DEF TypeOK, RequestsType, RequestsAreBound
  <2>2. CASE ~UNCHANGED <<project, req>>
    <3>1. /\ current # 0
          /\ project' = [project EXCEPT ![current] = Schedule(p)]
          /\ Settle(Affected(current), "superseded")
      BY <2>2 DEF Invalidate
    <3>2. p \in ProjectRecord
      <4>1. project[current] \in ProjectRecord
        BY <3>1 DEF TypeOK
      <4> QED BY <4>1 DEF ProjectRecord
    <3> HIDE DEF p
    <3>3. Schedule(p) \in ProjectRecord
      BY <3>2, ScheduleType
    <3>4. RequestsType'
      BY <3>1, SettleType DEF TypeOK, RequestsType, Outcomes
    <3> QED BY <3>1, <3>3, <3>4 DEF TypeOK
  <2> QED BY <2>1, <2>2
<1>3. UNCHANGED <<ledger, current, created, batch, engine, sup>>
  BY DEF Invalidate, SourceEvent, fiberVars
<1>4. BoundsInv'
  BY <1>3, BoundsFrame
<1>5. TypeOK'
  BY <1>1, <1>2, <1>3 DEF Invalidate, SourceEvent, TypeOK, RequestsType, fiberVars, threadVars
<1> QED BY <1>2, <1>4, <1>5 DEF RequestsType

-----------------------------------------------------------------------------
\* Requests.

\* A step that changes requests and inboxes only.
LEMMA ClientStepType ==
  ASSUME TypeInv, ClientStep, RequestsType', InboxesType'
  PROVE  TypeInv'
<1>1. BoundsInv'
  BY BoundsFrame DEF TypeInv, ClientStep, sourceVars, projectVars, fiberVars
<1>2. TypeOK'
  BY DEF TypeInv, TypeOK, ClientStep, sourceVars, projectVars, fiberVars, threadVars, RequestsType,
         InboxesType
<1> QED BY <1>1, <1>2 DEF TypeInv, RequestsType

LEMMA DispatchType ==
  ASSUME TypeInv, NEW r \in Requests, NEW d \in Docs, NEW c \in Contexts, Dispatch(r, d, c)
  PROVE  RequestsType' /\ InboxesType'
<1> DEFINE w == SlotOf(c)
<1> DEFINE query == [NewRequest EXCEPT !.pc = "querying", !.doc = d, !.ctx = c,
                                       !.version = ledger[d].version, !.text = ledger[d].text,
                                       !.gen = project[c].gen, !.epoch = project[c].slot]
<1>1. /\ project[c] \in ProjectRecord /\ ledger[d].version \in Nat /\ ledger[d].text \in Nat
      /\ RequestsType /\ InboxesType /\ req[r] \in RequestRecord
  BY DEF TypeInv, TypeOK, RequestsType, InboxesType
<1>2. project[c].gen \in Nat /\ project[c].slot \in {0} \cup Epochs
  BY <1>1 DEF ProjectRecord
<1>3. CASE project[c].slot = 0 \/ ~Alive(w)
  <2> DEFINE asked == [req[r] EXCEPT !.doc = d]
  <2>1. asked \in RequestRecord /\ "unavailable" \in Outcomes
    BY <1>1 DEF RequestRecord, Outcomes
  <2>2. req' = [req EXCEPT ![r] = Settled(asked, "unavailable")] /\ UNCHANGED inbox
    BY <1>3 DEF Dispatch
  <2> HIDE DEF asked
  <2>3. Settled(asked, "unavailable") \in RequestRecord /\ Settled(asked, "unavailable").pc = "done"
    BY <2>1, SettledType
  <2> QED BY <1>1, <2>2, <2>3, RequestType DEF InboxesType
<1>4. CASE ~(project[c].slot = 0 \/ ~Alive(w))
  <2>1. req' = [req EXCEPT ![r] = query] /\ Send(w, Query(project[c].gen, r, d))
    BY <1>4 DEF Dispatch
  <2>2. query \in RequestRecord /\ query.ctx = c /\ query.doc = d
    BY <1>1, <1>2, NewRequestType DEF RequestRecord
  <2>3. Query(project[c].gen, r, d) \in HostMessage
    BY <1>2, MessageTypes
  <2> HIDE DEF query, w
  <2>4. RequestsType'
    BY <1>1, <2>1, <2>2, RequestType
  <2> QED BY <1>1, <2>1, <2>3, <2>4, SendType
<1> QED BY <1>3, <1>4

LEMMA AskType ==
  ASSUME TypeInv, NEW r \in Requests, NEW d \in Docs, Ask(r, d)
  PROVE  TypeInv'
<1> DEFINE asked == [NewRequest EXCEPT !.doc = d, !.version = ledger[d].version,
                                       !.text = ledger[d].text]
<1> DEFINE waiting == [asked EXCEPT !.pc = "waiting", !.gen = project[current].gen, !.ctx = current]
<1>1. ledger[d].version \in Nat /\ ledger[d].text \in Nat /\ RequestsType /\ InboxesType
  BY DEF TypeInv, TypeOK, RequestsType, InboxesType
<1>2. asked \in RequestRecord /\ asked.pc = "idle" /\ asked.doc = d
  BY <1>1, NewRequestType DEF RequestRecord, NewRequest
<1>3. CASE Associated(d) /\ Dispatch(r, d, current)
  <2>1. current \in Contexts
    BY <1>3 DEF Associated, TypeInv, TypeOK
  <2> QED BY <1>3, <2>1, DispatchType, ClientStepType DEF Ask
<1>4. CASE ~(Associated(d) /\ Dispatch(r, d, current))
  <2>1. /\ UNCHANGED inbox
        /\ \/ req' = [req EXCEPT ![r] = Settled(asked, "closed")]
           \/ req' = [req EXCEPT ![r] = [asked EXCEPT !.pc = "discovering"]]
           \/ req' = [req EXCEPT ![r] = Settled(asked, "analysisFailed")]
           \/ Associated(d) /\ req' = [req EXCEPT ![r] = waiting]
    BY <1>4 DEF Ask
  <2>2. "closed" \in Outcomes /\ "analysisFailed" \in Outcomes
    BY DEF Outcomes
  <2>3. ASSUME Associated(d)
        PROVE  waiting \in RequestRecord /\ waiting.ctx \in Contexts /\ waiting.doc \in Docs
    <3>1. current \in Contexts
      BY <2>3 DEF Associated, TypeInv, TypeOK
    <3>2. project[current].gen \in Nat
      BY <3>1 DEF TypeInv, TypeOK, ProjectRecord
    <3> HIDE DEF asked
    <3> QED BY <1>2, <3>1, <3>2 DEF RequestRecord
  <2> HIDE DEF asked
  <2>4. /\ [asked EXCEPT !.pc = "discovering"] \in RequestRecord
        /\ [asked EXCEPT !.pc = "discovering"].pc = "discovering"
    BY <1>2 DEF RequestRecord
  <2> HIDE DEF waiting
  <2>5. RequestsType'
    <3>1. CASE req' = [req EXCEPT ![r] = Settled(asked, "closed")]
      BY <1>1, <1>2, <2>2, <3>1, SettledType, RequestType
    <3>2. CASE req' = [req EXCEPT ![r] = [asked EXCEPT !.pc = "discovering"]]
      BY <1>1, <2>4, <3>2, RequestType
    <3>3. CASE req' = [req EXCEPT ![r] = Settled(asked, "analysisFailed")]
      BY <1>1, <1>2, <2>2, <3>3, SettledType, RequestType
    <3>4. CASE Associated(d) /\ req' = [req EXCEPT ![r] = waiting]
      BY <1>1, <2>3, <3>4, RequestType
    <3> QED BY <2>1, <3>1, <3>2, <3>3, <3>4
  <2> QED BY <1>1, <2>1, <2>5, ClientStepType DEF Ask, InboxesType
<1> QED BY <1>3, <1>4

LEMMA ResumeType ==
  ASSUME TypeInv, NEW r \in Requests, Resume(r)
  PROVE  TypeInv'
<1>1. /\ req[r].ctx \in Contexts /\ req[r].doc \in Docs /\ req[r] \in RequestRecord
      /\ RequestsType /\ InboxesType
  BY DEF Resume, TypeInv, TypeOK, RequestsAreBound, RequestsType, InboxesType
<1>2. CASE Dispatch(r, req[r].doc, req[r].ctx)
  BY <1>1, <1>2, DispatchType, ClientStepType DEF Resume
<1>3. CASE ~Dispatch(r, req[r].doc, req[r].ctx)
  <2>1. req' = [req EXCEPT ![r] = Settled(req[r], "superseded")] /\ UNCHANGED inbox
    BY <1>3 DEF Resume
  <2>2. /\ Settled(req[r], "superseded") \in RequestRecord
        /\ Settled(req[r], "superseded").pc = "done"
    BY <1>1, SettledType DEF Outcomes
  <2>3. RequestsType'
    BY <1>1, <2>1, <2>2, RequestType
  <2> QED BY <1>1, <2>1, <2>3, ClientStepType DEF Resume, InboxesType
<1> QED BY <1>2, <1>3

LEMMA AbandonType ==
  ASSUME TypeInv, NEW r \in Requests, Abandon(r)
  PROVE  TypeInv'
<1>1. req[r] \in RequestRecord /\ RequestsType /\ InboxesType
  BY DEF TypeInv, TypeOK, RequestsType, InboxesType
<1>2. req' = [req EXCEPT ![r] = Settled(req[r], "abandoned")]
  BY DEF Abandon
<1>3. Settled(req[r], "abandoned") \in RequestRecord /\ Settled(req[r], "abandoned").pc = "done"
  BY <1>1, SettledType DEF Outcomes
<1>4. RequestsType'
  BY <1>1, <1>2, <1>3, RequestType
<1>5. CancelQuery(r) \in HostMessage
  BY DEF CancelQuery, HostMessage
<1>6. InboxesType'
  BY <1>1, <1>5, SendType DEF Abandon, InboxesType
<1> QED BY <1>4, <1>6, ClientStepType DEF Abandon

-----------------------------------------------------------------------------
\* The supervisor.

LEMMA NoSourcesType == NoSources \in Snapshot
  BY DEF NoSources, NoText, Snapshot

LEMMA SupervisorType ==
  ASSUME NEW pc \in {"idle", "debounce", "retiring", "discovering", "ensuring", "failing"},
         NEW on \in SUBSET Workers
  PROVE  Supervisor(pc, on) \in SupervisorRecord /\ Supervisor(pc, on).pc = pc
  BY DEF Supervisor, SupervisorRecord

\* After the supersedes and the beginning of a discovery a slot is as it was, or
\* it is empty and its thread was gone.
SlotKept(c, p) ==
  project'[c].slot = p.slot \/ (project'[c].slot = 0 /\ ~Alive(<<c, p.slot>>))

LEMMA SupersedeThenDiscoverType ==
  ASSUME TypeInv, NEW P \in [Contexts -> ProjectRecord], NEW signaled \in BOOLEAN,
         SupersedeThenDiscover(P, signaled), UNCHANGED <<ledger, current, created, engine>>
  PROVE  /\ project' \in [Contexts -> ProjectRecord]
         /\ \A c \in Contexts : SlotKept(c, P[c])
         /\ signal' \in BOOLEAN /\ discovery' \in SUBSET Docs
         /\ batch' \in BatchRecord /\ sup' \in SupervisorRecord
         /\ InboxesType' /\ BoundsInv'
<1> DEFINE p == P[current]
<1> DEFINE wanted == current # 0 /\ p.supersedeRequested # 0 /\ p.slot # 0
<1> DEFINE gone == wanted /\ ~Alive(<<current, p.slot>>)
<1> DEFINE marked == [p EXCEPT !.supersedeRequested = 0, !.awaitingSupersede = p.supersedeRequested]
<1> DEFINE open == {d \in discovery : IsOpen(d)}
<1>1. current # 0 => current \in Contexts /\ p \in ProjectRecord
  BY DEF TypeInv, TypeOK
<1>2. wanted => marked \in ProjectRecord /\ marked.slot = p.slot
  BY <1>1 DEF ProjectRecord
<1>3. wanted => Retired(marked) \in ProjectRecord /\ Retired(marked).slot = 0
  <2> HIDE DEF marked
  <2> QED BY <1>2, RetiredType
<1>4. /\ project' = IF wanted
                    THEN [P EXCEPT ![current] = IF gone THEN Retired(marked) ELSE marked]
                    ELSE P
      /\ signal' = (signaled \/ gone)
      /\ IF wanted THEN Send(<<current, p.slot>>, SupersedeAnalysis(p.supersedeRequested))
                   ELSE UNCHANGED inbox
      /\ discovery' = {}
  BY DEF SupersedeThenDiscover
<1>5. /\ project' \in [Contexts -> ProjectRecord]
      /\ \A c \in Contexts : SlotKept(c, P[c])
  <2> HIDE DEF marked
  <2>1. CASE wanted /\ gone
    <3>1. project' = [P EXCEPT ![current] = Retired(marked)]
      BY <1>4, <2>1
    <3> QED BY <1>1, <1>3, <2>1, <3>1 DEF SlotKept
  <2>2. CASE wanted /\ ~gone
    <3>1. project' = [P EXCEPT ![current] = marked]
      BY <1>4, <2>2
    <3> QED BY <1>1, <1>2, <2>2, <3>1 DEF SlotKept
  <2>3. CASE ~wanted
    BY <1>4, <2>3 DEF SlotKept
  <2> QED BY <2>1, <2>2, <2>3
<1>6. InboxesType'
  <2>1. InboxesType
    BY DEF TypeInv, TypeOK, InboxesType
  <2>2. CASE wanted
    <3>1. SupersedeAnalysis(p.supersedeRequested) \in HostMessage
      BY <1>1, <2>2 DEF ProjectRecord, SupersedeAnalysis, HostMessage
    <3> QED BY <1>4, <2>1, <2>2, <3>1, SendType
  <2>3. CASE ~wanted
    BY <1>4, <2>1, <2>3 DEF InboxesType
  <2> QED BY <2>2, <2>3
<1>7. /\ batch' \in BatchRecord /\ batch'.found = NoSources
      /\ sup' \in SupervisorRecord
      /\ sup'.pc = "discovering" => batch'.doc \in Docs /\ batch'.version # 0
  <2>1. CASE open = {}
    <3>1. batch' = NoBatch /\ sup' = Supervisor("debounce", {})
      BY <2>1 DEF SupersedeThenDiscover
    <3>2. NoBatch \in BatchRecord /\ NoBatch.found = NoSources
      BY NoSourcesType DEF NoBatch, BatchRecord, NoText
    <3> QED BY <3>1, <3>2, SupervisorType
  <2>2. CASE open # {}
    <3>1. PICK d \in open :
            batch' = [doc |-> d, version |-> ledger[d].version, text |-> ledger[d].text,
                      rest |-> discovery \ {d}, found |-> NoSources]
      BY <2>2 DEF SupersedeThenDiscover
    <3>2. sup' = Supervisor("discovering", {})
      BY <2>2 DEF SupersedeThenDiscover
    <3>3. /\ d \in Docs /\ ledger[d].version # 0
          /\ ledger[d].version \in Nat /\ ledger[d].text \in Nat
          /\ discovery \ {d} \in SUBSET Docs
      BY DEF TypeInv, TypeOK, BoundsInv, VersionsCount
    <3> QED BY <3>1, <3>2, <3>3, NoSourcesType, SupervisorType DEF BatchRecord
  <2> QED BY <2>1, <2>2
<1>8. BoundsInv'
  BY <1>7 DEF TypeInv, BoundsInv, VersionsCount, BatchIsDated, ContextsRemain,
                       LedgerIsCleared,
              IsOpen, Running
<1>9. signal' \in BOOLEAN /\ discovery' \in SUBSET Docs
  BY <1>4
<1> QED BY <1>5, <1>6, <1>7, <1>8, <1>9

\* The contexts after their retirements, and the workers these dismiss.
RetiredContexts ==
  [c \in Contexts |-> IF c \in retirements THEN Retired(project[c]) ELSE project[c]]
RetiredSlots == {SlotOf(c) : c \in {k \in retirements : project[k].slot # 0}}

LEMMA RetirementsType ==
  ASSUME TypeOK
  PROVE  /\ RetiredContexts \in [Contexts -> ProjectRecord]
         /\ RetiredSlots \in SUBSET Workers
<1>1. \A c \in Contexts : Retired(project[c]) \in ProjectRecord
  BY RetiredType DEF TypeOK
<1>2. ASSUME NEW c \in retirements, project[c].slot # 0 PROVE SlotOf(c) \in Workers
  BY <1>2, SlotType DEF TypeOK, SlotOf
<1> QED BY <1>1, <1>2 DEF TypeOK, RetiredContexts, RetiredSlots

LEMMA TakeSignalType ==
  ASSUME TypeInv, TakeSignal
  PROVE  TypeInv'
<1>1. RetiredContexts \in [Contexts -> ProjectRecord] /\ RetiredSlots \in SUBSET Workers
  BY RetirementsType DEF TypeInv
<1>2. UNCHANGED <<ledger, current, created, engine>>
  BY DEF TakeSignal, SupervisorStep, sourceVars
<1>3. CASE SupersedeThenDiscover(RetiredContexts, FALSE) /\ UNCHANGED shuttingDown
  <2>1. /\ project' \in [Contexts -> ProjectRecord]
        /\ signal' \in BOOLEAN /\ discovery' \in SUBSET Docs
        /\ batch' \in BatchRecord /\ sup' \in SupervisorRecord
        /\ InboxesType' /\ BoundsInv'
    BY <1>1, <1>2, <1>3, SupersedeThenDiscoverType
  <2>2. TypeOK'
    BY <1>3, <2>1 DEF TakeSignal, SupervisorStep, TypeInv, TypeOK, InboxesType, sourceVars,
                       threadVars
  <2>3. RequestsAreBound'
    BY DEF TakeSignal, TypeInv, RequestsAreBound
  <2> QED BY <2>1, <2>2, <2>3 DEF TypeInv
<1>4. CASE /\ project' = RetiredContexts
           /\ Dismiss(RetiredSlots)
           /\ sup' = Supervisor("retiring", RetiredSlots)
           /\ signal' = FALSE
           /\ UNCHANGED <<discovery, batch>>
  <2>1. InboxesType' /\ shuttingDown' = shuttingDown \cup RetiredSlots
    BY <1>1, <1>4, DismissType DEF TypeInv, TypeOK, InboxesType
  <2>2. sup' \in SupervisorRecord /\ sup'.pc # "discovering"
    BY <1>1, <1>4, SupervisorType
  <2>3. BoundsInv'
    BY <1>2, <1>4, <2>2, BoundsFrame DEF TypeInv
  <2>4. TypeOK'
    BY <1>1, <1>4, <2>1, <2>2 DEF TakeSignal, SupervisorStep, TypeInv, TypeOK, InboxesType,
                                  sourceVars, threadVars
  <2>5. RequestsAreBound'
    BY DEF TakeSignal, TypeInv, RequestsAreBound
  <2> QED BY <2>3, <2>4, <2>5 DEF TypeInv
<1> QED BY <1>3, <1>4 DEF TakeSignal, RetiredContexts, RetiredSlots

LEMMA FinishRetirementsType ==
  ASSUME TypeInv, FinishRetirements
  PROVE  TypeInv'
<1>1. UNCHANGED <<ledger, current, created, engine>>
  BY DEF FinishRetirements, SupervisorStep, sourceVars
<1>2. /\ project' \in [Contexts -> ProjectRecord]
      /\ signal' \in BOOLEAN /\ discovery' \in SUBSET Docs
      /\ batch' \in BatchRecord /\ sup' \in SupervisorRecord
      /\ InboxesType' /\ BoundsInv'
  BY <1>1, SupersedeThenDiscoverType DEF FinishRetirements, TypeInv, TypeOK
<1>3. TypeOK'
  BY <1>2 DEF FinishRetirements, SupervisorStep, TypeInv, TypeOK, InboxesType, sourceVars,
                       threadVars
<1>4. RequestsAreBound'
  BY DEF FinishRetirements, TypeInv, RequestsAreBound
<1> QED BY <1>2, <1>3, <1>4 DEF TypeInv

\* A document that did not change since the supervisor began to discover it is open.
LEMMA UnrevisedIsOpen ==
  ASSUME TypeInv, sup.pc = "discovering", Unrevised(batch.doc, batch.version)
  PROVE  IsOpen(batch.doc)
<1>1. batch.doc \in Docs /\ batch.version # 0
  BY DEF TypeInv, BoundsInv, BatchIsDated
<1> QED BY <1>1 DEF Unrevised, IsOpen, Unopened

\* The end of a discovery.  A new context can be made because a document was
\* found: it is open still, or the bound on contexts was kept for it.
LEMMA AdoptType ==
  ASSUME TypeInv, NEW found \in Snapshot, Adopt(found), UNCHANGED <<ledger, engine>>,
         batch' = NoBatch, sup' = Supervisor("debounce", {}),
         found # NoSources => current # 0 \/ created < MaxContexts
  PROVE  /\ project' \in [Contexts -> ProjectRecord]
         /\ current' \in {0} \cup Contexts /\ created' \in {0} \cup Contexts
         /\ RequestsType' /\ BoundsInv'
         /\ batch' \in BatchRecord /\ sup' \in SupervisorRecord
         /\ UNCHANGED current \/ current = 0
         /\ \A c \in Contexts : project'[c].slot = project[c].slot
<1> DEFINE touched == {d \in Docs : found[d] # NoText}
<1> DEFINE c == IF current # 0 THEN current ELSE created + 1
<1> DEFINE docs == [d \in Docs |-> IF d \in touched THEN found[d] ELSE project[c].docs[d]]
<1> DEFINE adopted == [project[c] EXCEPT !.docs = docs, !.rediscover = FALSE]
<1>1. batch' \in BatchRecord /\ batch'.found = NoSources /\ sup' \in SupervisorRecord
      /\ sup'.pc = "debounce"
  BY NoSourcesType, SupervisorType DEF NoBatch, BatchRecord, NoText
<1>2. CASE touched = {}
  <2>1. UNCHANGED <<project, current, created, req>>
    BY <1>2 DEF Adopt
  <2>2. BoundsInv'
    BY <1>1, <2>1 DEF TypeInv, BoundsInv, VersionsCount, BatchIsDated, ContextsRemain,
                      LedgerIsCleared, IsOpen, Running
  <2> QED BY <1>1, <2>1, <2>2 DEF TypeInv, TypeOK, RequestsType, RequestsAreBound
<1>3. CASE touched # {}
  <2>1. /\ project' = [project EXCEPT ![c] = Schedule(adopted)]
        /\ current' = c
        /\ created' = IF current # 0 THEN created ELSE created + 1
        /\ Settle(DiscoveryWaiters(touched) \cup Affected(c), "superseded")
    BY <1>3 DEF Adopt
  <2>2. found # NoSources
    BY <1>3 DEF NoSources
  <2>3. c \in Contexts
    BY <2>2, EngineAssumption DEF TypeInv, TypeOK, Contexts
  <2>4. project[c] \in ProjectRecord
    BY <2>3 DEF TypeInv, TypeOK
  <2>5. docs \in Snapshot
    BY <2>4 DEF Snapshot, ProjectRecord
  <2>6. adopted \in ProjectRecord /\ adopted.slot = project[c].slot
    <3> HIDE DEF docs, c
    <3>1. [project[c] EXCEPT !.docs = docs] \in ProjectRecord
      BY <2>4, <2>5 DEF ProjectRecord
    <3> QED BY <2>4, <3>1 DEF ProjectRecord
  <2>7. RequestsType'
    BY <2>1, SettleType DEF TypeInv, TypeOK, RequestsType, Outcomes
  <2>8. created' \in {0} \cup Contexts /\ (UNCHANGED current \/ current = 0)
    BY <2>1, <2>3 DEF TypeInv, TypeOK
  <2> HIDE DEF c, adopted
  <2>9. project' \in [Contexts -> ProjectRecord]
        /\ \A k \in Contexts : project'[k].slot = project[k].slot
    BY <2>1, <2>3, <2>6, ScheduleType DEF TypeInv, TypeOK
  <2>10. current' # 0
    BY <2>1, <2>3, EngineAssumption DEF Contexts
  <2>11. BoundsInv'
    BY <1>1, <2>10 DEF TypeInv, BoundsInv, VersionsCount, BatchIsDated, ContextsRemain,
                      LedgerIsCleared, IsOpen, Running
  <2> QED BY <1>1, <2>1, <2>3, <2>7, <2>8, <2>9, <2>11
<1> QED BY <1>2, <1>3

LEMMA DiscoveredType ==
  ASSUME TypeInv, Discovered
  PROVE  TypeInv' /\ \A c \in Contexts : project'[c].slot = project[c].slot
<1> DEFINE d == batch.doc
<1> DEFINE same == Unrevised(d, batch.version)
<1> DEFINE found == IF same THEN [batch.found EXCEPT ![d] = batch.text] ELSE batch.found
<1> DEFINE rest == {e \in batch.rest : IsOpen(e)}
<1>1. d \in Docs /\ batch.version # 0 /\ batch \in BatchRecord
  BY DEF Discovered, TypeInv, TypeOK, BoundsInv, BatchIsDated
<1>2. found \in Snapshot
  BY <1>1 DEF BatchRecord, Snapshot
<1>3. UNCHANGED <<ledger, engine, retirements, failing, leasing, threadVars, shuttingDown,
                  inbox, outbox, events, disk, faults, signal>>
  BY DEF Discovered, SupervisorStep, sourceVars
<1>4. discovery' \in SUBSET Docs
  BY <1>1 DEF Discovered, TypeInv, TypeOK
\* Something was found only if a document is open or was kept for a context.
<1>5. found # NoSources => current # 0 \/ created < MaxContexts
  <2>1. SUFFICES ASSUME current = 0, created = MaxContexts PROVE found = NoSources
    BY EngineAssumption DEF TypeInv, TypeOK, Contexts
  <2>2. batch.found = NoSources /\ ~IsOpen(d)
    BY <1>1, <2>1 DEF TypeInv, BoundsInv, ContextsRemain
  <2>3. ~same
    BY <2>2, UnrevisedIsOpen DEF Discovered
  <2> QED BY <2>2, <2>3
<1>6. CASE rest # {}
  <2>1. PICK e \in rest :
          batch' = [doc |-> e, version |-> ledger[e].version, text |-> ledger[e].text,
                    rest |-> batch.rest \ {e}, found |-> found]
    BY <1>6 DEF Discovered
  <2>2. UNCHANGED <<project, current, created, req, sup>>
    BY <1>6 DEF Discovered
  <2>3. /\ e \in Docs /\ IsOpen(e) /\ ledger[e].version # 0
        /\ ledger[e].version \in Nat /\ ledger[e].text \in Nat
    BY <1>1, <2>1 DEF TypeInv, TypeOK, BatchRecord, BoundsInv, VersionsCount
  <2> HIDE DEF found
  <2>4. batch' \in BatchRecord /\ batch'.doc \in Docs /\ batch'.version # 0
    BY <1>1, <1>2, <2>1, <2>3 DEF BatchRecord
  <2>5. BoundsInv'
    BY <1>3, <2>2, <2>3, <2>4
       DEF TypeInv, BoundsInv, VersionsCount, BatchIsDated, ContextsRemain,
                       LedgerIsCleared,
           IsOpen, Running
  <2>6. TypeOK' /\ RequestsAreBound'
    BY <1>3, <1>4, <2>2, <2>4 DEF TypeInv, TypeOK, RequestsAreBound, threadVars
  <2> QED BY <2>2, <2>5, <2>6 DEF TypeInv
<1>7. CASE rest = {}
  <2>1. Adopt(found) /\ batch' = NoBatch /\ sup' = Supervisor("debounce", {})
    BY <1>7 DEF Discovered
  <2> HIDE DEF found
  <2>2. /\ project' \in [Contexts -> ProjectRecord]
        /\ current' \in {0} \cup Contexts /\ created' \in {0} \cup Contexts
        /\ RequestsType' /\ BoundsInv'
        /\ batch' \in BatchRecord /\ sup' \in SupervisorRecord
        /\ \A c \in Contexts : project'[c].slot = project[c].slot
    BY <1>2, <1>3, <1>5, <2>1, AdoptType
  <2>3. TypeOK'
    BY <1>3, <1>4, <2>2 DEF TypeInv, TypeOK, RequestsType, threadVars
  <2> QED BY <2>2, <2>3 DEF TypeInv, RequestsType
<1> QED BY <1>6, <1>7

-----------------------------------------------------------------------------
\* Starting an analysis.

\* What the fibers other than the supervisor's discovery leave as it is.
frameVars == <<sourceVars, discovery, current, created, retirements, batch, engine>>

\* A step that may change one context, the supervisor, failures, inboxes and
\* requests keeps the invariant if it keeps the types of those.
LEMMA FiberStepType ==
  ASSUME TypeInv, UNCHANGED frameVars, UNCHANGED <<proc, runtime>>,
         ready' \in [Workers -> {"waiting", "ready", "failed"}], listening' \subseteq Workers,
         project' \in [Contexts -> ProjectRecord], signal' \in BOOLEAN,
         sup' \in SupervisorRecord, sup'.pc # "discovering" \/ sup' = sup,
         failing' \subseteq FailureRecord, leasing' \subseteq Workers,
         shuttingDown' \subseteq Workers, faults' \in Nat,
         InboxesType', outbox' \in [Workers -> Seq(WorkerMessage \cup {Died})], RequestsType'
  PROVE  TypeInv'
<1>1. BoundsInv'
  BY BoundsFrame DEF TypeInv, frameVars, sourceVars
<1>2. TypeOK'
  BY DEF TypeInv, TypeOK, InboxesType, RequestsType, frameVars, sourceVars, threadVars
<1> QED BY <1>1, <1>2 DEF TypeInv, RequestsType

\* A worker that leaves its slot is under a retirement deadline, or was gone.
SlotsCovered ==
  \A k \in Contexts :
    \/ project'[k].slot = project[k].slot
    \/ SlotOf(k) \in shuttingDown'
    \/ ~Alive(SlotOf(k))

LEMMA FailCovers ==
  ASSUME TypeInv, NEW c \in Contexts, NEW p \in ProjectRecord, p.slot = project[c].slot,
         NEW supervised \in BOOLEAN, Fail(c, p, supervised)
  PROVE  SlotsCovered /\ shuttingDown \subseteq shuttingDown'
<1>1. /\ project'[c].slot = 0
      /\ \A k \in Contexts \ {c} : project'[k] = project[k]
      /\ shuttingDown' = shuttingDown \cup (IF p.slot = 0 THEN {} ELSE {<<c, p.slot>>})
  BY FailType DEF TypeInv
<1> QED BY <1>1 DEF SlotsCovered, SlotOf

\* A failure of a context, whoever reports it, keeps the invariant.
LEMMA FailKeeps ==
  ASSUME TypeInv, NEW c \in Contexts, NEW p \in ProjectRecord, p.slot = project[c].slot,
         NEW supervised \in BOOLEAN, Fail(c, p, supervised),
         UNCHANGED frameVars, UNCHANGED <<proc, runtime>>,
         ready' \in [Workers -> {"waiting", "ready", "failed"}], listening' \subseteq Workers,
         leasing' \subseteq Workers, faults' \in Nat,
         outbox' \in [Workers -> Seq(WorkerMessage \cup {Died})]
  PROVE  TypeInv' /\ SlotsCovered /\ shuttingDown \subseteq shuttingDown'
<1>1. /\ project' \in [Contexts -> ProjectRecord]
      /\ signal' \in BOOLEAN
      /\ sup' \in SupervisorRecord /\ (sup'.pc # "discovering" \/ sup' = sup)
      /\ failing' \subseteq FailureRecord
      /\ shuttingDown' \subseteq Workers
      /\ InboxesType' /\ RequestsType'
  BY FailType DEF TypeInv
<1> QED BY <1>1, FailCovers, FiberStepType

LEMMA StartAnalysisOnType ==
  ASSUME TypeInv, NEW c \in Contexts, NEW w, StartAnalysisOn(c, w),
         UNCHANGED frameVars, UNCHANGED <<threadVars, leasing, outbox, faults>>
  PROVE  TypeInv' /\ SlotsCovered /\ shuttingDown \subseteq shuttingDown'
<1> DEFINE p == project[c]
<1> DEFINE idle == [p EXCEPT !.pending = FALSE, !.dirty = FALSE, !.rediscover = FALSE]
<1> DEFINE started == [p EXCEPT !.pending = FALSE, !.active = p.gen,
                                !.dirty = FALSE, !.rediscover = FALSE]
<1>1. p \in ProjectRecord
  BY DEF TypeInv, TypeOK
<1>2. started \in ProjectRecord /\ started.slot = p.slot
  <2>1. idle \in ProjectRecord /\ idle.slot = p.slot /\ idle.gen = p.gen
    BY <1>1 DEF ProjectRecord
  <2>2. started = [idle EXCEPT !.active = p.gen]
    BY <1>1 DEF ProjectRecord
  <2> HIDE DEF idle
  <2> QED BY <1>1, <2>1, <2>2 DEF ProjectRecord
<1> HIDE DEF started
<1>3. CASE Alive(w)
  <2>1. /\ project' = [project EXCEPT ![c] = started]
        /\ Send(w, Analyze(p.gen, p.docs, p.dirty \/ p.rediscover))
        /\ sup' = Supervisor("idle", {})
        /\ UNCHANGED <<signal, failing, shuttingDown, req>>
    BY <1>3 DEF StartAnalysisOn, started
  <2>2. Analyze(p.gen, p.docs, p.dirty \/ p.rediscover) \in HostMessage
    <3>1. p.gen \in Nat /\ p.docs \in Snapshot
      BY <1>1 DEF ProjectRecord
    <3> QED BY <3>1 DEF Analyze, HostMessage
  <2>3. InboxesType'
    BY <2>1, <2>2, SendType DEF TypeInv, TypeOK, InboxesType
  <2>4. project' \in [Contexts -> ProjectRecord]
        /\ \A k \in Contexts : project'[k].slot = project[k].slot
    BY <1>2, <2>1 DEF TypeInv, TypeOK
  <2>5. sup' \in SupervisorRecord /\ sup'.pc # "discovering"
    BY <2>1, SupervisorType
  <2>6. RequestsType'
    BY <2>1 DEF TypeInv, TypeOK, RequestsType, RequestsAreBound
  <2>7. TypeInv'
    BY <2>1, <2>3, <2>4, <2>5, <2>6, FiberStepType DEF TypeInv, TypeOK, threadVars
  <2> QED BY <2>1, <2>4, <2>7 DEF SlotsCovered
<1>4. CASE ~Alive(w)
  <2>1. Fail(c, started, TRUE)
    BY <1>4 DEF StartAnalysisOn, started
  <2> QED BY <1>2, <2>1, FailKeeps DEF TypeInv, TypeOK, threadVars
<1> QED BY <1>3, <1>4

LEMMA DebounceIdleType ==
  ASSUME TypeInv, DebounceIdle
  PROVE  TypeInv' /\ SlotsCovered
<1>1. sup' \in SupervisorRecord /\ sup'.pc # "discovering"
  BY SupervisorType DEF DebounceIdle
<1>2. InboxesType' /\ RequestsType'
  BY DEF DebounceIdle, TypeInv, TypeOK, InboxesType, RequestsType, RequestsAreBound
<1>3. TypeInv'
  BY <1>1, <1>2, FiberStepType DEF DebounceIdle, SupervisorStep, TypeInv, TypeOK, frameVars,
                                   projectVars, threadVars, sourceVars
<1> QED BY <1>3 DEF DebounceIdle, projectVars, SlotsCovered

LEMMA DebounceStartType ==
  ASSUME TypeInv, DebounceStart
  PROVE  TypeInv' /\ SlotsCovered /\ shuttingDown \subseteq shuttingDown'
<1>1. current \in Contexts
  BY DEF DebounceStart, Startable, TypeInv, TypeOK
<1> QED BY <1>1, StartAnalysisOnType DEF DebounceStart, SupervisorStep, frameVars, sourceVars

LEMMA DebounceSpawnType ==
  ASSUME TypeInv, DebounceSpawn
  PROVE  TypeInv'
<1> DEFINE p == project[current]
<1> DEFINE e == p.epoch + 1
<1> DEFINE w == <<current, e>>
<1>1. current \in Contexts /\ p \in ProjectRecord
  BY DEF DebounceSpawn, Startable, TypeInv, TypeOK
<1>2. e \in Epochs
  BY <1>1, EngineAssumption DEF DebounceSpawn, Epochs, ProjectRecord
<1>3. w \in Workers
  BY <1>1, <1>2 DEF Workers
<1>4. /\ project' = [project EXCEPT ![current].epoch = e, ![current].slot = e]
      /\ proc' = [proc EXCEPT ![w] = "live"]
      /\ listening' = listening \cup {w}
      /\ inbox' = [inbox EXCEPT ![w] = <<Initialize>>]
      /\ sup' = Supervisor("ensuring", {w})
      /\ UNCHANGED <<discovery, current, created, retirements, signal, batch, failing, leasing,
                     ready, runtime, shuttingDown, outbox, req, sourceVars, faults, engine>>
  BY DEF DebounceSpawn, SupervisorStep
<1> HIDE DEF w, e
<1>5. [p EXCEPT !.epoch = e, !.slot = e] \in ProjectRecord
  <2>1. e \in Nat
    BY <1>2 DEF Epochs
  <2>2. [p EXCEPT !.epoch = e] \in ProjectRecord
    BY <1>1, <2>1 DEF ProjectRecord
  <2> QED BY <1>2, <2>2 DEF ProjectRecord
<1>6. project' \in [Contexts -> ProjectRecord]
  <2>1. project' = [project EXCEPT ![current] = [p EXCEPT !.epoch = e, !.slot = e]]
    BY <1>4
  <2> QED BY <1>1, <1>5, <2>1 DEF TypeInv, TypeOK
<1>7. inbox' \in [Workers -> Seq(HostMessage)]
  <2>1. <<Initialize>> \in Seq(HostMessage)
    BY DEF Initialize, HostMessage
  <2> QED BY <1>4, <2>1 DEF TypeInv, TypeOK
<1>8. sup' \in SupervisorRecord /\ sup'.pc # "discovering"
  BY <1>3, <1>4, SupervisorType
<1>9. BoundsInv' /\ RequestsAreBound'
  BY <1>4, <1>8, BoundsFrame DEF TypeInv, RequestsAreBound, sourceVars
<1>10. TypeOK'
  BY <1>3, <1>4, <1>6, <1>7, <1>8 DEF TypeInv, TypeOK, sourceVars
<1> QED BY <1>9, <1>10 DEF TypeInv

LEMMA SpawnFailsType ==
  ASSUME TypeInv, SpawnFails
  PROVE  TypeInv' /\ SlotsCovered /\ shuttingDown \subseteq shuttingDown'
<1> DEFINE p == [project[current] EXCEPT !.epoch = @ + 1]
<1>1. current \in Contexts
  BY DEF SpawnFails, Startable, TypeInv, TypeOK
<1>2. p \in ProjectRecord /\ p.slot = project[current].slot
  <2>1. project[current] \in ProjectRecord
    BY <1>1 DEF TypeInv, TypeOK
  <2> QED BY <2>1 DEF ProjectRecord
<1>3. /\ Fail(current, p, TRUE)
      /\ UNCHANGED frameVars
      /\ UNCHANGED <<threadVars, leasing, outbox>>
      /\ faults' = faults + 1
  BY DEF SpawnFails, Fault, frameVars
<1> HIDE DEF p
<1>4. faults' \in Nat
  BY <1>3 DEF TypeInv, TypeOK
<1> QED BY <1>1, <1>2, <1>3, <1>4, FailKeeps DEF TypeInv, TypeOK, threadVars

LEMMA WorkerIsReadyType ==
  ASSUME TypeInv, WorkerIsReady
  PROVE  TypeInv' /\ SlotsCovered /\ shuttingDown \subseteq shuttingDown'
<1>1. PICK w \in sup.on :
        IF project[w[1]].state # "Pending"
        THEN /\ sup' = Supervisor("idle", {})
             /\ UNCHANGED <<project, signal, failing, shuttingDown, inbox, req>>
        ELSE StartAnalysisOn(w[1], w)
  BY DEF WorkerIsReady
<1>2. w[1] \in Contexts
  BY DEF TypeInv, TypeOK, SupervisorRecord, Workers
<1>3. UNCHANGED frameVars /\ UNCHANGED <<threadVars, leasing, outbox, faults>>
  BY DEF WorkerIsReady, SupervisorStep, frameVars
<1>4. CASE project[w[1]].state # "Pending"
  <2>1. sup' \in SupervisorRecord /\ sup'.pc # "discovering"
    BY <1>1, <1>4, SupervisorType
  <2>2. InboxesType' /\ RequestsType'
    BY <1>1, <1>4 DEF TypeInv, TypeOK, InboxesType, RequestsType, RequestsAreBound
  <2>3. TypeInv'
    BY <1>1, <1>3, <1>4, <2>1, <2>2, FiberStepType DEF TypeInv, TypeOK, threadVars
  <2> QED BY <1>1, <1>4, <2>3 DEF SlotsCovered
<1>5. CASE project[w[1]].state = "Pending"
  BY <1>1, <1>2, <1>3, <1>5, StartAnalysisOnType
<1> QED BY <1>4, <1>5

LEMMA WorkerNeverReadyType ==
  ASSUME TypeInv, WorkerNeverReady
  PROVE  TypeInv' /\ SlotsCovered /\ shuttingDown \subseteq shuttingDown'
<1>1. PICK w \in sup.on : Fail(w[1], project[w[1]], TRUE)
  BY DEF WorkerNeverReady
<1>2. w[1] \in Contexts /\ project[w[1]] \in ProjectRecord
  BY DEF TypeInv, TypeOK, SupervisorRecord, Workers
<1> QED BY <1>1, <1>2, FailKeeps DEF WorkerNeverReady, SupervisorStep, TypeInv, TypeOK, frameVars,
                                     threadVars

LEMMA ReadinessExpiresType ==
  ASSUME TypeInv, ReadinessExpires
  PROVE  TypeInv' /\ SlotsCovered /\ shuttingDown \subseteq shuttingDown'
<1>1. PICK w \in sup.on : /\ IF proc[w] = "live" THEN Fault("slowStart") ELSE UNCHANGED faults
                          /\ Fail(w[1], project[w[1]], TRUE)
  BY DEF ReadinessExpires
<1>2. w[1] \in Contexts /\ project[w[1]] \in ProjectRecord
  BY DEF TypeInv, TypeOK, SupervisorRecord, Workers
<1>3. faults' \in Nat
  BY <1>1 DEF Fault, TypeInv, TypeOK
<1> QED BY <1>1, <1>2, <1>3, FailKeeps DEF ReadinessExpires, TypeInv, TypeOK, frameVars,
                                           threadVars

-----------------------------------------------------------------------------
\* The listener of a worker.

\* Reading a worker's message leaves its outbox typed.
LEMMA ConsumeType ==
  ASSUME TypeOK, NEW w \in Workers, outbox[w] # <<>>, Consume(w) \/ StopListening(w)
  PROVE  /\ outbox' \in [Workers -> Seq(WorkerMessage \cup {Died})]
         /\ listening' \subseteq Workers
<1>1. Tail(outbox[w]) \in Seq(WorkerMessage \cup {Died})
  BY TailFacts DEF TypeOK
<1>2. <<>> \in Seq(WorkerMessage \cup {Died})
  OBVIOUS
<1>3. CASE Consume(w)
  BY <1>1, <1>3 DEF TypeOK, Consume
<1>4. CASE StopListening(w)
  BY <1>2, <1>4 DEF TypeOK, StopListening
<1> QED BY <1>3, <1>4

\* The generation a message names.
LEMMA ReceivedType ==
  ASSUME TypeOK, NEW w \in Workers, NEW tag, Receive(w, tag)
  PROVE  LET m == Head(outbox[w])
         IN /\ tag \in {"Superseded", "Commit", "Failure"} => m.gen \in Nat
            /\ tag = "Result" => m \in [tag : {"Result"}, gen : Nat, req : Requests, doc : Docs,
                                        text : Nat]
<1>1. Head(outbox[w]) \in WorkerMessage \cup {Died}
  BY TailFacts DEF Receive, TypeOK
<1> QED BY <1>1 DEF Receive, WorkerMessage, Died

LEMMA ReceiveFrame ==
  ASSUME NEW w, NEW tag, Receive(w, tag)
  PROVE  UNCHANGED frameVars /\ UNCHANGED <<leasing, proc, runtime, faults>> /\ outbox[w] # <<>>
  BY DEF Receive, frameVars

\* A message that changes nothing of the fibers that wait for a worker.
LEMMA QuietReceiveType ==
  ASSUME TypeInv, NEW w \in Workers, NEW tag, Receive(w, tag), Consume(w) \/ StopListening(w),
         NoFailure, ready' \in [Workers -> {"waiting", "ready", "failed"}],
         project' \in [Contexts -> ProjectRecord],
         \A c \in Contexts : project'[c].slot = project[c].slot,
         signal' \in BOOLEAN, RequestsType'
  PROVE  TypeInv' /\ SlotsCovered /\ UNCHANGED shuttingDown
<1>1. outbox' \in [Workers -> Seq(WorkerMessage \cup {Died})] /\ listening' \subseteq Workers
  BY ReceiveFrame, ConsumeType DEF TypeInv
<1>2. UNCHANGED <<failing, shuttingDown, inbox, sup>>
  BY DEF NoFailure
<1>3. TypeInv'
  BY <1>1, <1>2, ReceiveFrame, FiberStepType DEF TypeInv, TypeOK, InboxesType
<1> QED BY <1>2, <1>3 DEF SlotsCovered

LEMMA ReceiveStaleType ==
  ASSUME TypeInv, NEW w \in Workers, ReceiveStale(w)
  PROVE  TypeInv' /\ SlotsCovered /\ shuttingDown \subseteq shuttingDown'
<1>1. PICK tag : Receive(w, tag)
  BY DEF ReceiveStale
<1> QED BY <1>1, QuietReceiveType DEF ReceiveStale, TypeInv, TypeOK, RequestsType, RequestsAreBound

LEMMA ReceiveReadyType ==
  ASSUME TypeInv, NEW w \in Workers, ReceiveReady(w)
  PROVE  TypeInv' /\ SlotsCovered /\ shuttingDown \subseteq shuttingDown'
  BY QuietReceiveType DEF ReceiveReady, TypeInv, TypeOK, RequestsType, RequestsAreBound

LEMMA ReceiveSupersededType ==
  ASSUME TypeInv, NEW w \in Workers, ReceiveSuperseded(w)
  PROVE  TypeInv' /\ SlotsCovered /\ shuttingDown \subseteq shuttingDown'
<1>1. w[1] \in Contexts /\ project[w[1]] \in ProjectRecord
  BY DEF TypeInv, TypeOK, Workers
<1> DEFINE free == [project[w[1]] EXCEPT !.awaitingSupersede = 0, !.active = 0]
<1>2. free \in ProjectRecord /\ free.slot = project[w[1]].slot
  BY <1>1 DEF ProjectRecord
<1>3. \/ /\ project' = [project EXCEPT ![w[1]] = free]
         /\ signal' = TRUE
      \/ UNCHANGED <<project, signal>>
  BY DEF ReceiveSuperseded
<1> HIDE DEF free
<1>4. project' \in [Contexts -> ProjectRecord] /\ signal' \in BOOLEAN
      /\ \A c \in Contexts : project'[c].slot = project[c].slot
  <2>1. project \in [Contexts -> ProjectRecord] /\ signal \in BOOLEAN
    BY DEF TypeInv, TypeOK
  <2>2. CASE project' = [project EXCEPT ![w[1]] = free] /\ signal' = TRUE
    BY <1>1, <1>2, <2>1, <2>2
  <2> QED BY <1>3, <2>1, <2>2
<1>5. RequestsType' /\ ready' \in [Workers -> {"waiting", "ready", "failed"}]
  BY DEF ReceiveSuperseded, TypeInv, TypeOK, RequestsType, RequestsAreBound
<1>6. Receive(w, "Superseded") /\ Consume(w) /\ NoFailure
  BY DEF ReceiveSuperseded
<1> QED BY <1>4, <1>5, <1>6, QuietReceiveType

LEMMA ReceiveCommitType ==
  ASSUME TypeInv, NEW w \in Workers, ReceiveCommit(w)
  PROVE  TypeInv' /\ SlotsCovered /\ shuttingDown \subseteq shuttingDown'
<1> DEFINE c == w[1]
<1> DEFINE committed == [project[c] EXCEPT !.active = 0, !.state = "Committed",
                                           !.failureCount = 0, !.circuit = "Closed"]
<1>1. c \in Contexts /\ project[c] \in ProjectRecord
  BY DEF TypeInv, TypeOK, Workers
<1>2. committed \in ProjectRecord /\ committed.slot = project[c].slot
  BY <1>1 DEF ProjectRecord
<1>3. project' = [project EXCEPT ![c] = committed] \/ UNCHANGED project
  BY DEF ReceiveCommit
<1> HIDE DEF committed
<1>4. project' \in [Contexts -> ProjectRecord]
      /\ \A k \in Contexts : project'[k].slot = project[k].slot
  <2>1. project \in [Contexts -> ProjectRecord]
    BY DEF TypeInv, TypeOK
  <2>2. CASE project' = [project EXCEPT ![c] = committed]
    BY <1>1, <1>2, <2>1, <2>2
  <2> QED BY <1>3, <2>1, <2>2
<1>5. RequestsType'
  <2>1. \/ UNCHANGED req
        \/ req' = [r \in Requests |->
                     IF r \in ProjectWaiters(c) /\ req[r].gen = Head(outbox[w]).gen
                     THEN [req[r] EXCEPT !.pc = "woken"] ELSE req[r]]
    BY DEF ReceiveCommit
  <2>2. ASSUME NEW r \in ProjectWaiters(c)
        PROVE  LET woken == [req[r] EXCEPT !.pc = "woken"]
               IN woken \in RequestRecord /\ woken.ctx \in Contexts /\ woken.doc \in Docs
    <3>1. req[r] \in RequestRecord /\ req[r].ctx \in Contexts /\ req[r].doc \in Docs
      BY DEF ProjectWaiters, TypeInv, TypeOK, RequestsAreBound
    <3> QED BY <3>1 DEF RequestRecord
  <2>3. ASSUME NEW r \in Requests
        PROVE  /\ req'[r] \in RequestRecord
               /\ req'[r] = req[r] \/ (req'[r].ctx \in Contexts /\ req'[r].doc \in Docs)
    <3>1. \/ req'[r] = req[r]
          \/ r \in ProjectWaiters(c) /\ req'[r] = [req[r] EXCEPT !.pc = "woken"]
      BY <2>1
    <3>2. req[r] \in RequestRecord
      BY DEF TypeInv, TypeOK
    <3> QED BY <2>2, <3>1, <3>2
  <2>4. req' \in [Requests -> RequestRecord]
    BY <2>1, <2>3 DEF TypeInv, TypeOK
  <2> QED BY <2>3, <2>4 DEF TypeInv, RequestsType, RequestsAreBound
<1> QED BY <1>4, <1>5, QuietReceiveType DEF ReceiveCommit, TypeInv, TypeOK

LEMMA ReceiveFailureType ==
  ASSUME TypeInv, NEW w \in Workers, ReceiveFailure(w)
  PROVE  TypeInv' /\ SlotsCovered /\ shuttingDown \subseteq shuttingDown'
<1>1. w[1] \in Contexts /\ project[w[1]] \in ProjectRecord
  BY DEF TypeInv, TypeOK, Workers
<1>2. CASE StopListening(w) /\ Fail(w[1], project[w[1]], FALSE)
  <2>1. outbox' \in [Workers -> Seq(WorkerMessage \cup {Died})] /\ listening' \subseteq Workers
    BY <1>2, ReceiveFrame, ConsumeType DEF ReceiveFailure, TypeInv
  <2> QED BY <1>1, <1>2, <2>1, ReceiveFrame, FailKeeps DEF ReceiveFailure, TypeInv, TypeOK
<1>3. CASE Consume(w) /\ NoFailure /\ UNCHANGED <<project, signal, req>>
  BY <1>3, QuietReceiveType DEF ReceiveFailure, TypeInv, TypeOK, RequestsType, RequestsAreBound
<1> QED BY <1>2, <1>3 DEF ReceiveFailure

LEMMA ReceiveResultType ==
  ASSUME TypeInv, NEW w \in Workers, ReceiveResult(w)
  PROVE  TypeInv' /\ SlotsCovered /\ shuttingDown \subseteq shuttingDown'
<1> DEFINE m == Head(outbox[w])
<1> DEFINE r == m.req
<1> DEFINE ready1 == [Settled(req[r], "ready") EXCEPT !.text = m.text]
<1>1. r \in Requests /\ m.text \in Nat
  BY ReceivedType DEF ReceiveResult, TypeInv
<1>2. \/ UNCHANGED req
      \/ req' = [req EXCEPT ![r] = Settled(req[r], "unavailable")]
      \/ req' = [req EXCEPT ![r] = ready1]
  BY DEF ReceiveResult
<1>3. /\ Settled(req[r], "unavailable") \in RequestRecord
      /\ Settled(req[r], "unavailable").pc = "done"
      /\ Settled(req[r], "ready") \in RequestRecord
      /\ Settled(req[r], "ready").pc = "done"
  BY <1>1, SettledType DEF TypeInv, TypeOK, Outcomes
<1>4. ready1 \in RequestRecord /\ ready1.pc = "done"
  BY <1>1, <1>3 DEF RequestRecord
<1> HIDE DEF ready1, r
<1>5. RequestsType /\ RequestsType'
  <2>1. RequestsType
    BY DEF TypeInv, TypeOK, RequestsType
  <2>2. CASE UNCHANGED req
    BY <2>1, <2>2 DEF RequestsType, RequestsAreBound
  <2>3. CASE req' = [req EXCEPT ![r] = Settled(req[r], "unavailable")]
    BY <1>1, <1>3, <2>1, <2>3, RequestType
  <2>4. CASE req' = [req EXCEPT ![r] = ready1]
    BY <1>1, <1>4, <2>1, <2>4, RequestType
  <2> QED BY <1>2, <2>1, <2>2, <2>3, <2>4
<1> QED BY <1>5, QuietReceiveType DEF ReceiveResult, TypeInv, TypeOK

LEMMA ReceiveDiedType ==
  ASSUME TypeInv, NEW w \in Workers, ReceiveDied(w)
  PROVE  TypeInv' /\ SlotsCovered /\ shuttingDown \subseteq shuttingDown'
<1>1. w[1] \in Contexts /\ project[w[1]] \in ProjectRecord
  BY DEF TypeInv, TypeOK, Workers
<1>2. outbox' \in [Workers -> Seq(WorkerMessage \cup {Died})] /\ listening' \subseteq Workers
  BY ReceiveFrame, ConsumeType DEF ReceiveDied, TypeInv
<1>3. ready' \in [Workers -> {"waiting", "ready", "failed"}]
  BY DEF ReceiveDied, TypeInv, TypeOK
<1>4. /\ Fail(w[1], project[w[1]], FALSE)
      /\ UNCHANGED <<leasing, faults, proc, runtime>> /\ UNCHANGED frameVars
  BY ReceiveFrame DEF ReceiveDied
<1> QED BY <1>1, <1>2, <1>3, <1>4, FailKeeps DEF TypeInv, TypeOK

LEMMA ListenerType ==
  ASSUME TypeInv, NEW w \in Workers, ListenerNext(w)
  PROVE  TypeInv' /\ SlotsCovered /\ shuttingDown \subseteq shuttingDown'
  BY ReceiveStaleType, ReceiveReadyType, ReceiveSupersededType, ReceiveCommitType,
     ReceiveFailureType, ReceiveResultType, ReceiveDiedType DEF ListenerNext

-----------------------------------------------------------------------------
\* Watchdogs and the ends of retirements.

LEMMA NoProgressType ==
  ASSUME TypeInv, NEW c \in Contexts, NoProgress(c)
  PROVE  TypeInv' /\ SlotsCovered /\ shuttingDown \subseteq shuttingDown'
<1>1. /\ UNCHANGED frameVars /\ UNCHANGED <<threadVars, leasing, outbox, faults>>
      /\ Fail(c, project[c], FALSE)
  BY DEF NoProgress, WatchdogStep, frameVars
<1> QED BY <1>1, FailKeeps DEF TypeInv, TypeOK, threadVars

LEMMA StallType ==
  ASSUME TypeInv, NEW c \in Contexts, Stall(c)
  PROVE  TypeInv' /\ SlotsCovered /\ shuttingDown \subseteq shuttingDown'
<1>1. /\ UNCHANGED frameVars /\ UNCHANGED <<threadVars, leasing, outbox>>
      /\ Fail(c, project[c], FALSE) /\ faults' = faults + 1
  BY DEF Stall, Fault, WatchdogStep, frameVars
<1>2. faults' \in Nat
  BY <1>1 DEF TypeInv, TypeOK
<1> QED BY <1>1, <1>2, FailKeeps DEF TypeInv, TypeOK, threadVars

LEMMA LeaseExpiresType ==
  ASSUME TypeInv, NEW c \in Contexts, LeaseExpires(c)
  PROVE  TypeInv' /\ SlotsCovered /\ shuttingDown \subseteq shuttingDown'
<1>1. SlotOf(c) \in Workers
  BY SlotType DEF LeaseExpires, SlotOf, TypeInv, TypeOK
<1>2. Retired(project[c]) \in ProjectRecord
  BY RetiredType DEF TypeInv, TypeOK
<1>3. /\ project' = [project EXCEPT ![c] = Retired(project[c])]
      /\ leasing' = leasing \cup {SlotOf(c)}
      /\ Dismiss({SlotOf(c)})
      /\ UNCHANGED <<signal, sup, failing, req, threadVars, outbox>> /\ UNCHANGED frameVars
  BY DEF LeaseExpires, WatchdogStep, frameVars
<1>4. InboxesType' /\ shuttingDown' = shuttingDown \cup {SlotOf(c)}
  BY <1>1, <1>3, DismissType DEF TypeInv, TypeOK, InboxesType
<1>5. faults' \in Nat
  BY DEF LeaseExpires, Fault, TypeInv, TypeOK
<1>6. RequestsType'
  BY <1>3 DEF TypeInv, TypeOK, RequestsType, RequestsAreBound
<1>7. project' \in [Contexts -> ProjectRecord]
  BY <1>2, <1>3 DEF TypeInv, TypeOK
<1>8. TypeInv'
  BY <1>1, <1>3, <1>4, <1>5, <1>6, <1>7, FiberStepType DEF TypeInv, TypeOK, threadVars
<1>9. SlotsCovered
  BY <1>3, <1>4 DEF SlotsCovered, TypeInv, TypeOK
<1> QED BY <1>4, <1>8, <1>9

LEMMA FinishLeaseType ==
  ASSUME TypeInv, NEW w \in Workers, FinishLease(w)
  PROVE  TypeInv' /\ SlotsCovered
<1>1. w[1] \in Contexts /\ project[w[1]] \in ProjectRecord
  BY DEF TypeInv, TypeOK, Workers
<1>2. /\ [project[w[1]] EXCEPT !.awaitingSupersede = 0] \in ProjectRecord
      /\ [project[w[1]] EXCEPT !.awaitingSupersede = 0].slot = project[w[1]].slot
  BY <1>1 DEF ProjectRecord
<1>3. /\ project' = [project EXCEPT ![w[1]].awaitingSupersede = 0]
      /\ leasing' = leasing \ {w}
      /\ shuttingDown' = shuttingDown \ {w}
      /\ signal' = TRUE
      /\ UNCHANGED <<sup, failing, threadVars, inbox, outbox, req, faults>> /\ UNCHANGED frameVars
  BY DEF FinishLease, SupervisorStep, frameVars
<1>4. project' \in [Contexts -> ProjectRecord]
      /\ \A c \in Contexts : project'[c].slot = project[c].slot
  BY <1>1, <1>2, <1>3 DEF TypeInv, TypeOK
<1>5. InboxesType' /\ RequestsType'
  BY <1>3 DEF TypeInv, TypeOK, InboxesType, RequestsType, RequestsAreBound
<1>6. TypeInv'
  BY <1>3, <1>4, <1>5, FiberStepType DEF TypeInv, TypeOK, threadVars
<1> QED BY <1>4, <1>6 DEF SlotsCovered

LEMMA FinishFailureType ==
  ASSUME TypeInv, NEW f \in failing, FinishFailure(f)
  PROVE  TypeInv' /\ SlotsCovered
<1> DEFINE c == f.worker[1]
<1> DEFINE next == AfterFailure(project[c], f.halfOpen)
<1>1. c \in Contexts /\ project[c] \in ProjectRecord
  BY DEF TypeInv, TypeOK, FailureRecord, Workers
<1>2. next \in ProjectRecord /\ next.slot = project[c].slot
  BY <1>1, AfterFailureType
<1>3. /\ project' = [project EXCEPT ![c] = next]
      /\ signal' = (signal \/ next.gen # project[c].gen)
      /\ failing' = failing \ {f}
      /\ shuttingDown' = shuttingDown \ {f.worker}
      /\ sup' = IF f.supervised THEN Supervisor("idle", {}) ELSE sup
      /\ UNCHANGED <<leasing, threadVars, inbox, outbox, req, faults>> /\ UNCHANGED frameVars
  BY DEF FinishFailure, SupervisorStep, frameVars
<1> HIDE DEF next, c
<1>4. project' \in [Contexts -> ProjectRecord]
      /\ \A k \in Contexts : project'[k].slot = project[k].slot
  BY <1>1, <1>2, <1>3 DEF TypeInv, TypeOK
<1>5. InboxesType' /\ RequestsType'
  BY <1>3 DEF TypeInv, TypeOK, InboxesType, RequestsType, RequestsAreBound
<1>6. sup' \in SupervisorRecord /\ (sup'.pc # "discovering" \/ sup' = sup)
  BY <1>3, SupervisorType DEF TypeInv, TypeOK
<1>7. signal' \in BOOLEAN
  BY <1>3 DEF TypeInv, TypeOK
<1>8. TypeInv'
  BY <1>3, <1>4, <1>5, <1>6, <1>7, FiberStepType DEF TypeInv, TypeOK, threadVars
<1> QED BY <1>4, <1>8 DEF SlotsCovered

-----------------------------------------------------------------------------
\* The worker threads.

Outboxes == [Workers -> Seq(WorkerMessage \cup {Died})]
Threads == [Workers -> {"unborn", "live", "hung", "exited"}]

\* No thread comes to life.
NoneBorn == \A w \in Workers : Alive(w)' => Alive(w)

LEMMA ThreadStepType ==
  ASSUME TypeInv, ThreadStep, UNCHANGED shuttingDown, faults' \in Nat, proc' \in Threads,
         InboxesType', outbox' \in Outboxes, runtime' \in [Workers -> RuntimeState]
  PROVE  TypeInv'
<1>1. BoundsInv'
  BY BoundsFrame DEF TypeInv, ThreadStep, sourceVars, projectVars, fiberVars
<1>2. RequestsAreBound'
  BY DEF TypeInv, ThreadStep, RequestsAreBound
<1>3. TypeOK'
  BY DEF TypeInv, TypeOK, ThreadStep, sourceVars, projectVars, fiberVars, InboxesType, Outboxes,
         Threads
<1> QED BY <1>1, <1>2, <1>3 DEF TypeInv

LEMMA PostNothingToHost ==
  ASSUME TypeOK, NEW w \in Workers, PostToHost(w, <<>>)
  PROVE  outbox' \in Outboxes
<1>1. outbox[w] \o <<>> \in Seq(WorkerMessage \cup {Died})
  BY PostNothing DEF TypeOK
<1> QED BY <1>1 DEF TypeOK, Outboxes, PostToHost

LEMMA PostOneToHost ==
  ASSUME TypeOK, NEW w \in Workers, NEW m \in WorkerMessage \cup {Died}, PostToHost(w, <<m>>)
  PROVE  outbox' \in Outboxes
<1>1. outbox[w] \o <<m>> \in Seq(WorkerMessage \cup {Died})
  BY DEF TypeOK
<1> QED BY <1>1 DEF TypeOK, Outboxes, PostToHost

LEMMA FreshType == Fresh \in RuntimeState
  BY DEF Fresh, RuntimeState, NoAnalysis, AnalysisRecord, NoSources, NoText, Snapshot

LEMMA ExitType ==
  ASSUME TypeOK, NEW w \in Workers, Exit(w)
  PROVE  /\ proc' \in Threads /\ InboxesType' /\ runtime' \in [Workers -> RuntimeState]
         /\ NoneBorn
<1>1. <<>> \in Seq(HostMessage)
  OBVIOUS
<1>2. inbox' \in [Workers -> Seq(HostMessage)]
  BY <1>1 DEF Exit, TypeOK
<1> QED BY <1>2, FreshType DEF Exit, TypeOK, Threads, InboxesType, NoneBorn, Alive

LEMMA WorkerAcceptsType ==
  ASSUME TypeInv, NEW w \in Workers, WorkerAccepts(w)
  PROVE  TypeInv' /\ NoneBorn
<1> DEFINE m == Head(inbox[w])
<1> DEFINE step == Accepted(runtime[w], m, disk)
<1>1. m \in HostMessage /\ Tail(inbox[w]) \in Seq(HostMessage)
  BY TailFacts DEF WorkerAccepts, TypeInv, TypeOK
<1>2. /\ step.state \in RuntimeState
      /\ step.replies = <<>> \/ \E reply \in WorkerMessage : step.replies = <<reply>>
  BY <1>1, AcceptedType DEF TypeInv, TypeOK
<1>3. /\ ThreadStep /\ PostToHost(w, step.replies) /\ UNCHANGED <<shuttingDown, faults>>
      /\ \/ Exit(w)
         \/ /\ runtime' = [runtime EXCEPT ![w] = step.state]
            /\ inbox' = [inbox EXCEPT ![w] = Tail(inbox[w])]
            /\ UNCHANGED proc
  BY DEF WorkerAccepts
<1> HIDE DEF step
<1>4. outbox' \in Outboxes
  BY <1>2, <1>3, PostNothingToHost, PostOneToHost DEF TypeInv
<1>5. /\ proc' \in Threads /\ InboxesType' /\ runtime' \in [Workers -> RuntimeState]
      /\ NoneBorn
  <2>1. CASE Exit(w)
    BY <2>1, ExitType DEF TypeInv
  <2>2. CASE /\ runtime' = [runtime EXCEPT ![w] = step.state]
             /\ inbox' = [inbox EXCEPT ![w] = Tail(inbox[w])]
             /\ UNCHANGED proc
    BY <1>1, <1>2, <2>2 DEF TypeInv, TypeOK, Threads, InboxesType, NoneBorn, Alive
  <2> QED BY <1>3, <2>1, <2>2
<1>6. faults' \in Nat
  BY <1>3 DEF TypeInv, TypeOK
<1> QED BY <1>3, <1>4, <1>5, <1>6, ThreadStepType

LEMMA WorkerRunsType ==
  ASSUME TypeInv, NEW w \in Workers, NEW step, WorkerRuns(w, step), step.state \in RuntimeState,
         step.replies = <<>> \/ \E reply \in WorkerMessage : step.replies = <<reply>>,
         faults' \in Nat
  PROVE  TypeInv' /\ NoneBorn
<1>1. outbox' \in Outboxes
  BY PostNothingToHost, PostOneToHost DEF WorkerRuns, TypeInv
<1>2. runtime' \in [Workers -> RuntimeState] /\ proc' \in Threads /\ InboxesType'
  BY DEF WorkerRuns, TypeInv, TypeOK, Threads, InboxesType
<1> QED BY <1>1, <1>2, ThreadStepType DEF WorkerRuns, NoneBorn, Alive

\* The ends of an analysis and of a query, in the worker.
LEMMA WorkerEndsType ==
  ASSUME TypeInv, NEW w \in Workers,
         \/ WorkerCommits(w) \/ WorkerDefects(w) \/ WorkerAnswers(w) \/ WorkerForgetsQuery(w)
  PROVE  TypeInv' /\ NoneBorn
<1>1. runtime[w] \in RuntimeState
  BY DEF TypeInv, TypeOK
<1>2. faults' \in Nat
  BY DEF WorkerCommits, WorkerDefects, WorkerAnswers, WorkerForgetsQuery, Fault, TypeInv, TypeOK
<1>3. CASE WorkerCommits(w)
  BY <1>1, <1>2, <1>3, EndedType, WorkerRunsType DEF WorkerCommits
<1>4. CASE WorkerDefects(w)
  BY <1>1, <1>2, <1>4, EndedType, WorkerRunsType DEF WorkerDefects
<1>5. CASE WorkerAnswers(w)
  <2>1. PICK q \in runtime[w].queries : WorkerRuns(w, Answered(runtime[w], q))
    BY <1>5 DEF WorkerAnswers
  <2> QED BY <1>1, <1>2, <2>1, AnsweredType, WorkerRunsType
<1>6. CASE WorkerForgetsQuery(w)
  <2>1. PICK q \in runtime[w].queries : WorkerRuns(w, QueryDefected(runtime[w], q))
    BY <1>6 DEF WorkerForgetsQuery
  <2> QED BY <1>1, <1>2, <2>1, AnsweredType, WorkerRunsType
<1> QED BY <1>3, <1>4, <1>5, <1>6

LEMMA WorkerStopsType ==
  ASSUME TypeInv, NEW w \in Workers, WorkerDies(w) \/ WorkerHangs(w) \/ Terminate(w)
  PROVE  TypeInv' /\ NoneBorn
<1>1. ThreadStep /\ UNCHANGED shuttingDown
  BY DEF WorkerDies, WorkerHangs, Terminate
<1>2. faults' \in Nat
  BY DEF WorkerDies, WorkerHangs, Terminate, Fault, TypeInv, TypeOK
<1>3. outbox' \in Outboxes
  <2>1. UNCHANGED outbox \/ PostToHost(w, <<Died>>)
    BY DEF WorkerDies, WorkerHangs, Terminate
  <2> QED BY <2>1, PostOneToHost DEF TypeInv, TypeOK, Outboxes
<1>4. /\ proc' \in Threads /\ InboxesType' /\ runtime' \in [Workers -> RuntimeState]
      /\ NoneBorn
  <2>1. CASE WorkerHangs(w)
    BY <2>1 DEF WorkerHangs, TypeInv, TypeOK, Threads, InboxesType, NoneBorn, Alive
  <2>2. CASE WorkerDies(w) \/ Terminate(w)
    BY <2>2, ExitType DEF WorkerDies, Terminate, TypeInv
  <2> QED BY <2>1, <2>2
<1> QED BY <1>1, <1>2, <1>3, <1>4, ThreadStepType

-----------------------------------------------------------------------------
\* Shutdown.

LEMMA ShutdownBeginsType ==
  ASSUME TypeInv, ShutdownBegins
  PROVE  TypeInv' /\ SlotsCovered /\ shuttingDown \subseteq shuttingDown'
<1>1. ledger' \in [Docs -> [version : Nat, text : Nat]] /\ \A d \in Docs : ~IsOpen(d)'
  BY DEF ShutdownBegins, Unopened, NoText, IsOpen
<1>2. UNCHANGED <<events, disk, discovery, current, created, retirements, signal, fiberVars,
                  threadVars, outbox, faults>>
  BY DEF ShutdownBegins
<1>3. RequestsType'
  BY SettleType DEF ShutdownBegins, TypeInv, TypeOK, RequestsType, Outcomes
<1>4. /\ project' \in [Contexts -> ProjectRecord] /\ InboxesType' /\ shuttingDown' \subseteq Workers
      /\ engine' \in [phase : {"open", "closing", "closed"}, on : SUBSET Workers]
      /\ SlotsCovered /\ shuttingDown \subseteq shuttingDown'
  <2>1. CASE current = 0
    <3>1. /\ engine' = [phase |-> "closing", on |-> {}]
          /\ UNCHANGED <<project, shuttingDown, inbox>>
      BY <2>1 DEF ShutdownBegins
    <3> QED BY <3>1 DEF TypeInv, TypeOK, InboxesType, SlotsCovered
  <2>2. CASE current # 0
    <3> DEFINE slots == IF project[current].slot = 0 THEN {} ELSE {SlotOf(current)}
    <3> DEFINE closed == [Retired(project[current]) EXCEPT !.state = "Closed"]
    <3>1. /\ engine' = [phase |-> "closing", on |-> slots]
          /\ project' = [project EXCEPT ![current] = closed]
          /\ Dismiss(slots)
      BY <2>2 DEF ShutdownBegins
    <3>2. current \in Contexts /\ project[current] \in ProjectRecord
      BY <2>2 DEF TypeInv, TypeOK
    <3>3. closed \in ProjectRecord /\ closed.slot = 0
      <4>1. Retired(project[current]) \in ProjectRecord /\ Retired(project[current]).slot = 0
        BY <3>2, RetiredType
      <4> QED BY <4>1 DEF ProjectRecord
    <3>4. slots \in SUBSET Workers
      BY <3>2, SlotType DEF SlotOf
    <3> HIDE DEF closed
    <3>5. InboxesType' /\ shuttingDown' = shuttingDown \cup slots
      BY <3>1, <3>4, DismissType DEF TypeInv, TypeOK, InboxesType
    <3>6. SlotsCovered
      BY <3>1, <3>2, <3>3, <3>5 DEF SlotsCovered, TypeInv, TypeOK
    <3> QED BY <3>1, <3>2, <3>3, <3>4, <3>5, <3>6 DEF TypeInv, TypeOK
  <2> QED BY <2>1, <2>2
<1>5. BoundsInv'
  BY <1>1, <1>2 DEF TypeInv, BoundsInv, VersionsCount, BatchIsDated, ContextsRemain,
                       LedgerIsCleared,
                    fiberVars
<1>6. TypeOK'
  BY <1>1, <1>2, <1>3, <1>4 DEF TypeInv, TypeOK, RequestsType, InboxesType, fiberVars, threadVars
<1> QED BY <1>3, <1>4, <1>5, <1>6 DEF TypeInv, RequestsType

LEMMA ShutdownEndsType ==
  ASSUME TypeInv, ShutdownEnds
  PROVE  TypeInv'
<1>1. NoBatch \in BatchRecord /\ NoBatch.found = NoSources
  BY NoSourcesType DEF NoBatch, BatchRecord, NoText
<1>2. sup' \in SupervisorRecord /\ sup'.pc = "interrupted"
  BY DEF ShutdownEnds, Supervisor, SupervisorRecord
<1>3. \A d \in Docs : ~IsOpen(d)
  BY DEF ShutdownEnds, TypeInv, BoundsInv, LedgerIsCleared, Running
<1>4. BoundsInv'
  BY <1>1, <1>2, <1>3 DEF ShutdownEnds, BoundsInv, VersionsCount, BatchIsDated, ContextsRemain,
                         LedgerIsCleared, IsOpen, sourceVars
<1>5. outbox' \in [Workers -> Seq(WorkerMessage \cup {Died})]
  <2>1. <<>> \in Seq(WorkerMessage \cup {Died})
    OBVIOUS
  <2> QED BY <2>1 DEF ShutdownEnds
<1>6. TypeOK'
  BY <1>1, <1>2, <1>5 DEF ShutdownEnds, TypeInv, TypeOK, sourceVars
<1> QED BY <1>4, <1>6 DEF ShutdownEnds, TypeInv, RequestsAreBound

LEMMA InitType ==
  ASSUME Init
  PROVE  TypeInv
<1>1. TypeOK
  <2>1. <<>> \in Seq(HostMessage) /\ <<>> \in Seq(WorkerMessage \cup {Died})
    OBVIOUS
  <2>2. NoBatch \in BatchRecord
    BY NoSourcesType DEF NoBatch, BatchRecord, NoText
  <2>3. Supervisor("idle", {}) \in SupervisorRecord
    BY SupervisorType
  <2>4. Unopened \in [version : Nat, text : Nat]
    BY DEF Unopened, NoText
  <2> QED BY <2>1, <2>2, <2>3, <2>4, NewProjectType, NewRequestType, FreshType DEF Init, TypeOK
<1>2. RequestsAreBound
  BY DEF Init, RequestsAreBound, NewRequest
<1>3. BoundsInv
  BY EngineAssumption DEF Init, BoundsInv, VersionsCount, BatchIsDated, ContextsRemain,
                          LedgerIsCleared, IsOpen, Supervisor, NoBatch
<1> QED BY <1>1, <1>2, <1>3 DEF TypeInv

LEMMA StutterType ==
  ASSUME TypeInv, UNCHANGED vars
  PROVE  TypeInv'
<1>1. BoundsInv'
  BY BoundsFrame DEF TypeInv, vars, sourceVars, projectVars, fiberVars
<1> QED BY <1>1 DEF TypeInv, TypeOK, RequestsAreBound, vars, sourceVars, projectVars, fiberVars,
                    threadVars

LEMMA StepType ==
  ASSUME TypeInv, Next
  PROVE  TypeInv'
<1>1. CASE Client
  BY <1>1, OpenType, ChangeAssociatedType, ChangeUndiscoveredType, CloseType, InvalidateType,
     AskType, AbandonType, ShutdownBeginsType DEF Client
<1>2. CASE SupervisorNext
  BY <1>2, TakeSignalType, FinishRetirementsType, DiscoveredType, DebounceIdleType,
     DebounceStartType, DebounceSpawnType, WorkerIsReadyType, WorkerNeverReadyType,
     ReadinessExpiresType DEF SupervisorNext
<1>3. CASE \E r \in Requests : Resume(r)
  BY <1>3, ResumeType
<1>4. CASE \E w \in Workers : ListenerNext(w) \/ ThreadNext(w) \/ FinishLease(w)
  BY <1>4, ListenerType, WorkerAcceptsType, WorkerEndsType, WorkerStopsType, FinishLeaseType
     DEF ThreadNext
<1>5. CASE \E c \in Contexts : NoProgress(c) \/ LeaseExpires(c)
  BY <1>5, NoProgressType, LeaseExpiresType
<1>6. CASE \E f \in failing : FinishFailure(f)
  BY <1>6, FinishFailureType
<1>7. CASE Faulty
  BY <1>7, SpawnFailsType, StallType, WorkerEndsType, WorkerStopsType DEF Faulty
<1>8. CASE ShutdownEnds
  BY <1>8, ShutdownEndsType
<1> QED BY <1>1, <1>2, <1>3, <1>4, <1>5, <1>6, <1>7, <1>8 DEF Next

\* The inductive invariant of the types holds in every behaviour of the engine.
THEOREM TypesKept == Spec => []TypeInv
<1>1. Init => TypeInv
  BY InitType
<1>2. TypeInv /\ [Next]_vars => TypeInv'
  BY StepType, StutterType
<1> QED BY <1>1, <1>2, PTL DEF Spec

\* Every variable of the engine keeps its type, for any documents, requests,
\* faults and bounds.  Adopting a discovered document finds room for a new
\* context, and a message that is read has the fields its reader takes.
THEOREM Typing == Spec => []TypeOK
<1>1. TypeInv => TypeOK
  BY DEF TypeInv
<1> QED BY <1>1, TypesKept, PTL

-----------------------------------------------------------------------------
\* No worker runs on that nobody will stop.

\* What a step must do for every running worker to stay accounted for: the slots
\* are kept or given up under a deadline, a deadline is dropped only when its
\* worker is gone, and a context that is left is to be retired or has no worker.
Released(c) == SlotOf(c) \in Workers => SlotOf(c) \in shuttingDown' \/ ~Alive(SlotOf(c))

Accounted ==
  /\ engine'.phase # "closed" => engine.phase # "closed"
  /\ NoneBorn
  /\ SlotsCovered
  /\ \A w \in shuttingDown : w \in shuttingDown' \/ ~Alive(w)
  /\ \A c \in Contexts : c = current \/ c \in retirements =>
       c = current' \/ c \in retirements' \/ Released(c)

LEMMA AccountedKeeps ==
  ASSUME NoOrphanWorker, Accounted
  PROVE  NoOrphanWorker'
<1>1. SUFFICES ASSUME engine'.phase # "closed", NEW w \in Workers, Alive(w)'
               PROVE  \/ InSlot(w)' /\ (w[1] = current' \/ w[1] \in retirements')
                      \/ w \in shuttingDown'
  BY DEF NoOrphanWorker
<1>2. Alive(w)
  BY <1>1 DEF Accounted, NoneBorn
<1>3. CASE w \in shuttingDown
  BY <1>2, <1>3 DEF Accounted
<1>4. CASE InSlot(w) /\ (w[1] = current \/ w[1] \in retirements)
  <2>1. w[1] \in Contexts /\ w = <<w[1], w[2]>>
    BY DEF Workers
  <2>2. SlotOf(w[1]) = w
    BY <1>4, <2>1 DEF InSlot, SlotOf
  <2>3. w \in shuttingDown' \/ project'[w[1]].slot = w[2]
    BY <1>2, <1>4, <2>1, <2>2 DEF Accounted, SlotsCovered, InSlot
  <2>4. w[1] = current' \/ w[1] \in retirements' \/ w \in shuttingDown'
    BY <1>2, <1>4, <2>1, <2>2 DEF Accounted, Released
  <2> QED BY <2>3, <2>4 DEF InSlot
<1> QED BY <1>1, <1>2, <1>3, <1>4 DEF NoOrphanWorker, Accounted

\* A step that starts no thread, leaves the contexts in use and takes nothing
\* from under a deadline.
LEMMA FrameAccounts ==
  ASSUME UNCHANGED <<current, retirements, proc>>, engine' = engine, SlotsCovered,
         shuttingDown \subseteq shuttingDown'
  PROVE  Accounted
  BY DEF Accounted, NoneBorn, Alive

\* A source event keeps every slot; one that closes a context retires it.
LEMMA SourceEventAccounts ==
  ASSUME TypeInv,
         \/ \E d \in Docs : Open(d) \/ ChangeAssociated(d) \/ ChangeUndiscovered(d) \/ Close(d)
         \/ \E kind \in FileEvents : Invalidate(kind)
  PROVE  Accounted
<1>1. UNCHANGED <<proc, shuttingDown, engine>>
  BY DEF Open, ChangeAssociated, ChangeUndiscovered, Close, Invalidate, SourceEvent, threadVars
<1>2. ASSUME NEW p, p \in ProjectRecord PROVE Schedule(p).slot = p.slot
  BY <1>2, ScheduleType
<1>3. ASSUME current \in Contexts PROVE project[current] \in ProjectRecord
  BY <1>3 DEF TypeInv, TypeOK
<1>4. CASE \E d \in Docs : Open(d) \/ ChangeUndiscovered(d)
  BY <1>1, <1>4 DEF Open, ChangeUndiscovered, projectVars, Accounted, NoneBorn, Alive, SlotsCovered
<1>5. ASSUME NEW d \in Docs, ChangeAssociated(d) PROVE Accounted
  <2> DEFINE p == [project[current] EXCEPT !.docs[d] = events + 1]
  <2>1. current \in Contexts
    BY <1>5 DEF ChangeAssociated, Associated, TypeInv, TypeOK
  <2>2. p \in ProjectRecord /\ p.slot = project[current].slot
    <3>1. events + 1 \in Nat
      BY DEF TypeInv, TypeOK
    <3> QED BY <1>3, <2>1, <3>1, DocumentType
  <2>3. project' = [project EXCEPT ![current] = Schedule(p)]
    BY <1>5 DEF ChangeAssociated
  <2>4. UNCHANGED <<current, retirements>>
    BY <1>5 DEF ChangeAssociated
  <2> HIDE DEF p
  <2>5. SlotsCovered
    BY <1>2, <2>1, <2>2, <2>3 DEF SlotsCovered, TypeInv, TypeOK
  <2> QED BY <1>1, <2>4, <2>5, FrameAccounts
<1>6. ASSUME NEW d \in Docs, Close(d) PROVE Accounted
  <2>1. CASE ~Associated(d)
    BY <1>1, <1>6, <2>1 DEF Close, projectVars, Accounted, NoneBorn, Alive, SlotsCovered
  <2>2. CASE Associated(d)
    <3> DEFINE left == [project[current] EXCEPT !.docs[d] = NoText]
    <3> DEFINE last == ~HasDocuments(left)
    <3> DEFINE closed == [left EXCEPT !.state = "Closed"]
    <3>1. current \in Contexts
      BY <2>2 DEF Associated, TypeInv, TypeOK
    <3>2. left \in ProjectRecord /\ left.slot = project[current].slot
      <4>1. NoText \in Nat
        BY DEF NoText
      <4> QED BY <1>3, <3>1, <4>1, DocumentType
    <3>3. /\ project' = [project EXCEPT ![current] = IF last THEN closed ELSE Schedule(left)]
          /\ current' = IF last THEN 0 ELSE current
          /\ retirements' = IF last THEN retirements \cup {current} ELSE retirements
      BY <1>6, <2>2 DEF Close, Leaving
    <3> HIDE DEF left
    <3>4. closed.slot = left.slot /\ Schedule(left).slot = left.slot
      BY <1>2, <3>2 DEF ProjectRecord
    <3> HIDE DEF last, closed
    <3>5. SlotsCovered
      BY <3>1, <3>2, <3>3, <3>4 DEF SlotsCovered, TypeInv, TypeOK
    <3> QED BY <1>1, <3>3, <3>5 DEF Accounted, NoneBorn, Alive
  <2> QED BY <2>1, <2>2
<1>7. ASSUME NEW kind \in FileEvents, Invalidate(kind) PROVE Accounted
  <2> DEFINE p == [project[current] EXCEPT !.dirty = @ \/ kind = "source",
                                           !.rediscover = @ \/ kind = "manifest"]
  <2>1. UNCHANGED <<current, retirements>>
    BY <1>7 DEF Invalidate
  <2>2. CASE UNCHANGED project
    BY <1>1, <2>1, <2>2, FrameAccounts DEF SlotsCovered
  <2>3. CASE current # 0 /\ project' = [project EXCEPT ![current] = Schedule(p)]
    <3>1. current \in Contexts
      BY <2>3 DEF TypeInv, TypeOK
    <3>2. p \in ProjectRecord /\ p.slot = project[current].slot
      <4>1. project[current] \in ProjectRecord
        BY <1>3, <3>1
      <4> QED BY <4>1 DEF ProjectRecord
    <3> HIDE DEF p
    <3>3. SlotsCovered
      BY <1>2, <2>3, <3>1, <3>2 DEF SlotsCovered, TypeInv, TypeOK
    <3> QED BY <1>1, <2>1, <3>3, FrameAccounts
  <2> QED BY <1>7, <2>2, <2>3 DEF Invalidate
<1> QED BY <1>4, <1>5, <1>6, <1>7

LEMMA TakeSignalAccounts ==
  ASSUME TypeInv, TakeSignal
  PROVE  Accounted
<1>1. UNCHANGED <<ledger, current, created, engine, proc>> /\ retirements' = {}
  BY DEF TakeSignal, SupervisorStep, sourceVars, threadVars
<1>2. RetiredContexts \in [Contexts -> ProjectRecord] /\ RetiredSlots \in SUBSET Workers
  BY RetirementsType DEF TypeInv
<1>3. \A c \in Contexts : RetiredContexts[c].slot = IF c \in retirements THEN 0 ELSE project[c].slot
  BY RetiredType DEF RetiredContexts, TypeInv, TypeOK
<1>4. \A c \in retirements : c \in Contexts /\ (project[c].slot # 0 <=> SlotOf(c) \in RetiredSlots)
  <2>1. ASSUME NEW c \in retirements, SlotOf(c) \in RetiredSlots PROVE project[c].slot # 0
    BY <2>1 DEF RetiredSlots, SlotOf
  <2> QED BY <2>1 DEF RetiredSlots, TypeInv, TypeOK
<1>5. CASE /\ RetiredSlots = {}
           /\ SupersedeThenDiscover(RetiredContexts, FALSE) /\ UNCHANGED shuttingDown
  <2>1. \A c \in Contexts : SlotKept(c, RetiredContexts[c])
    BY <1>1, <1>2, <1>5, SupersedeThenDiscoverType
  <2>2. \A c \in retirements : project[c].slot = 0
    BY <1>4, <1>5
  <2>3. SlotsCovered
    BY <1>3, <2>1, <2>2 DEF SlotsCovered, SlotKept, SlotOf
  <2>4. \A c \in retirements : Released(c)
    BY <2>2, EngineAssumption DEF Released, SlotOf, Workers, Epochs
  <2> QED BY <1>1, <1>5, <2>3, <2>4 DEF Accounted, NoneBorn, Alive
<1>6. CASE project' = RetiredContexts /\ Dismiss(RetiredSlots)
  <2>1. shuttingDown' = shuttingDown \cup RetiredSlots
    BY <1>6 DEF Dismiss
  <2>2. SlotsCovered
    BY <1>3, <1>4, <1>6, <2>1 DEF SlotsCovered
  <2>3. \A c \in retirements : Released(c)
    <3>1. ASSUME NEW c \in retirements, SlotOf(c) \in Workers PROVE project[c].slot # 0
      BY <3>1 DEF SlotOf, Workers, Epochs
    <3> QED BY <1>4, <2>1, <3>1 DEF Released
  <2> QED BY <1>1, <2>1, <2>2, <2>3 DEF Accounted, NoneBorn, Alive
<1> QED BY <1>5, <1>6 DEF TakeSignal, RetiredContexts, RetiredSlots

\* A deadline is dropped when its worker is gone.
LEMMA FinishRetirementsAccounts ==
  ASSUME TypeInv, FinishRetirements
  PROVE  Accounted
<1>1. UNCHANGED <<ledger, current, created, engine, proc, retirements>>
  BY DEF FinishRetirements, SupervisorStep, sourceVars, threadVars
<1>2. \A c \in Contexts : SlotKept(c, project[c])
  BY <1>1, SupersedeThenDiscoverType DEF FinishRetirements, TypeInv, TypeOK
<1>3. SlotsCovered
  BY <1>2 DEF SlotsCovered, SlotKept, SlotOf
<1>4. \A w \in shuttingDown : w \in shuttingDown' \/ ~Alive(w)
  BY DEF FinishRetirements, Exited, Alive
<1> QED BY <1>1, <1>3, <1>4 DEF Accounted, NoneBorn, Alive

\* A document that joins no context joins a new one, which has no worker yet.
LEMMA DiscoveredAccounts ==
  ASSUME TypeInv, Discovered
  PROVE  Accounted
<1>1. UNCHANGED <<engine, proc, retirements, shuttingDown>>
  BY DEF Discovered, SupervisorStep, threadVars
<1>2. SlotsCovered
  BY DiscoveredType DEF SlotsCovered
<1>3. current' = current \/ current = 0
  <2>1. UNCHANGED current \/ current' = IF current # 0 THEN current ELSE created + 1
    BY DEF Discovered, Adopt
  <2> QED BY <2>1
<1>4. 0 \notin Contexts
  BY DEF Contexts
<1> QED BY <1>1, <1>2, <1>3, <1>4 DEF Accounted, NoneBorn, Alive

\* The only step that starts a thread puts it into the slot of the current context.
LEMMA DebounceSpawnKeeps ==
  ASSUME TypeInv, NoOrphanWorker, DebounceSpawn
  PROVE  NoOrphanWorker'
<1> DEFINE e == project[current].epoch + 1
<1>1. current \in Contexts
  BY DEF DebounceSpawn, Startable, TypeInv, TypeOK
<1>2. /\ project' = [project EXCEPT ![current].epoch = e, ![current].slot = e]
      /\ proc' = [proc EXCEPT ![<<current, e>>] = "live"]
      /\ UNCHANGED <<current, retirements, shuttingDown, engine>>
      /\ project[current].slot = 0
  BY DEF DebounceSpawn, SupervisorStep
<1>3. /\ project'[current].slot = e
      /\ \A c \in Contexts \ {current} : project'[c] = project[c]
  BY <1>1, <1>2 DEF TypeInv, TypeOK, ProjectRecord
<1> SUFFICES ASSUME engine.phase # "closed", NEW w \in Workers, Alive(w)'
             PROVE  \/ InSlot(w)' /\ (w[1] = current \/ w[1] \in retirements)
                    \/ w \in shuttingDown
  BY <1>2 DEF NoOrphanWorker
<1>4. CASE w = <<current, e>>
  BY <1>3, <1>4 DEF InSlot
<1>5. CASE w # <<current, e>>
  <2>1. Alive(w)
    BY <1>2, <1>5 DEF Alive, TypeInv, TypeOK
  <2>2. w[1] \in Contexts /\ w[2] # 0
    BY DEF Workers, Epochs
  <2>3. InSlot(w) => w[1] # current
    BY <1>2, <2>2 DEF InSlot
  <2> QED BY <1>3, <2>1, <2>2, <2>3 DEF NoOrphanWorker, InSlot
<1> QED BY <1>4, <1>5

\* The steps that change neither the contexts in use nor the threads.
LEMMA FiberAccounts ==
  ASSUME TypeInv,
         \/ DebounceIdle \/ DebounceStart \/ WorkerIsReady \/ WorkerNeverReady
         \/ ReadinessExpires \/ SpawnFails
         \/ \E w \in Workers : ListenerNext(w)
         \/ \E c \in Contexts : NoProgress(c) \/ Stall(c) \/ LeaseExpires(c)
  PROVE  Accounted
<1>1. UNCHANGED <<current, retirements, proc, engine>>
  BY DEF DebounceIdle, DebounceStart, WorkerIsReady, WorkerNeverReady, ReadinessExpires, SpawnFails,
         ListenerNext, ReceiveStale, ReceiveReady, ReceiveSuperseded, ReceiveCommit, ReceiveFailure,
         ReceiveResult, ReceiveDied, Receive, NoProgress, Stall, LeaseExpires, SupervisorStep,
         WatchdogStep, projectVars, threadVars
<1>2. SlotsCovered /\ shuttingDown \subseteq shuttingDown'
  <2>1. DebounceIdle => UNCHANGED shuttingDown
    BY DEF DebounceIdle
  <2> QED BY <2>1, DebounceIdleType, DebounceStartType, WorkerIsReadyType, WorkerNeverReadyType,
             ReadinessExpiresType, SpawnFailsType, ListenerType, NoProgressType, StallType,
             LeaseExpiresType
<1> QED BY <1>1, <1>2, FrameAccounts

LEMMA FinishAccounts ==
  ASSUME TypeInv, (\E w \in Workers : FinishLease(w)) \/ (\E f \in failing : FinishFailure(f))
  PROVE  Accounted
<1>1. UNCHANGED <<current, retirements, proc, engine>>
  BY DEF FinishLease, FinishFailure, SupervisorStep, threadVars
<1>2. SlotsCovered
  BY FinishLeaseType, FinishFailureType
<1>3. \A w \in shuttingDown : w \in shuttingDown' \/ ~Alive(w)
  BY DEF FinishLease, FinishFailure, Exited, Alive
<1> QED BY <1>1, <1>2, <1>3 DEF Accounted, NoneBorn, Alive

\* The steps of requests and of threads, which keep every slot.
LEMMA OtherAccounts ==
  ASSUME TypeInv,
         \/ \E r \in Requests, d \in Docs : Ask(r, d)
         \/ \E r \in Requests : Abandon(r) \/ Resume(r)
         \/ \E w \in Workers :
              \/ ThreadNext(w) \/ WorkerDefects(w) \/ WorkerForgetsQuery(w)
              \/ WorkerDies(w) \/ WorkerHangs(w)
         \/ UNCHANGED vars
  PROVE  Accounted
<1>1. UNCHANGED <<project, current, retirements, shuttingDown, engine>>
  BY DEF Ask, Abandon, Resume, ClientStep, ThreadNext, WorkerAccepts, WorkerCommits, WorkerDefects,
         WorkerAnswers, WorkerForgetsQuery, WorkerRuns, WorkerDies, WorkerHangs, Terminate,
         ThreadStep, vars, projectVars
<1>2. NoneBorn
  <2>1. CASE UNCHANGED proc
    BY <2>1 DEF NoneBorn, Alive
  <2>2. CASE \E w \in Workers :
               \/ ThreadNext(w) \/ WorkerDefects(w) \/ WorkerForgetsQuery(w)
               \/ WorkerDies(w) \/ WorkerHangs(w)
    BY <2>2, WorkerAcceptsType, WorkerEndsType, WorkerStopsType DEF ThreadNext
  <2>3. CASE \/ \E r \in Requests, d \in Docs : Ask(r, d)
             \/ \E r \in Requests : Abandon(r) \/ Resume(r)
             \/ UNCHANGED vars
    BY <2>1, <2>3 DEF Ask, Abandon, Resume, ClientStep, vars, threadVars
  <2> QED BY <2>2, <2>3
<1> QED BY <1>1, <1>2 DEF Accounted, SlotsCovered

LEMMA ShutdownAccounts ==
  ASSUME TypeInv, ShutdownBegins
  PROVE  Accounted
<1>1. UNCHANGED <<current, retirements, proc>> /\ engine.phase # "closed"
  BY DEF ShutdownBegins, Running, threadVars
<1> QED BY <1>1, ShutdownBeginsType DEF Accounted, NoneBorn, Alive

LEMMA StepAccounts ==
  ASSUME TypeInv, NoOrphanWorker, Next \/ UNCHANGED vars
  PROVE  NoOrphanWorker'
<1>1. CASE ShutdownEnds
  BY <1>1 DEF ShutdownEnds, NoOrphanWorker
<1>2. CASE DebounceSpawn
  BY <1>2, DebounceSpawnKeeps
<1>3. CASE ~ShutdownEnds /\ ~DebounceSpawn
  <2>1. Accounted
    BY <1>3, SourceEventAccounts, TakeSignalAccounts, FinishRetirementsAccounts,
       DiscoveredAccounts, FiberAccounts, FinishAccounts, OtherAccounts, ShutdownAccounts
       DEF Next, Client, SupervisorNext, Faulty
  <2> QED BY <2>1, AccountedKeeps
<1> QED BY <1>1, <1>2, <1>3

\* In every behaviour, until the engine is closed, a compiler thread that runs is
\* the one of the current context, or its context is queued for retirement, or it is
\* under the deadline that terminates it: edits, closing and opening again,
\* failures, leases and crashes in any order leave no thread that nobody will stop.
THEOREM NoOrphans == Spec => []NoOrphanWorker
<1>1. Init => NoOrphanWorker
  BY DEF Init, NoOrphanWorker, Alive
<1>2. TypeInv /\ NoOrphanWorker /\ [Next]_vars => NoOrphanWorker'
  BY StepAccounts
<1> QED BY <1>1, <1>2, TypesKept, PTL DEF Spec

-----------------------------------------------------------------------------
\* A committed project is committed on what it holds (CommittedMatchesWorker), under
\* every fault.  The argument: the analyses in a worker and on their way to it have
\* ever newer generations, none newer than its project's, and the one of the project's
\* generation has its documents.

\* The invariant.

\* Analysis a was sent for a context whose fields are p now.
Sent(p, a) ==
  a.gen # 0 =>
    /\ a.gen <= p.gen
    /\ p.pending => a.gen < p.gen
    /\ a.gen = p.gen /\ HasDocuments(p) => a.sources = p.docs

\* The places of a sequence of messages where an analysis is.
Analyses(box) == {i \in 1..Len(box) : box[i].tag = "Analyze"}

\* What waits in an inbox was sent, in the order of the generations, and is
\* newer than what the worker has.
BoxSent(p, box) == \A i \in Analyses(box) : Sent(p, box[i])
BoxOrdered(box) == \A i, j \in Analyses(box) : i < j => box[i].gen < box[j].gen
BoxNewer(s, box) ==
  \A i \in Analyses(box) : box[i].gen > s.active.gen /\ box[i].gen > s.committed.gen

StateSent(p, s) ==
  /\ Sent(p, s.active) /\ Sent(p, s.committed)
  /\ s.active.gen # 0 => s.active.gen > s.committed.gen

WorkOf(p, s, box) ==
  StateSent(p, s) /\ BoxSent(p, box) /\ BoxOrdered(box) /\ BoxNewer(s, box)

WorkOrdered == \A w \in Workers : WorkOf(project[w[1]], runtime[w], inbox[w])

\* A commit on its way from a thread that did not end is of its committed basis, or
\* of an older one.
Known(running, s, out) ==
  \A i \in 1..Len(out) : out[i].tag = "Commit" =>
    out[i].gen # 0 /\ (running => out[i].gen <= s.committed.gen)

CommitsKnown == \A w \in Workers : Known(proc[w] # "exited", runtime[w], outbox[w])

\* The generations of a context: the active one is never a pending one.
GenerationsMatch(p) ==
  /\ p.active <= p.gen
  /\ p.pending => p.gen # 0 /\ p.active # p.gen
  /\ p.state = "Committed" => ~p.pending /\ p.active = 0 /\ p.gen # 0

ContextsMatch == \A c \in Contexts : GenerationsMatch(project[c])

\* A project for which the supervisor waits until a worker is ready is still pending.
EnsuredIsPending == sup.pc = "ensuring" => \A w \in sup.on : project[w[1]].pending

\* The context in use has documents; a closed one has none until shutdown.
CurrentInv ==
  /\ current <= created
  /\ current # 0 => HasDocuments(project[current])
  /\ \A c \in Contexts : project[c].state = "Closed" =>
       c <= created /\ (Running => ~HasDocuments(project[c]))

\* Workers are spawned in the order of their epochs.
EpochsInOrder == \A w \in Workers : w[2] > project[w[1]].epoch => proc[w] = "unborn"

\* The worker of a committed context has its generation as its basis.
CommitHolds ==
  \A c \in Contexts :
    project[c].state = "Committed" /\ project[c].slot # 0 /\ Alive(SlotOf(c)) =>
      runtime[SlotOf(c)].committed.gen = project[c].gen

CommitInv ==
  /\ WorkOrdered /\ CommitsKnown /\ ContextsMatch /\ EnsuredIsPending /\ CurrentInv
  /\ EpochsInOrder /\ CommitHolds

LEMMA CommitInvSuffices ==
  ASSUME TypeOK, CommitInv
  PROVE  CommittedMatchesWorker
<1> SUFFICES ASSUME CurrentState("Committed")
             PROVE  /\ ~project[current].pending /\ project[current].active = 0
                    /\ project[current].slot # 0 /\ Alive(SlotOf(current)) =>
                         /\ runtime[SlotOf(current)].committed.gen = project[current].gen
                         /\ runtime[SlotOf(current)].committed.sources = project[current].docs
  BY DEF CommittedMatchesWorker
<1> DEFINE p == project[current]
<1> DEFINE w == SlotOf(current)
<1>1. current \in Contexts /\ p \in ProjectRecord /\ p.state = "Committed"
  BY DEF CurrentState, TypeOK
<1>2. ~p.pending /\ p.active = 0 /\ p.gen # 0
  BY <1>1 DEF CommitInv, ContextsMatch, GenerationsMatch
<1>3. ASSUME p.slot # 0, Alive(w)
      PROVE  runtime[w].committed.gen = p.gen /\ runtime[w].committed.sources = p.docs
  <2>1. w \in Workers /\ w[1] = current
    BY <1>1, <1>3, SlotType DEF SlotOf
  <2>2. runtime[w].committed.gen = p.gen
    BY <1>1, <1>3 DEF CommitInv, CommitHolds
  <2>3. HasDocuments(p)
    BY <1>1, EngineAssumption DEF CommitInv, CurrentInv, Contexts
  <2> QED BY <1>2, <2>1, <2>2, <2>3 DEF CommitInv, WorkOrdered, WorkOf, StateSent, Sent
<1> QED BY <1>2, <1>3

-----------------------------------------------------------------------------
\* Inboxes.

\* The generation of a message in an inbox.
LEMMA AnalysisGeneration ==
  ASSUME NEW box \in Seq(HostMessage), NEW i \in Analyses(box)
  PROVE  i \in Nat /\ box[i].gen \in Nat
<1>1. i \in 1..Len(box) /\ box[i] \in HostMessage
  BY DEF Analyses
<1> QED BY <1>1 DEF Analyses, HostMessage

\* A message that is no analysis is added at the end.
LEMMA BoxOther ==
  ASSUME NEW p, NEW s, NEW box \in Seq(HostMessage), NEW m, m.tag # "Analyze",
         BoxSent(p, box), BoxOrdered(box), BoxNewer(s, box),
         NEW new, new = Append(box, m)
  PROVE  BoxSent(p, new) /\ BoxOrdered(new) /\ BoxNewer(s, new)
<1>1. \A i \in Analyses(new) : i \in Analyses(box) /\ new[i] = box[i]
  <2>1. ASSUME NEW i \in Analyses(new) PROVE i \in 1..Len(box)
    BY <2>1, AppendFacts DEF Analyses
  <2> QED BY <2>1, AppendFacts DEF Analyses
<1>2. BoxSent(p, new)
  BY <1>1 DEF BoxSent
<1>3. BoxOrdered(new)
  BY <1>1 DEF BoxOrdered
<1>4. BoxNewer(s, new)
  BY <1>1 DEF BoxNewer
<1> QED BY <1>2, <1>3, <1>4

\* An analysis that is newer than all that was sent is added at the end.
LEMMA BoxAnalysis ==
  ASSUME NEW p, NEW s \in RuntimeState, NEW box \in Seq(HostMessage), NEW m \in HostMessage,
         m.tag = "Analyze", Sent(p, m), BoxSent(p, box), BoxOrdered(box), BoxNewer(s, box),
         \A i \in Analyses(box) : box[i].gen < m.gen,
         s.active.gen < m.gen, s.committed.gen < m.gen,
         NEW new, new = Append(box, m)
  PROVE  BoxSent(p, new) /\ BoxOrdered(new) /\ BoxNewer(s, new)
<1>1. \A i \in Analyses(new) :
        \/ i \in Analyses(box) /\ new[i] = box[i] /\ i < Len(new)
        \/ i = Len(new) /\ new[i] = m
  <2>1. ASSUME NEW i \in Analyses(new) PROVE i \in 1..Len(box) \/ i = Len(new)
    BY <2>1, AppendFacts DEF Analyses
  <2> QED BY <2>1, AppendFacts DEF Analyses
<1>2. \A i \in Analyses(new) : i \in Nat /\ i <= Len(new) /\ Len(new) \in Nat
  BY DEF Analyses
<1>3. m.gen \in Nat
  BY DEF HostMessage
<1>4. BoxSent(p, new)
  BY <1>1 DEF BoxSent
<1>5. BoxNewer(s, new)
  BY <1>1, <1>3 DEF BoxNewer, RuntimeState, AnalysisRecord
<1>6. BoxOrdered(new)
  <2>1. ASSUME NEW i \in Analyses(new), NEW j \in Analyses(new), i < j
        PROVE  new[i].gen < new[j].gen
    <3>3. i \in Nat /\ j \in Nat /\ Len(new) \in Nat /\ i < j /\ j <= Len(new)
      BY <1>2, <2>1
    <3>1. i \in Analyses(box) /\ new[i] = box[i]
      <4>1. i # Len(new)
        BY ONLY <3>3
      <4> QED BY <1>1, <4>1
    <3>2. \/ j \in Analyses(box) /\ new[j] = box[j]
          \/ new[j] = m
      BY <1>1
    <3> QED BY <2>1, <3>1, <3>2 DEF BoxOrdered
  <2> QED BY <2>1 DEF BoxOrdered
<1> QED BY <1>4, <1>5, <1>6

\* The oldest message is taken.
LEMMA BoxTail ==
  ASSUME NEW p, NEW s, NEW box \in Seq(HostMessage), box # <<>>,
         BoxSent(p, box), BoxOrdered(box), BoxNewer(s, box)
  PROVE  /\ BoxSent(p, Tail(box)) /\ BoxOrdered(Tail(box)) /\ BoxNewer(s, Tail(box))
         /\ Head(box).tag = "Analyze" =>
              /\ Sent(p, Head(box))
              /\ Head(box).gen > s.active.gen /\ Head(box).gen > s.committed.gen
              /\ \A i \in Analyses(Tail(box)) : Head(box).gen < Tail(box)[i].gen
<1>1. \A i \in Analyses(Tail(box)) :
        i \in Nat /\ 1 < i + 1 /\ i + 1 \in Analyses(box) /\ Tail(box)[i] = box[i + 1]
  BY TailFacts DEF Analyses
<1>2. Head(box).tag = "Analyze" => 1 \in Analyses(box) /\ Head(box) = box[1]
  BY TailFacts DEF Analyses
<1>3. BoxSent(p, Tail(box)) /\ BoxNewer(s, Tail(box))
  BY <1>1 DEF BoxSent, BoxNewer
<1>4. BoxOrdered(Tail(box))
  <2>1. ASSUME NEW i \in Analyses(Tail(box)), NEW j \in Analyses(Tail(box)), i < j
        PROVE  Tail(box)[i].gen < Tail(box)[j].gen
    <3>1. i + 1 < j + 1
      BY <1>1, <2>1
    <3> QED BY <1>1, <3>1 DEF BoxOrdered
  <2> QED BY <2>1 DEF BoxOrdered
<1>5. ASSUME Head(box).tag = "Analyze"
      PROVE  /\ Sent(p, Head(box))
             /\ Head(box).gen > s.active.gen /\ Head(box).gen > s.committed.gen
             /\ \A i \in Analyses(Tail(box)) : Head(box).gen < Tail(box)[i].gen
  BY <1>1, <1>2, <1>5 DEF BoxSent, BoxOrdered, BoxNewer
<1> QED BY <1>3, <1>4, <1>5

\* An inbox without analyses.
LEMMA BoxWithout ==
  ASSUME NEW p, NEW s, NEW box, Analyses(box) = {}
  PROVE  BoxSent(p, box) /\ BoxOrdered(box) /\ BoxNewer(s, box)
  BY DEF BoxSent, BoxOrdered, BoxNewer

LEMMA NoAnalyses == Analyses(<<>>) = {} /\ Analyses(<<Initialize>>) = {}
  BY DEF Analyses, Initialize

-----------------------------------------------------------------------------
\* What a step of the host may do to the fields p of a context, which become q.

\* What was sent for p was sent for q.
SentKept(p, q) ==
  \/ q.gen > p.gen
  \/ /\ q.gen = p.gen
     /\ q.pending => p.pending
     /\ q.docs = p.docs \/ ~HasDocuments(q)

\* Every other field that the invariant is about is kept, given up or superseded.
Held(p, q) ==
  /\ SentKept(p, q)
  /\ q.active = p.active \/ q.active = 0
  /\ q.epoch >= p.epoch
  /\ q.state = "Committed" =>
       p.state = "Committed" /\ q.gen = p.gen /\ (q.slot = p.slot \/ q.slot = 0)

\* The documents are kept as well, and the context is not closed.
Kept(p, q) == Held(p, q) /\ q.docs = p.docs /\ (q.state = "Closed" => p.state = "Closed")

LEMMA KeptItself ==
  ASSUME NEW p \in ProjectRecord
  PROVE  Kept(p, p)
  BY DEF Kept, Held, SentKept, ProjectRecord

LEMMA KeptTwice ==
  ASSUME NEW p \in ProjectRecord, NEW q \in ProjectRecord, NEW r \in ProjectRecord,
         Kept(p, q), Kept(q, r)
  PROVE  Kept(p, r)
<1>1. SentKept(p, r)
  BY DEF Kept, Held, SentKept, ProjectRecord, HasDocuments
<1>2. /\ r.active = p.active \/ r.active = 0
      /\ r.state = "Committed" =>
           p.state = "Committed" /\ r.gen = p.gen /\ (r.slot = p.slot \/ r.slot = 0)
  BY DEF Kept, Held
<1>3. r.epoch >= p.epoch
  BY DEF Kept, Held, ProjectRecord
<1> QED BY <1>1, <1>2, <1>3 DEF Kept, Held

LEMMA ScheduleHeld ==
  ASSUME NEW p \in ProjectRecord, NEW q \in ProjectRecord, q.state # "Closed",
         q.gen = p.gen, q.active = p.active, q.epoch = p.epoch
  PROVE  /\ Held(p, Schedule(q)) /\ Schedule(q).docs = q.docs /\ Schedule(q).state = "Pending"
         /\ Schedule(q).pending
<1> DEFINE next == Schedule(q)
<1>1. /\ next.gen = q.gen + 1 /\ next.state = "Pending" /\ next.pending = TRUE
      /\ next.active = q.active /\ next.epoch = q.epoch /\ next.docs = q.docs
  BY DEF Schedule, ProjectRecord
<1> HIDE DEF next
<1>2. next.gen > p.gen /\ next.epoch >= p.epoch
  BY <1>1 DEF ProjectRecord
<1>3. Held(p, next)
  BY <1>1, <1>2 DEF Held, SentKept
<1> QED BY <1>1, <1>3 DEF next

LEMMA RetiredKept ==
  ASSUME NEW p \in ProjectRecord
  PROVE  Kept(p, Retired(p)) /\ Retired(p).pending = p.pending
<1> DEFINE q == Retired(p)
<1>1. /\ q.gen = p.gen /\ q.pending = p.pending /\ q.docs = p.docs /\ q.active = 0
      /\ q.epoch = p.epoch /\ q.state = p.state /\ q.slot = 0
  BY DEF Retired, ProjectRecord
<1> HIDE DEF q
<1>2. q.epoch >= p.epoch
  BY <1>1 DEF ProjectRecord
<1>3. Kept(p, q)
  BY <1>1, <1>2 DEF Kept, Held, SentKept
<1> QED BY <1>1, <1>3 DEF q

LEMMA AfterFailureKept ==
  ASSUME NEW p \in ProjectRecord, NEW halfOpen
  PROVE  /\ Kept(p, AfterFailure(p, halfOpen))
         /\ p.pending => AfterFailure(p, halfOpen).pending
<1> DEFINE open == [p EXCEPT !.circuit = "Open"]
<1> DEFINE next == [p EXCEPT !.gen = @ + 1, !.state = "Pending", !.pending = TRUE]
<1>1. /\ open.gen = p.gen /\ open.pending = p.pending /\ open.docs = p.docs
      /\ open.active = p.active /\ open.epoch = p.epoch /\ open.state = p.state
      /\ open.slot = p.slot
  BY DEF ProjectRecord
<1>2. /\ next.gen = p.gen + 1 /\ next.pending = TRUE /\ next.docs = p.docs
      /\ next.active = p.active /\ next.epoch = p.epoch /\ next.state = "Pending"
  BY DEF ProjectRecord
<1>3. AfterFailure(p, halfOpen) \in {p, open, next}
  BY DEF AfterFailure
<1> HIDE DEF open, next
<1>4. Kept(p, open)
  <2>1. open.epoch >= p.epoch
    BY <1>1 DEF ProjectRecord
  <2> QED BY <1>1, <2>1 DEF Kept, Held, SentKept
<1>5. Kept(p, next)
  <2>1. next.epoch >= p.epoch /\ next.gen > p.gen
    BY <1>2 DEF ProjectRecord
  <2> QED BY <1>2, <2>1 DEF Kept, Held, SentKept
<1> QED BY <1>1, <1>2, <1>3, <1>4, <1>5, KeptItself

-----------------------------------------------------------------------------
\* The frame of the host's steps.

LEMMA SentKeeps ==
  ASSUME NEW p \in ProjectRecord, NEW q \in ProjectRecord, SentKept(p, q),
         NEW a, a.gen \in Nat, Sent(p, a)
  PROVE  Sent(q, a)
<1>1. p.gen \in Nat /\ q.gen \in Nat
  BY DEF ProjectRecord
<1>2. CASE a.gen = 0
  BY <1>2 DEF Sent
<1>3. CASE a.gen # 0 /\ q.gen > p.gen
  BY <1>1, <1>3 DEF Sent
<1>4. CASE a.gen # 0 /\ q.gen = p.gen
  BY <1>1, <1>4 DEF Sent, SentKept, HasDocuments
<1> QED BY <1>2, <1>3, <1>4 DEF SentKept

LEMMA WorkKept ==
  ASSUME NEW p \in ProjectRecord, NEW q \in ProjectRecord, SentKept(p, q),
         NEW s \in RuntimeState, NEW box \in Seq(HostMessage), WorkOf(p, s, box)
  PROVE  WorkOf(q, s, box)
<1>1. s.active.gen \in Nat /\ s.committed.gen \in Nat
  BY DEF RuntimeState, AnalysisRecord
<1>2. StateSent(q, s)
  BY <1>1, SentKeeps DEF WorkOf, StateSent
<1>3. BoxSent(q, box)
  BY AnalysisGeneration, SentKeeps DEF WorkOf, BoxSent
<1> QED BY <1>2, <1>3 DEF WorkOf

\* Messages other than analyses are added to inboxes, or none.
QuietInboxes ==
  \A w \in Workers :
    \/ inbox'[w] = inbox[w]
    \/ \E m \in HostMessage : m.tag # "Analyze" /\ inbox'[w] = Append(inbox[w], m)

\* Messages are taken from outboxes, or none.
OutboxesShrink ==
  \A w \in Workers :
    \/ outbox'[w] = outbox[w] \/ outbox'[w] = <<>>
    \/ outbox[w] # <<>> /\ outbox'[w] = Tail(outbox[w])

LEMMA WorkOrderedKept ==
  ASSUME TypeOK, TypeOK', WorkOrdered, UNCHANGED runtime, QuietInboxes,
         \A c \in Contexts : SentKept(project[c], project'[c])
  PROVE  WorkOrdered'
<1> SUFFICES ASSUME NEW w \in Workers
             PROVE  WorkOf(project'[w[1]], runtime[w], inbox'[w])
  BY DEF WorkOrdered
<1>1. /\ w[1] \in Contexts
      /\ project[w[1]] \in ProjectRecord /\ project'[w[1]] \in ProjectRecord
      /\ runtime[w] \in RuntimeState /\ inbox[w] \in Seq(HostMessage)
  BY DEF TypeOK, Workers
<1>2. WorkOf(project'[w[1]], runtime[w], inbox[w])
  BY <1>1, WorkKept DEF WorkOrdered
<1>3. CASE inbox'[w] = inbox[w]
  BY <1>2, <1>3
<1>4. CASE \E m \in HostMessage : m.tag # "Analyze" /\ inbox'[w] = Append(inbox[w], m)
  BY <1>1, <1>2, <1>4, BoxOther DEF WorkOf
<1> QED BY <1>3, <1>4 DEF QuietInboxes

LEMMA KnownKept ==
  ASSUME NEW running, NEW s, NEW out \in Seq(WorkerMessage \cup {Died}), Known(running, s, out)
  PROVE  Known(running, s, <<>>) /\ (out # <<>> => Known(running, s, Tail(out)))
<1>1. Known(running, s, <<>>)
  BY DEF Known
<1>2. ASSUME out # <<>> PROVE Known(running, s, Tail(out))
  BY <1>2, TailFacts DEF Known
<1> QED BY <1>1, <1>2

LEMMA CommitsKnownKept ==
  ASSUME TypeOK, CommitsKnown, UNCHANGED <<proc, runtime>>, OutboxesShrink
  PROVE  CommitsKnown'
<1> SUFFICES ASSUME NEW w \in Workers
             PROVE  Known(proc[w] # "exited", runtime[w], outbox'[w])
  BY DEF CommitsKnown
<1>1. outbox[w] \in Seq(WorkerMessage \cup {Died})
  BY DEF TypeOK
<1>2. Known(proc[w] # "exited", runtime[w], outbox[w])
  BY DEF CommitsKnown
<1> QED BY <1>1, <1>2, KnownKept DEF OutboxesShrink

LEMMA GenerationsKept ==
  ASSUME NEW p \in ProjectRecord, NEW q \in ProjectRecord, Held(p, q), GenerationsMatch(p)
  PROVE  GenerationsMatch(q)
<1>1. /\ p.gen \in Nat /\ q.gen \in Nat /\ p.active \in Nat /\ q.active \in Nat
  BY DEF ProjectRecord
<1> QED BY <1>1 DEF Held, SentKept, GenerationsMatch

\* A step of the host keeps the invariant if it holds the contexts.
LEMMA HostKeeps ==
  ASSUME TypeOK, TypeOK', CommitInv, UNCHANGED <<proc, runtime>>, QuietInboxes, OutboxesShrink,
         \A c \in Contexts : Held(project[c], project'[c]),
         \/ sup'.pc # "ensuring"
         \/ sup' = sup /\ \A c \in Contexts : project[c].pending => project'[c].pending,
         CurrentInv'
  PROVE  CommitInv'
<1>1. \A c \in Contexts : project[c] \in ProjectRecord /\ project'[c] \in ProjectRecord
  BY DEF TypeOK
<1>2. WorkOrdered'
  BY WorkOrderedKept DEF CommitInv, Held
<1>3. CommitsKnown'
  BY CommitsKnownKept DEF CommitInv
<1>4. ContextsMatch'
  BY <1>1, GenerationsKept DEF CommitInv, ContextsMatch
<1>5. EnsuredIsPending'
  BY DEF CommitInv, EnsuredIsPending, TypeOK, SupervisorRecord, Workers
<1>6. EpochsInOrder'
  <2>1. ASSUME NEW w \in Workers, w[2] > project'[w[1]].epoch PROVE proc[w] = "unborn"
    <3>1. w[1] \in Contexts /\ w[2] \in Nat
      BY DEF Workers, Epochs
    <3>2. project[w[1]].epoch \in Nat /\ project'[w[1]].epoch \in Nat
      BY <1>1, <3>1 DEF ProjectRecord
    <3>3. w[2] > project[w[1]].epoch
      BY <2>1, <3>1, <3>2 DEF Held
    <3> QED BY <3>3 DEF CommitInv, EpochsInOrder
  <2> QED BY <2>1 DEF EpochsInOrder
<1>7. CommitHolds'
  BY DEF CommitInv, CommitHolds, Held, SlotOf, Alive
<1> QED BY <1>2, <1>3, <1>4, <1>5, <1>6, <1>7 DEF CommitInv

\* The context in use is the same, and so are the documents.
LEMMA CurrentKept ==
  ASSUME TypeOK, CurrentInv, UNCHANGED <<current, created>>, Running' => Running,
         \A c \in Contexts : project'[c].docs = project[c].docs,
         \A c \in Contexts : project'[c].state = "Closed" => project[c].state = "Closed"
  PROVE  CurrentInv'
<1>1. ASSUME current # 0 PROVE current \in Contexts
  BY <1>1 DEF TypeOK
<1> QED BY <1>1 DEF CurrentInv, HasDocuments

-----------------------------------------------------------------------------
\* What the handlers are built from.

LEMMA SendQuiet ==
  ASSUME TypeOK, NEW w, NEW m \in HostMessage, m.tag # "Analyze", Send(w, m)
  PROVE  QuietInboxes
<1> SUFFICES ASSUME NEW v \in Workers
             PROVE  inbox'[v] = inbox[v] \/ inbox'[v] = Append(inbox[v], m)
  BY DEF QuietInboxes
<1>1. CASE Alive(w)
  <2>1. inbox' = [inbox EXCEPT ![w] = Append(@, m)]
    BY <1>1 DEF Send
  <2> QED BY <2>1 DEF TypeOK
<1>2. CASE ~Alive(w)
  BY <1>2 DEF Send
<1> QED BY <1>1, <1>2

LEMMA DismissQuiet ==
  ASSUME NEW S, Dismiss(S)
  PROVE  QuietInboxes
<1>1. Shutdown \in HostMessage /\ Shutdown.tag # "Analyze"
  BY DEF Shutdown, HostMessage
<1> QED BY <1>1 DEF Dismiss, QuietInboxes

LEMMA NoneQuiet ==
  /\ UNCHANGED inbox => QuietInboxes
  /\ UNCHANGED outbox => OutboxesShrink
  BY DEF QuietInboxes, OutboxesShrink

LEMMA TakenShrinks ==
  ASSUME TypeOK, NEW w \in Workers, outbox[w] # <<>>, Consume(w) \/ StopListening(w)
  PROVE  OutboxesShrink
  BY DEF Consume, StopListening, OutboxesShrink, TypeOK

\* failProject, on the fields the context has, or on those it has once the
\* supervisor counted its generation as started.
LEMMA FailHolds ==
  ASSUME TypeOK, NEW c \in Contexts, NEW p \in ProjectRecord, NEW supervised \in BOOLEAN,
         p.gen = project[c].gen, p.docs = project[c].docs, p.epoch >= project[c].epoch,
         p.pending => project[c].pending, Fail(c, p, supervised)
  PROVE  /\ \A k \in Contexts : Kept(project[k], project'[k])
         /\ p.pending = project[c].pending =>
              \A k \in Contexts : project[k].pending => project'[k].pending
         /\ QuietInboxes
         /\ IF supervised THEN sup'.pc # "ensuring" ELSE sup' = sup
<1> DEFINE failed == [p EXCEPT !.state = "Failed", !.failureCount = @ + 1]
<1> DEFINE halfOpen == p.circuit = "HalfOpen"
<1> DEFINE next == AfterFailure(Retired(failed), halfOpen)
<1> DEFINE w == <<c, p.slot>>
<1>1. failed \in ProjectRecord
  <2> DEFINE q == [p EXCEPT !.state = "Failed"]
  <2>1. q \in ProjectRecord
    BY DEF ProjectRecord
  <2>2. failed = [q EXCEPT !.failureCount = @ + 1]
    OBVIOUS
  <2> HIDE DEF q
  <2> QED BY <2>1, <2>2 DEF ProjectRecord
<1>2. /\ failed.gen = p.gen /\ failed.docs = p.docs /\ failed.epoch = p.epoch
      /\ failed.pending = p.pending /\ failed.state = "Failed"
  BY DEF ProjectRecord
<1> HIDE DEF failed
<1>3. project[c] \in ProjectRecord
  BY DEF TypeOK
<1>4. Retired(failed) \in ProjectRecord /\ next \in ProjectRecord
  BY <1>1, RetiredType, AfterFailureType
<1>5. /\ Kept(project[c], Retired(failed))
      /\ p.pending = project[c].pending => Retired(failed).pending = project[c].pending
  <2>1. /\ Retired(failed).gen = p.gen /\ Retired(failed).docs = p.docs
        /\ Retired(failed).epoch = p.epoch /\ Retired(failed).pending = p.pending
        /\ Retired(failed).active = 0 /\ Retired(failed).state = "Failed"
    BY <1>1, <1>2 DEF Retired, ProjectRecord
  <2> QED BY <2>1 DEF Kept, Held, SentKept
<1>6. /\ Kept(project[c], next)
      /\ p.pending = project[c].pending => (project[c].pending => next.pending)
  BY <1>3, <1>4, <1>5, AfterFailureKept, KeptTwice
<1>7. project' = [project EXCEPT ![c] = next] \/ project' = [project EXCEPT ![c] = Retired(failed)]
  BY DEF Fail, failed
<1> HIDE DEF next
<1>8. \A k \in Contexts : Kept(project[k], project'[k])
  BY <1>5, <1>6, <1>7, KeptItself DEF TypeOK
<1>9. p.pending = project[c].pending =>
        \A k \in Contexts : project[k].pending => project'[k].pending
  BY <1>5, <1>6, <1>7 DEF TypeOK
<1>10. QuietInboxes
  BY DismissQuiet, NoneQuiet DEF Fail
<1>11. IF supervised THEN sup'.pc # "ensuring" ELSE sup' = sup
  BY DEF Fail, Supervisor
<1> QED BY <1>8, <1>9, <1>10, <1>11

\* A step that runs failProject keeps the invariant.
LEMMA FailCommits ==
  ASSUME TypeOK, TypeOK', CommitInv, NEW c \in Contexts, NEW p \in ProjectRecord,
         NEW supervised \in BOOLEAN,
         p.gen = project[c].gen, p.docs = project[c].docs, p.epoch >= project[c].epoch,
         p.pending => project[c].pending, supervised \/ p.pending = project[c].pending,
         Fail(c, p, supervised),
         UNCHANGED frameVars, UNCHANGED <<proc, runtime>>, OutboxesShrink
  PROVE  CommitInv'
<1>1. /\ \A k \in Contexts : Kept(project[k], project'[k])
      /\ p.pending = project[c].pending =>
           \A k \in Contexts : project[k].pending => project'[k].pending
      /\ QuietInboxes
      /\ IF supervised THEN sup'.pc # "ensuring" ELSE sup' = sup
  BY FailHolds
<1>2. CurrentInv'
  BY <1>1, CurrentKept DEF CommitInv, frameVars, Running, Kept
<1> QED BY <1>1, <1>2, HostKeeps DEF Kept

\* A step that keeps the contexts in use, does not forget what is pending and
\* sends no analysis keeps the invariant.
LEMMA FrameCommits ==
  ASSUME TypeOK, TypeOK', CommitInv, UNCHANGED <<proc, runtime>>, QuietInboxes, OutboxesShrink,
         \A c \in Contexts : Kept(project[c], project'[c]),
         \/ sup'.pc # "ensuring"
         \/ sup' = sup /\ \A c \in Contexts : project[c].pending => project'[c].pending,
         UNCHANGED <<current, created>>, Running' => Running
  PROVE  CommitInv'
<1>1. CurrentInv'
  BY CurrentKept DEF CommitInv, Kept
<1> QED BY <1>1, HostKeeps DEF Kept

LEMMA SameContexts ==
  ASSUME TypeOK, UNCHANGED project
  PROVE  /\ \A c \in Contexts : Kept(project[c], project'[c])
         /\ \A c \in Contexts : project[c].pending => project'[c].pending
  BY KeptItself DEF TypeOK

-----------------------------------------------------------------------------
\* Source events.

LEMMA CurrentIsOpen ==
  ASSUME TypeOK, CommitInv, Running, current # 0
  PROVE  /\ current \in Contexts /\ project[current] \in ProjectRecord
         /\ project[current].state # "Closed" /\ HasDocuments(project[current])
  BY DEF TypeOK, CommitInv, CurrentInv

\* The context in use is scheduled, with the documents it has then.
LEMMA ScheduledCommits ==
  ASSUME TypeOK, TypeOK', CommitInv, Running, UNCHANGED <<proc, runtime, inbox, outbox>>,
         sup' = sup \/ sup'.pc # "ensuring", NEW c \in Contexts, NEW q \in ProjectRecord,
         q.state # "Closed", q.gen = project[c].gen, q.active = project[c].active,
         q.epoch = project[c].epoch, HasDocuments(q),
         project' = [project EXCEPT ![c] = Schedule(q)],
         current' = c, created' \in Nat, c <= created', created <= created'
  PROVE  CommitInv'
<1>1. /\ Held(project[c], Schedule(q)) /\ Schedule(q).docs = q.docs
      /\ Schedule(q).state = "Pending" /\ Schedule(q).pending
  BY ScheduleHeld DEF TypeOK
<1>2. /\ project'[c] = Schedule(q)
      /\ \A k \in Contexts \ {c} : project'[k] = project[k]
  BY DEF TypeOK
<1>3. /\ \A k \in Contexts : Held(project[k], project'[k])
      /\ \A k \in Contexts : project[k].pending => project'[k].pending
  BY <1>1, <1>2, KeptItself DEF Kept, TypeOK
<1>4. CurrentInv'
  <2>1. HasDocuments(project'[c])
    BY <1>1, <1>2 DEF HasDocuments
  <2>2. ASSUME NEW k \in Contexts, project'[k].state = "Closed"
        PROVE  k <= created' /\ ~HasDocuments(project'[k])
    <3>1. k # c /\ project'[k] = project[k]
      BY <1>1, <1>2, <2>2
    <3>2. k \in Nat /\ created \in Nat
      BY EngineAssumption DEF Contexts, TypeOK
    <3> QED BY <2>2, <3>1, <3>2 DEF CommitInv, CurrentInv
  <2> QED BY <2>1, <2>2 DEF CurrentInv
<1>5. QuietInboxes /\ OutboxesShrink
  BY NoneQuiet
<1> QED BY <1>3, <1>4, <1>5, HostKeeps

LEMMA SourceEventCommits ==
  ASSUME TypeInv, TypeOK', CommitInv,
         \/ \E d \in Docs : Open(d) \/ ChangeAssociated(d) \/ ChangeUndiscovered(d) \/ Close(d)
         \/ \E kind \in FileEvents : Invalidate(kind)
  PROVE  CommitInv'
<1> USE DEF TypeInv
<1>1. Running /\ UNCHANGED <<proc, runtime, inbox, outbox, sup, engine>>
  BY DEF Open, ChangeAssociated, ChangeUndiscovered, Close, Invalidate, SourceEvent, threadVars,
         fiberVars
<1>2. created \in Nat /\ current \in Nat /\ current <= created
  BY EngineAssumption DEF TypeOK, Contexts, CommitInv, CurrentInv
<1>3. QuietInboxes /\ OutboxesShrink
  BY <1>1, NoneQuiet
<1>4. UNCHANGED <<project, current, created>> => CommitInv'
  BY <1>1, <1>3, SameContexts, FrameCommits
<1>5. CASE \E d \in Docs : Open(d) \/ ChangeUndiscovered(d)
  BY <1>4, <1>5 DEF Open, ChangeUndiscovered, projectVars
<1>6. ASSUME NEW d \in Docs, ChangeAssociated(d) PROVE CommitInv'
  <2> DEFINE q == [project[current] EXCEPT !.docs[d] = events + 1]
  <2>1. /\ current # 0 /\ UNCHANGED <<current, created>>
        /\ project' = [project EXCEPT ![current] = Schedule(q)]
    BY <1>6 DEF ChangeAssociated, Associated
  <2>2. events + 1 \in Nat /\ events + 1 # NoText
    BY DEF TypeOK, NoText
  <2>3. /\ current \in Contexts /\ project[current] \in ProjectRecord
        /\ project[current].state # "Closed"
    BY <1>1, <2>1, CurrentIsOpen
  <2>4. q \in ProjectRecord
    BY <2>2, <2>3, DocumentType
  <2>5. /\ q.state = project[current].state /\ q.gen = project[current].gen
        /\ q.active = project[current].active /\ q.epoch = project[current].epoch
        /\ q.docs[d] = events + 1
    BY <2>3 DEF ProjectRecord, Snapshot
  <2> HIDE DEF q
  <2>6. HasDocuments(q)
    BY <2>2, <2>5 DEF HasDocuments, NoSources
  <2>7. current' = current /\ created' \in Nat /\ current <= created' /\ created <= created'
    BY <1>2, <2>1
  <2> QED BY <1>1, <2>1, <2>3, <2>4, <2>5, <2>6, <2>7, ScheduledCommits
<1>7. ASSUME NEW d \in Docs, Close(d) PROVE CommitInv'
  <2>1. CASE ~Associated(d)
    BY <1>4, <1>7, <2>1 DEF Close, projectVars
  <2>2. CASE Associated(d)
    <3> DEFINE left == [project[current] EXCEPT !.docs[d] = NoText]
    <3> DEFINE last == ~HasDocuments(left)
    <3> DEFINE closed == [left EXCEPT !.state = "Closed"]
    <3>1. /\ current # 0 /\ UNCHANGED created
          /\ project' = [project EXCEPT ![current] = IF last THEN closed ELSE Schedule(left)]
          /\ current' = IF last THEN 0 ELSE current
      BY <1>7, <2>2 DEF Close, Associated
    <3>2. /\ current \in Contexts /\ project[current] \in ProjectRecord
          /\ project[current].state # "Closed"
      BY <1>1, <3>1, CurrentIsOpen
    <3>3. left \in ProjectRecord
      <4>1. NoText \in Nat
        BY DEF NoText
      <4> QED BY <3>2, <4>1, DocumentType
    <3>4. /\ left.state = project[current].state /\ left.gen = project[current].gen
          /\ left.active = project[current].active /\ left.epoch = project[current].epoch
          /\ left.pending = project[current].pending
      BY <3>2 DEF ProjectRecord
    <3> HIDE DEF left
    <3>5. CASE ~last
      <4>1. current' = current /\ created' \in Nat /\ current <= created' /\ created <= created'
        BY <1>2, <3>1, <3>5
      <4>2. project' = [project EXCEPT ![current] = Schedule(left)] /\ left.state # "Closed"
        BY <3>1, <3>2, <3>4, <3>5
      <4>3. HasDocuments(left)
        BY <3>5
      <4> QED BY <1>1, <3>2, <3>3, <3>4, <4>1, <4>2, <4>3, ScheduledCommits
    <3>6. CASE last
      <4>1. /\ closed.docs = left.docs /\ closed.state = "Closed" /\ closed.gen = left.gen
            /\ closed.active = left.active /\ closed.epoch = left.epoch
            /\ closed.pending = left.pending
        BY <3>3 DEF ProjectRecord
      <4> HIDE DEF closed
      <4>2. ~HasDocuments(closed)
        BY <3>6, <4>1 DEF HasDocuments
      <4>3. Held(project[current], closed)
        BY <3>2, <3>4, <4>1, <4>2 DEF Held, SentKept, ProjectRecord
      <4>4. /\ project'[current] = closed
            /\ \A k \in Contexts \ {current} : project'[k] = project[k]
        BY <3>1, <3>2, <3>6 DEF TypeOK
      <4>5. /\ \A k \in Contexts : Held(project[k], project'[k])
            /\ \A k \in Contexts : project[k].pending => project'[k].pending
        BY <3>4, <4>1, <4>3, <4>4, KeptItself DEF Kept, TypeOK
      <4>6. CurrentInv'
        <5>1. current' = 0
          BY <3>1, <3>6
        <5>2. \A k \in Contexts : project'[k].state = "Closed" =>
                k <= created /\ ~HasDocuments(project'[k])
          BY <1>1, <1>2, <4>2, <4>4 DEF CommitInv, CurrentInv
        <5> QED BY <1>2, <3>1, <5>1, <5>2 DEF CurrentInv
      <4> QED BY <1>1, <1>3, <4>5, <4>6, HostKeeps
    <3> QED BY <3>5, <3>6
  <2> QED BY <2>1, <2>2
<1>8. ASSUME NEW kind \in FileEvents, Invalidate(kind) PROVE CommitInv'
  <2> DEFINE q == [project[current] EXCEPT !.dirty = @ \/ kind = "source",
                                           !.rediscover = @ \/ kind = "manifest"]
  <2>1. UNCHANGED <<current, created>>
    BY <1>8 DEF Invalidate
  <2>2. CASE UNCHANGED project
    BY <1>4, <2>1, <2>2
  <2>3. CASE current # 0 /\ project' = [project EXCEPT ![current] = Schedule(q)]
    <3>1. /\ current \in Contexts /\ project[current] \in ProjectRecord
          /\ project[current].state # "Closed" /\ HasDocuments(project[current])
      BY <1>1, <2>3, CurrentIsOpen
    <3>2. q \in ProjectRecord
      BY <3>1 DEF ProjectRecord
    <3>3. /\ q.state = project[current].state /\ q.gen = project[current].gen
          /\ q.active = project[current].active /\ q.epoch = project[current].epoch
          /\ q.docs = project[current].docs
      BY <3>1 DEF ProjectRecord
    <3> HIDE DEF q
    <3>4. HasDocuments(q)
      BY <3>1, <3>3 DEF HasDocuments
    <3>5. current' = current /\ created' \in Nat /\ current <= created' /\ created <= created'
      BY <1>2, <2>1
    <3> QED BY <1>1, <2>3, <3>1, <3>2, <3>3, <3>4, <3>5, ScheduledCommits
  <2> QED BY <1>8, <2>2, <2>3 DEF Invalidate
<1> QED BY <1>5, <1>6, <1>7, <1>8

-----------------------------------------------------------------------------
\* Requests, which send queries and cancel them.

LEMMA DispatchQuiet ==
  ASSUME TypeOK, NEW r \in Requests, NEW d \in Docs, NEW c \in Contexts, Dispatch(r, d, c)
  PROVE  QuietInboxes
<1> DEFINE m == Query(project[c].gen, r, d)
<1>1. m \in HostMessage /\ m.tag # "Analyze"
  BY MessageTypes DEF TypeOK, ProjectRecord, Query
<1>2. UNCHANGED inbox \/ Send(SlotOf(c), m)
  BY DEF Dispatch
<1> HIDE DEF m
<1> QED BY <1>1, <1>2, SendQuiet, NoneQuiet

LEMMA RequestCommits ==
  ASSUME TypeInv, TypeOK', CommitInv, NEW r \in Requests,
         (\E d \in Docs : Ask(r, d)) \/ Abandon(r) \/ Resume(r)
  PROVE  CommitInv'
<1> USE DEF TypeInv
<1>1. /\ Running /\ UNCHANGED <<proc, runtime, outbox, sup, engine>>
      /\ UNCHANGED <<project, current, created>>
  BY DEF Ask, Abandon, Resume, ClientStep, threadVars, fiberVars, projectVars
<1>2. ASSUME NEW d \in Docs, Ask(r, d) PROVE QuietInboxes
  <2>1. UNCHANGED inbox \/ (Associated(d) /\ Dispatch(r, d, current))
    BY <1>2 DEF Ask
  <2>2. Associated(d) => current \in Contexts
    BY DEF Associated, TypeOK
  <2> QED BY <2>1, <2>2, DispatchQuiet, NoneQuiet
<1>3. ASSUME Abandon(r) PROVE QuietInboxes
  <2>1. CancelQuery(r) \in HostMessage /\ CancelQuery(r).tag # "Analyze"
    BY DEF CancelQuery, HostMessage
  <2>2. UNCHANGED inbox \/ Send(<<req[r].ctx, req[r].epoch>>, CancelQuery(r))
    BY <1>3 DEF Abandon
  <2> QED BY <2>1, <2>2, SendQuiet, NoneQuiet
<1>4. ASSUME Resume(r) PROVE QuietInboxes
  <2>1. req[r].ctx \in Contexts /\ req[r].doc \in Docs
    BY <1>4 DEF Resume, RequestsAreBound
  <2>2. UNCHANGED inbox \/ Dispatch(r, req[r].doc, req[r].ctx)
    BY <1>4 DEF Resume
  <2> QED BY <2>1, <2>2, DispatchQuiet, NoneQuiet
<1>5. QuietInboxes /\ OutboxesShrink
  BY <1>1, <1>2, <1>3, <1>4, NoneQuiet
<1>6. \/ sup'.pc # "ensuring"
      \/ sup' = sup /\ \A c \in Contexts : project[c].pending => project'[c].pending
  BY <1>1
<1> QED BY <1>1, <1>5, <1>6, SameContexts, FrameCommits

-----------------------------------------------------------------------------
\* The supervisor: retirements, supersedes and discovery.

LEMMA SupersedeThenDiscoverHolds ==
  ASSUME TypeOK, NEW P \in [Contexts -> ProjectRecord], NEW signaled,
         SupersedeThenDiscover(P, signaled)
  PROVE  /\ \A c \in Contexts : Kept(P[c], project'[c])
         /\ QuietInboxes /\ sup'.pc # "ensuring"
<1> DEFINE p == P[current]
<1> DEFINE wanted == current # 0 /\ p.supersedeRequested # 0 /\ p.slot # 0
<1> DEFINE gone == wanted /\ ~Alive(<<current, p.slot>>)
<1> DEFINE marked == [p EXCEPT !.supersedeRequested = 0, !.awaitingSupersede = p.supersedeRequested]
<1> DEFINE m == SupersedeAnalysis(p.supersedeRequested)
<1>1. wanted => current \in Contexts /\ p \in ProjectRecord
  BY DEF TypeOK
<1>2. /\ project' = IF wanted
                    THEN [P EXCEPT ![current] = IF gone THEN Retired(marked) ELSE marked]
                    ELSE P
      /\ IF wanted THEN Send(<<current, p.slot>>, m) ELSE UNCHANGED inbox
  BY DEF SupersedeThenDiscover
<1>3. wanted => marked \in ProjectRecord
  BY <1>1 DEF ProjectRecord
<1>4. wanted => Kept(p, marked)
  <2> SUFFICES ASSUME wanted PROVE Kept(p, marked)
    OBVIOUS
  <2>1. /\ marked.gen = p.gen /\ marked.pending = p.pending /\ marked.docs = p.docs
        /\ marked.active = p.active /\ marked.epoch = p.epoch /\ marked.state = p.state
        /\ marked.slot = p.slot
    BY <1>1 DEF ProjectRecord
  <2> HIDE DEF marked
  <2>2. marked.epoch >= p.epoch
    BY <1>1, <2>1 DEF ProjectRecord
  <2> QED BY <2>1, <2>2 DEF Kept, Held, SentKept
<1> HIDE DEF marked
<1>5. wanted => Retired(marked) \in ProjectRecord /\ Kept(p, Retired(marked))
  BY <1>1, <1>3, <1>4, RetiredType, RetiredKept, KeptTwice
<1>6. \A c \in Contexts : Kept(P[c], project'[c])
  <2>1. CASE wanted
    <3>1. \/ project' = [P EXCEPT ![current] = Retired(marked)]
          \/ project' = [P EXCEPT ![current] = marked]
      BY <1>2, <2>1
    <3> QED BY <1>1, <1>4, <1>5, <2>1, <3>1, KeptItself
  <2>2. CASE ~wanted
    BY <1>2, <2>2, KeptItself
  <2> QED BY <2>1, <2>2
<1>7. QuietInboxes
  <2>1. wanted => m \in HostMessage /\ m.tag # "Analyze"
    BY <1>1, MessageTypes DEF ProjectRecord, SupersedeAnalysis
  <2> HIDE DEF m
  <2> QED BY <1>2, <2>1, SendQuiet, NoneQuiet
<1>8. sup'.pc # "ensuring"
  BY DEF SupersedeThenDiscover, Supervisor
<1> QED BY <1>6, <1>7, <1>8

LEMMA TakeSignalCommits ==
  ASSUME TypeInv, TypeOK', CommitInv, TakeSignal
  PROVE  CommitInv'
<1> USE DEF TypeInv
<1>1. UNCHANGED <<proc, runtime, outbox, engine, current, created>>
  BY DEF TakeSignal, SupervisorStep, threadVars
<1>2. RetiredContexts \in [Contexts -> ProjectRecord]
  BY RetirementsType
<1>3. \A c \in Contexts : Kept(project[c], RetiredContexts[c])
  BY RetiredKept, KeptItself DEF RetiredContexts, TypeOK
<1>4. /\ \A c \in Contexts : Kept(project[c], project'[c])
      /\ QuietInboxes /\ sup'.pc # "ensuring"
  <2>1. CASE SupersedeThenDiscover(RetiredContexts, FALSE)
    <3>1. /\ \A c \in Contexts : Kept(RetiredContexts[c], project'[c])
          /\ QuietInboxes /\ sup'.pc # "ensuring"
      BY <1>2, <2>1, SupersedeThenDiscoverHolds
    <3> QED BY <1>2, <1>3, <3>1, KeptTwice DEF TypeOK
  <2>2. CASE /\ project' = RetiredContexts
             /\ Dismiss(RetiredSlots)
             /\ sup' = Supervisor("retiring", RetiredSlots)
    BY <1>3, <2>2, DismissQuiet DEF Supervisor
  <2> QED BY <2>1, <2>2 DEF TakeSignal, RetiredContexts, RetiredSlots
<1>5. OutboxesShrink
  BY <1>1, NoneQuiet
<1> QED BY <1>1, <1>4, <1>5, FrameCommits DEF Running

LEMMA FinishRetirementsCommits ==
  ASSUME TypeInv, TypeOK', CommitInv, FinishRetirements
  PROVE  CommitInv'
<1>1. UNCHANGED <<proc, runtime, outbox, engine, current, created>>
  BY DEF FinishRetirements, SupervisorStep, threadVars
<1>2. /\ \A c \in Contexts : Kept(project[c], project'[c])
      /\ QuietInboxes /\ sup'.pc # "ensuring"
  BY SupersedeThenDiscoverHolds DEF FinishRetirements, TypeInv, TypeOK
<1>3. OutboxesShrink
  BY <1>1, NoneQuiet
<1> QED BY <1>1, <1>2, <1>3, FrameCommits DEF Running, TypeInv

\* The documents that were found join the context in use, or a new one.
LEMMA AdoptCommits ==
  ASSUME TypeOK, TypeOK', CommitInv, Running, NEW found \in Snapshot, Adopt(found),
         UNCHANGED <<proc, runtime, inbox, outbox, engine>>, sup'.pc # "ensuring"
  PROVE  CommitInv'
<1> DEFINE touched == {d \in Docs : found[d] # NoText}
<1> DEFINE c == IF current # 0 THEN current ELSE created + 1
<1> DEFINE docs == [d \in Docs |-> IF d \in touched THEN found[d] ELSE project[c].docs[d]]
<1> DEFINE adopted == [project[c] EXCEPT !.docs = docs, !.rediscover = FALSE]
<1>1. CASE touched = {}
  <2>1. UNCHANGED <<project, current, created>>
    BY <1>1 DEF Adopt
  <2> QED BY <2>1, SameContexts, NoneQuiet, FrameCommits DEF Running
<1>2. CASE touched # {}
  <2>1. /\ project' = [project EXCEPT ![c] = Schedule(adopted)]
        /\ current' = c
        /\ created' = IF current # 0 THEN created ELSE created + 1
    BY <1>2 DEF Adopt
  <2>2. created \in Nat /\ current \in Nat /\ current <= created
    BY EngineAssumption DEF TypeOK, Contexts, CommitInv, CurrentInv
  <2>3. c \in Contexts /\ project[c] \in ProjectRecord
    <3>1. c # 0
      BY <2>2
    <3> QED BY <2>1, <3>1 DEF TypeOK
  <2>4. project[c].state # "Closed"
    <3>1. CASE current # 0
      BY <3>1, CurrentIsOpen
    <3>2. CASE current = 0
      BY <2>2, <2>3, <3>2 DEF CommitInv, CurrentInv
    <3> QED BY <3>1, <3>2
  <2>5. docs \in Snapshot /\ docs # NoSources
    <3>1. docs \in Snapshot
      BY <2>3 DEF Snapshot, ProjectRecord
    <3>2. PICK d \in Docs : found[d] # NoText
      BY <1>2
    <3>3. docs[d] = found[d]
      BY <3>2
    <3> QED BY <3>1, <3>2, <3>3 DEF NoSources
  <2>6. created' \in Nat /\ c <= created' /\ created <= created'
    BY <2>1, <2>2
  <2> HIDE DEF docs, c
  <2>7. /\ adopted \in ProjectRecord /\ adopted.docs = docs
        /\ adopted.state = project[c].state /\ adopted.gen = project[c].gen
        /\ adopted.active = project[c].active /\ adopted.epoch = project[c].epoch
    <3> DEFINE q == [project[c] EXCEPT !.docs = docs]
    <3>1. q \in ProjectRecord /\ q.docs = docs
      BY <2>3, <2>5 DEF ProjectRecord
    <3>2. /\ q.state = project[c].state /\ q.gen = project[c].gen
          /\ q.active = project[c].active /\ q.epoch = project[c].epoch
      BY <2>3 DEF ProjectRecord
    <3>3. adopted = [q EXCEPT !.rediscover = FALSE]
      OBVIOUS
    <3> HIDE DEF q
    <3> QED BY <3>1, <3>2, <3>3 DEF ProjectRecord
  <2> HIDE DEF adopted
  <2>8. HasDocuments(adopted)
    BY <2>5, <2>7 DEF HasDocuments
  <2> QED BY <2>1, <2>3, <2>4, <2>6, <2>7, <2>8, ScheduledCommits
<1> QED BY <1>1, <1>2

LEMMA DiscoveredCommits ==
  ASSUME TypeInv, TypeOK', CommitInv, Discovered
  PROVE  CommitInv'
<1> USE DEF TypeInv
<1> DEFINE same == Unrevised(batch.doc, batch.version)
<1> DEFINE found == IF same THEN [batch.found EXCEPT ![batch.doc] = batch.text] ELSE batch.found
<1>1. Running /\ UNCHANGED <<proc, runtime, inbox, outbox, engine>>
  BY DEF Discovered, SupervisorStep, threadVars
<1>2. found \in Snapshot
  <2>1. batch.found \in Snapshot /\ batch.text \in Nat
    BY DEF TypeOK, BatchRecord
  <2> QED BY <2>1 DEF Snapshot
<1>3. \/ UNCHANGED <<project, current, created, sup>>
      \/ Adopt(found) /\ sup' = Supervisor("debounce", {})
  BY DEF Discovered
<1> HIDE DEF found
<1>4. CASE UNCHANGED <<project, current, created, sup>>
  BY <1>1, <1>4, SameContexts, NoneQuiet, FrameCommits DEF Running
<1>5. CASE Adopt(found) /\ sup' = Supervisor("debounce", {})
  <2>1. sup'.pc # "ensuring"
    BY <1>5 DEF Supervisor
  <2> QED BY <1>1, <1>2, <1>5, <2>1, AdoptCommits
<1> QED BY <1>3, <1>4, <1>5

-----------------------------------------------------------------------------
\* The supervisor: starting an analysis.

\* What a worker of a context has and waits for, when its pending generation is
\* started: the analysis of that generation is the newest.
LEMMA StartedWork ==
  ASSUME NEW p \in ProjectRecord, GenerationsMatch(p), p.pending,
         NEW s \in RuntimeState, NEW box \in Seq(HostMessage), WorkOf(p, s, box),
         NEW q \in ProjectRecord, q.gen = p.gen, q.docs = p.docs, ~q.pending,
         NEW m \in HostMessage, m.tag = "Analyze", m.gen = p.gen, m.sources = p.docs,
         NEW new, new = Append(box, m)
  PROVE  WorkOf(q, s, new)
<1>1. /\ p.gen \in Nat /\ p.gen # 0
      /\ s.active.gen \in Nat /\ s.committed.gen \in Nat
  BY DEF GenerationsMatch, ProjectRecord, RuntimeState, AnalysisRecord
<1>2. WorkOf(q, s, box)
  BY WorkKept DEF SentKept
<1>3. Sent(q, m)
  BY <1>1 DEF Sent
<1>4. \A i \in Analyses(box) : box[i].gen < m.gen
  BY <1>1, AnalysisGeneration DEF WorkOf, BoxSent, Sent
<1>5. s.active.gen < m.gen /\ s.committed.gen < m.gen
  BY <1>1 DEF WorkOf, StateSent, Sent
<1>6. BoxSent(q, new) /\ BoxOrdered(new) /\ BoxNewer(s, new)
  BY <1>2, <1>3, <1>4, <1>5, BoxAnalysis DEF WorkOf
<1> QED BY <1>2, <1>6 DEF WorkOf

LEMMA StartAnalysisOnCommits ==
  ASSUME TypeOK, TypeOK', CommitInv, NEW w \in Workers, project[w[1]].pending,
         StartAnalysisOn(w[1], w), UNCHANGED frameVars, UNCHANGED <<proc, runtime, outbox>>
  PROVE  CommitInv'
<1> DEFINE c == w[1]
<1> DEFINE p == project[c]
<1> DEFINE started == [p EXCEPT !.pending = FALSE, !.active = p.gen,
                                !.dirty = FALSE, !.rediscover = FALSE]
<1> DEFINE m == Analyze(p.gen, p.docs, p.dirty \/ p.rediscover)
<1>1. /\ c \in Contexts /\ p \in ProjectRecord /\ GenerationsMatch(p)
      /\ p.gen \in Nat /\ p.docs \in Snapshot
  BY DEF TypeOK, Workers, CommitInv, ContextsMatch, ProjectRecord
<1>2. /\ started.gen = p.gen /\ started.docs = p.docs /\ started.epoch = p.epoch
      /\ started.pending = FALSE /\ started.active = p.gen /\ started.state = p.state
  BY <1>1 DEF ProjectRecord
<1>3. started \in ProjectRecord
  <2> DEFINE idle == [p EXCEPT !.pending = FALSE, !.dirty = FALSE, !.rediscover = FALSE]
  <2>1. idle \in ProjectRecord
    BY <1>1 DEF ProjectRecord
  <2>2. started = [idle EXCEPT !.active = p.gen]
    BY <1>1 DEF ProjectRecord
  <2> HIDE DEF idle
  <2> QED BY <1>1, <2>1, <2>2 DEF ProjectRecord
<1> HIDE DEF started
<1>4. OutboxesShrink
  BY NoneQuiet
<1>5. CASE ~Alive(w)
  <2>1. Fail(c, started, TRUE)
    BY <1>5 DEF StartAnalysisOn, started
  <2>2. started.epoch >= p.epoch
    BY <1>1, <1>2 DEF ProjectRecord
  <2> HIDE DEF c
  <2> QED BY <1>1, <1>2, <1>3, <1>4, <2>1, <2>2, FailCommits
<1>6. CASE Alive(w)
  <2>1. /\ project' = [project EXCEPT ![c] = started]
        /\ inbox' = [inbox EXCEPT ![w] = Append(@, m)]
        /\ sup' = Supervisor("idle", {})
    BY <1>6 DEF StartAnalysisOn, Send, started
  <2>2. /\ project'[c] = started
        /\ \A k \in Contexts \ {c} : project'[k] = project[k]
    BY <1>1, <2>1 DEF TypeOK
  <2>3. p.state # "Committed" /\ p.gen # 0
    BY <1>1 DEF GenerationsMatch
  <2>4. WorkOrdered'
    <3>1. m \in HostMessage /\ m.tag = "Analyze" /\ m.gen = p.gen /\ m.sources = p.docs
      BY <1>1, MessageTypes DEF Analyze, ProjectRecord
    <3> HIDE DEF m
    <3> SUFFICES ASSUME NEW v \in Workers
                 PROVE  WorkOf(project'[v[1]], runtime[v], inbox'[v])
      BY DEF WorkOrdered
    <3>2. /\ v[1] \in Contexts /\ runtime[v] \in RuntimeState /\ inbox[v] \in Seq(HostMessage)
          /\ WorkOf(project[v[1]], runtime[v], inbox[v])
      BY DEF TypeOK, Workers, CommitInv, WorkOrdered
    <3>3. CASE v = w
      <4>1. inbox'[v] = Append(inbox[v], m)
        BY <2>1, <3>3 DEF TypeOK
      <4> QED BY <1>1, <1>2, <1>3, <2>2, <3>1, <3>2, <3>3, <4>1, StartedWork
    <3>4. CASE v # w
      <4>1. inbox'[v] = inbox[v]
        BY <2>1, <3>4 DEF TypeOK
      <4>2. CASE v[1] = c
        <5>1. SentKept(p, started)
          BY <1>2 DEF SentKept
        <5>2. WorkOf(started, runtime[v], inbox[v])
          BY <1>1, <1>3, <3>2, <4>2, <5>1, WorkKept
        <5> QED BY <2>2, <4>1, <4>2, <5>2
      <4>3. CASE v[1] # c
        BY <2>2, <3>2, <4>1, <4>3
      <4> QED BY <4>2, <4>3
    <3> QED BY <3>3, <3>4
  <2>5. CommitsKnown'
    BY <1>4, CommitsKnownKept DEF CommitInv
  <2>6. ContextsMatch'
    <3>1. GenerationsMatch(started)
      BY <1>1, <1>2, <2>3 DEF GenerationsMatch
    <3> QED BY <2>2, <3>1 DEF CommitInv, ContextsMatch
  <2>7. EnsuredIsPending'
    BY <2>1 DEF EnsuredIsPending, Supervisor
  <2>8. CurrentInv'
    BY <1>2, <2>2, CurrentKept DEF CommitInv, frameVars, Running
  <2>9. EpochsInOrder'
    BY <1>2, <2>2 DEF CommitInv, EpochsInOrder, Workers
  <2>10. CommitHolds'
    <3>1. ASSUME NEW k \in Contexts, project'[k].state = "Committed" PROVE project'[k] = project[k]
      BY <1>2, <2>2, <2>3, <3>1
    <3> QED BY <3>1 DEF CommitInv, CommitHolds, SlotOf, Alive
  <2> QED BY <2>4, <2>5, <2>6, <2>7, <2>8, <2>9, <2>10 DEF CommitInv
<1> QED BY <1>5, <1>6

LEMMA DebounceSpawnCommits ==
  ASSUME TypeOK, TypeOK', CommitInv, DebounceSpawn
  PROVE  CommitInv'
<1> DEFINE p == project[current]
<1> DEFINE e == p.epoch + 1
<1> DEFINE w == <<current, e>>
<1> DEFINE spawned == [p EXCEPT !.epoch = e, !.slot = e]
<1>1. current \in Contexts /\ p \in ProjectRecord /\ p.pending /\ GenerationsMatch(p)
  BY DEF DebounceSpawn, Startable, TypeOK, CommitInv, ContextsMatch
<1>2. e \in Epochs /\ w \in Workers
  BY <1>1, EngineAssumption DEF DebounceSpawn, Epochs, ProjectRecord, Workers
<1>3. /\ project' = [project EXCEPT ![current] = spawned]
      /\ proc' = [proc EXCEPT ![w] = "live"]
      /\ inbox' = [inbox EXCEPT ![w] = <<Initialize>>]
      /\ sup' = Supervisor("ensuring", {w})
      /\ UNCHANGED <<runtime, outbox, current, created, engine>>
  BY DEF DebounceSpawn, SupervisorStep
<1>4. /\ spawned.gen = p.gen /\ spawned.docs = p.docs /\ spawned.pending = p.pending
      /\ spawned.active = p.active /\ spawned.state = p.state /\ spawned.epoch = e
      /\ p.epoch \in Nat
  BY <1>1 DEF ProjectRecord
<1>5. proc[w] = "unborn"
  <2>1. w[1] = current /\ w[2] > p.epoch
    BY <1>4
  <2> QED BY <1>2, <2>1 DEF CommitInv, EpochsInOrder
<1> HIDE DEF spawned
<1>6. /\ project'[current] = spawned
      /\ \A k \in Contexts \ {current} : project'[k] = project[k]
  BY <1>1, <1>3 DEF TypeOK
<1>7. p.state # "Committed"
  BY <1>1 DEF GenerationsMatch
<1>8. WorkOrdered'
  <2> SUFFICES ASSUME NEW v \in Workers
               PROVE  WorkOf(project'[v[1]], runtime[v], inbox'[v])
    BY <1>3 DEF WorkOrdered
  <2>1. /\ v[1] \in Contexts /\ runtime[v] \in RuntimeState /\ inbox[v] \in Seq(HostMessage)
        /\ project[v[1]] \in ProjectRecord /\ project'[v[1]] \in ProjectRecord
        /\ WorkOf(project[v[1]], runtime[v], inbox[v])
    BY DEF TypeOK, Workers, CommitInv, WorkOrdered
  <2>2. SentKept(project[v[1]], project'[v[1]])
    BY <1>4, <1>6, <2>1 DEF SentKept
  <2>3. WorkOf(project'[v[1]], runtime[v], inbox[v])
    BY <2>1, <2>2, WorkKept
  <2>4. inbox'[v] = inbox[v] \/ inbox'[v] = <<Initialize>>
    BY <1>3 DEF TypeOK
  <2> QED BY <2>3, <2>4, BoxWithout, NoAnalyses DEF WorkOf
<1>9. CommitsKnown'
  BY <1>3, <1>5 DEF CommitInv, CommitsKnown, TypeOK
<1>10. ContextsMatch'
  <2>1. GenerationsMatch(spawned)
    BY <1>1, <1>4 DEF GenerationsMatch
  <2> QED BY <1>6, <2>1 DEF CommitInv, ContextsMatch
<1>11. EnsuredIsPending'
  <2>1. sup'.on = {w} /\ w[1] = current
    BY <1>3 DEF Supervisor
  <2> QED BY <1>1, <1>4, <1>6, <2>1 DEF EnsuredIsPending
<1>12. CurrentInv'
  BY <1>3, <1>4, <1>6, CurrentKept DEF CommitInv, Running
<1>13. EpochsInOrder'
  <2>1. ASSUME NEW v \in Workers, v[2] > project'[v[1]].epoch PROVE proc'[v] = "unborn"
    <3>1. v[1] \in Contexts /\ v[2] \in Nat
      BY DEF Workers, Epochs
    <3>3. project[v[1]].epoch \in Nat
      BY <3>1 DEF TypeOK, ProjectRecord
    <3>2. v # w /\ v[2] > project[v[1]].epoch
      BY <1>4, <1>6, <2>1, <3>1, <3>3
    <3> QED BY <1>3, <3>2 DEF CommitInv, EpochsInOrder, TypeOK
  <2> QED BY <2>1 DEF EpochsInOrder
<1>14. CommitHolds'
  <2>1. ASSUME NEW k \in Contexts, project'[k].state = "Committed"
        PROVE  k # current /\ project'[k] = project[k]
    BY <1>4, <1>6, <1>7, <2>1
  <2>2. ASSUME NEW k \in Contexts, k # current, Alive(<<k, project[k].slot>>)'
        PROVE  Alive(<<k, project[k].slot>>)
    BY <1>3, <1>6, <2>2 DEF Alive, TypeOK
  <2> QED BY <1>3, <2>1, <2>2 DEF CommitInv, CommitHolds, SlotOf
<1> QED BY <1>8, <1>9, <1>10, <1>11, <1>12, <1>13, <1>14 DEF CommitInv

LEMMA SupervisorCommits ==
  ASSUME TypeInv, TypeOK', CommitInv,
         \/ DebounceIdle \/ DebounceStart \/ WorkerIsReady \/ WorkerNeverReady
         \/ ReadinessExpires \/ SpawnFails
  PROVE  CommitInv'
<1> USE DEF TypeInv
<1>1. UNCHANGED frameVars /\ UNCHANGED <<proc, runtime, outbox>>
  <2>1. DebounceIdle => UNCHANGED projectVars
    BY DEF DebounceIdle
  <2> QED BY <2>1 DEF DebounceIdle, DebounceStart, WorkerIsReady, WorkerNeverReady,
                      ReadinessExpires, SpawnFails, SupervisorStep, frameVars, projectVars,
                       threadVars
<1>2. OutboxesShrink
  BY <1>1, NoneQuiet
<1>3. UNCHANGED <<current, created>> /\ (Running' => Running)
  BY <1>1 DEF frameVars, Running
<1>4. ASSUME sup' = Supervisor("idle", {}), UNCHANGED <<project, inbox>>
      PROVE  CommitInv'
  <2>1. sup'.pc # "ensuring"
    BY <1>4 DEF Supervisor
  <2> QED BY <1>1, <1>2, <1>3, <1>4, <2>1, SameContexts, NoneQuiet, FrameCommits
<1>5. ASSUME NEW w \in Workers, Fail(w[1], project[w[1]], TRUE) PROVE CommitInv'
  <2>1. w[1] \in Contexts /\ project[w[1]] \in ProjectRecord
    BY DEF Workers, TypeOK
  <2>2. project[w[1]].epoch >= project[w[1]].epoch
    BY <2>1 DEF ProjectRecord
  <2> QED BY <1>1, <1>2, <1>5, <2>1, <2>2, FailCommits
<1>6. sup.on \subseteq Workers
  BY DEF TypeOK, SupervisorRecord
<1>7. CASE DebounceIdle
  BY <1>4, <1>7 DEF DebounceIdle, projectVars
<1>8. CASE DebounceStart
  <2>1. /\ current \in Contexts /\ project[current].pending
        /\ project[current].slot # 0 /\ StartAnalysisOn(current, SlotOf(current))
    BY <1>8 DEF DebounceStart, Startable, TypeOK
  <2>2. SlotOf(current) \in Workers /\ SlotOf(current)[1] = current
    BY <2>1, SlotType DEF SlotOf, TypeOK
  <2> QED BY <1>1, <2>1, <2>2, StartAnalysisOnCommits
<1>9. CASE WorkerIsReady
  <2>1. PICK w \in sup.on :
          IF project[w[1]].state # "Pending"
          THEN sup' = Supervisor("idle", {}) /\ UNCHANGED <<project, inbox>>
          ELSE StartAnalysisOn(w[1], w)
    BY <1>9 DEF WorkerIsReady
  <2>2. project[w[1]].pending
    BY <1>9 DEF WorkerIsReady, CommitInv, EnsuredIsPending
  <2> QED BY <1>1, <1>4, <1>6, <2>1, <2>2, StartAnalysisOnCommits
<1>10. CASE WorkerNeverReady
  BY <1>5, <1>6, <1>10 DEF WorkerNeverReady
<1>11. CASE ReadinessExpires
  BY <1>5, <1>6, <1>11 DEF ReadinessExpires
<1>12. CASE SpawnFails
  <2> DEFINE p == [project[current] EXCEPT !.epoch = @ + 1]
  <2>1. current \in Contexts /\ Fail(current, p, TRUE)
    BY <1>12 DEF SpawnFails, Startable, TypeOK
  <2>2. /\ p \in ProjectRecord /\ p.gen = project[current].gen /\ p.docs = project[current].docs
        /\ p.epoch >= project[current].epoch /\ p.pending = project[current].pending
    <3>1. project[current] \in ProjectRecord
      BY <2>1 DEF TypeOK
    <3> QED BY <3>1 DEF ProjectRecord
  <2> HIDE DEF p
  <2> QED BY <1>1, <1>2, <2>1, <2>2, FailCommits
<1> QED BY <1>7, <1>8, <1>9, <1>10, <1>11, <1>12

-----------------------------------------------------------------------------
\* The listener of a worker.

\* A commit that counts is of the newest generation, which the worker in the slot
\* has as its basis if it runs.
LEMMA ReceiveCommitCommits ==
  ASSUME TypeInv, TypeOK', CommitInv, NEW w \in Workers, ReceiveCommit(w)
  PROVE  CommitInv'
<1> USE DEF TypeInv
<1> DEFINE c == w[1]
<1> DEFINE p == project[c]
<1> DEFINE g == Head(outbox[w]).gen
<1> DEFINE committed == [p EXCEPT !.active = 0, !.state = "Committed",
                                  !.failureCount = 0, !.circuit = "Closed"]
<1>1. /\ Receive(w, "Commit") /\ InSlot(w) /\ Consume(w) /\ NoFailure
      /\ UNCHANGED frameVars /\ UNCHANGED <<proc, runtime>> /\ outbox[w] # <<>>
  BY ReceiveFrame DEF ReceiveCommit
<1>2. QuietInboxes /\ OutboxesShrink /\ UNCHANGED <<sup, current, created, engine>>
  BY <1>1, NoneQuiet, TakenShrinks DEF NoFailure, frameVars
<1>3. c \in Contexts /\ p \in ProjectRecord /\ GenerationsMatch(p) /\ g \in Nat
  BY <1>1, ReceivedType DEF TypeOK, Workers, CommitInv, ContextsMatch
<1>4. CASE UNCHANGED project
  BY <1>1, <1>2, <1>4, SameContexts, FrameCommits DEF Running
<1>5. CASE Committing(p, g) /\ project' = [project EXCEPT ![c] = committed]
  <2>1. p.gen = g /\ p.active = g /\ ~p.pending
    BY <1>3, <1>5 DEF Committing, GenerationsMatch
  <2>2. /\ committed.gen = p.gen /\ committed.docs = p.docs /\ committed.pending = p.pending
        /\ committed.active = 0 /\ committed.epoch = p.epoch /\ committed.slot = p.slot
        /\ committed.state = "Committed"
    BY <1>3 DEF ProjectRecord
  <2> HIDE DEF committed
  <2>3. /\ project'[c] = committed
        /\ \A k \in Contexts \ {c} : project'[k] = project[k]
    BY <1>3, <1>5 DEF TypeOK
  <2>4. g # 0 /\ (proc[w] # "exited" => g <= runtime[w].committed.gen)
    <3>1. /\ Head(outbox[w]) = outbox[w][1] /\ 1 \in 1..Len(outbox[w])
          /\ Head(outbox[w]).tag = "Commit"
      BY <1>1, TailFacts DEF Receive, TypeOK
    <3>2. Known(proc[w] # "exited", runtime[w], outbox[w])
      BY DEF CommitInv, CommitsKnown
    <3> QED BY <3>1, <3>2 DEF Known
  <2>5. WorkOrdered'
    BY <1>1, <1>2, <2>2, <2>3, WorkOrderedKept DEF CommitInv, SentKept
  <2>6. CommitsKnown'
    BY <1>1, <1>2, CommitsKnownKept DEF CommitInv
  <2>7. ContextsMatch'
    <3>1. GenerationsMatch(committed)
      BY <1>3, <2>1, <2>2, <2>4 DEF GenerationsMatch
    <3> QED BY <2>3, <3>1 DEF CommitInv, ContextsMatch
  <2>8. EnsuredIsPending'
    <3>1. \A k \in Contexts : project'[k].pending = project[k].pending
      BY <2>2, <2>3
    <3>2. \A v \in sup.on : v[1] \in Contexts
      BY DEF TypeOK, SupervisorRecord, Workers
    <3> QED BY <1>2, <3>1, <3>2 DEF CommitInv, EnsuredIsPending
  <2>9. CurrentInv'
    BY <1>2, <2>2, <2>3, CurrentKept DEF CommitInv, Running
  <2>10. EpochsInOrder'
    BY <1>1, <2>2, <2>3 DEF CommitInv, EpochsInOrder, Workers
  <2>11. CommitHolds'
    <3>1. SlotOf(c)' = w
      BY <1>1, <2>2, <2>3 DEF SlotOf, InSlot, Workers
    <3>2. Alive(w) => runtime[w].committed.gen = g
      <4>1. runtime[w].committed.gen \in Nat
        BY DEF TypeOK, RuntimeState, AnalysisRecord
      <4>2. runtime[w].committed.gen # 0 => runtime[w].committed.gen <= g
        BY <2>1 DEF CommitInv, WorkOrdered, WorkOf, StateSent, Sent
      <4> QED BY <1>3, <2>4, <4>1, <4>2 DEF Alive
    <3>3. ASSUME NEW k \in Contexts, project'[k].state = "Committed", project'[k].slot # 0,
                 Alive(SlotOf(k))'
          PROVE  runtime'[SlotOf(k)'].committed.gen = project'[k].gen
      <4>1. CASE k = c
        BY <1>1, <2>1, <2>2, <2>3, <3>1, <3>2, <3>3, <4>1 DEF Alive
      <4>2. CASE k # c
        BY <1>1, <2>3, <3>3, <4>2 DEF CommitInv, CommitHolds, SlotOf, Alive
      <4> QED BY <4>1, <4>2
    <3> QED BY <3>3 DEF CommitHolds, SlotOf
  <2> QED BY <2>5, <2>6, <2>7, <2>8, <2>9, <2>10, <2>11 DEF CommitInv
<1> QED BY <1>4, <1>5 DEF ReceiveCommit

LEMMA ListenerCommits ==
  ASSUME TypeInv, TypeOK', CommitInv, NEW w \in Workers, ListenerNext(w)
  PROVE  CommitInv'
<1> USE DEF TypeInv
<1>1. PICK tag : Receive(w, tag)
  BY DEF ListenerNext, ReceiveStale, ReceiveReady, ReceiveSuperseded, ReceiveCommit,
         ReceiveFailure, ReceiveResult, ReceiveDied
<1>2. /\ UNCHANGED frameVars /\ UNCHANGED <<proc, runtime, current, created, engine>>
      /\ OutboxesShrink
  <2>1. Consume(w) \/ StopListening(w)
    BY DEF ListenerNext, ReceiveStale, ReceiveReady, ReceiveSuperseded, ReceiveCommit,
           ReceiveFailure, ReceiveResult, ReceiveDied
  <2> QED BY <1>1, <2>1, ReceiveFrame, TakenShrinks DEF frameVars
<1>3. w[1] \in Contexts /\ project[w[1]] \in ProjectRecord
  BY DEF TypeOK, Workers
<1>4. ASSUME NoFailure, UNCHANGED project PROVE CommitInv'
  BY <1>2, <1>4, SameContexts, NoneQuiet, FrameCommits DEF NoFailure, Running
<1>5. ASSUME Fail(w[1], project[w[1]], FALSE) PROVE CommitInv'
  <2>1. project[w[1]].epoch >= project[w[1]].epoch
    BY <1>3 DEF ProjectRecord
  <2> QED BY <1>2, <1>3, <1>5, <2>1, FailCommits
<1>6. CASE ReceiveStale(w) \/ ReceiveReady(w) \/ ReceiveResult(w)
  BY <1>4, <1>6 DEF ReceiveStale, ReceiveReady, ReceiveResult
<1>7. CASE ReceiveFailure(w) \/ ReceiveDied(w)
  BY <1>4, <1>5, <1>7 DEF ReceiveFailure, ReceiveDied
<1>8. CASE ReceiveCommit(w)
  BY <1>8, ReceiveCommitCommits
<1>9. CASE ReceiveSuperseded(w)
  <2> DEFINE p == project[w[1]]
  <2> DEFINE free == [p EXCEPT !.awaitingSupersede = 0, !.active = 0]
  <2>1. \/ UNCHANGED project
        \/ project' = [project EXCEPT ![w[1]] = free]
    BY <1>9 DEF ReceiveSuperseded
  <2>2. /\ free.gen = p.gen /\ free.docs = p.docs /\ free.pending = p.pending
        /\ free.active = 0 /\ free.epoch = p.epoch /\ free.slot = p.slot
        /\ free.state = p.state /\ p.epoch >= p.epoch
    BY <1>3 DEF ProjectRecord
  <2> HIDE DEF free
  <2>3. Kept(p, free)
    BY <2>2 DEF Kept, Held, SentKept
  <2>4. CASE project' = [project EXCEPT ![w[1]] = free]
    <3>1. /\ \A k \in Contexts : Kept(project[k], project'[k])
          /\ \A k \in Contexts : project[k].pending => project'[k].pending
      BY <1>3, <2>2, <2>3, <2>4, KeptItself DEF TypeOK
    <3>2. NoFailure
      BY <1>9 DEF ReceiveSuperseded
    <3> QED BY <1>2, <3>1, <3>2, NoneQuiet, FrameCommits DEF NoFailure, Running
  <2> QED BY <1>4, <1>9, <2>1, <2>4 DEF ReceiveSuperseded
<1> QED BY <1>6, <1>7, <1>8, <1>9 DEF ListenerNext

-----------------------------------------------------------------------------
\* Watchdogs and the ends of retirements.

LEMMA WatchdogCommits ==
  ASSUME TypeInv, TypeOK', CommitInv, NEW c \in Contexts,
         NoProgress(c) \/ Stall(c) \/ LeaseExpires(c)
  PROVE  CommitInv'
<1> USE DEF TypeInv
<1>1. /\ UNCHANGED frameVars /\ UNCHANGED <<proc, runtime, outbox, current, created, engine>>
      /\ OutboxesShrink
  BY NoneQuiet DEF NoProgress, Stall, LeaseExpires, WatchdogStep, frameVars, threadVars
<1>2. project[c] \in ProjectRecord /\ project[c].epoch >= project[c].epoch
  BY DEF TypeOK, ProjectRecord
<1>3. CASE NoProgress(c) \/ Stall(c)
  <2>1. Fail(c, project[c], FALSE)
    BY <1>3 DEF NoProgress, Stall
  <2> QED BY <1>1, <1>2, <2>1, FailCommits
<1>4. CASE LeaseExpires(c)
  <2>1. /\ project' = [project EXCEPT ![c] = Retired(project[c])] /\ UNCHANGED sup
        /\ Dismiss({SlotOf(c)})
    BY <1>4 DEF LeaseExpires
  <2>2. /\ \A k \in Contexts : Kept(project[k], project'[k])
        /\ \A k \in Contexts : project[k].pending => project'[k].pending
    BY <1>2, <2>1, RetiredKept, KeptItself DEF TypeOK
  <2> QED BY <1>1, <2>1, <2>2, DismissQuiet, FrameCommits DEF Running
<1> QED BY <1>3, <1>4

LEMMA FinishCommits ==
  ASSUME TypeInv, TypeOK', CommitInv,
         (\E w \in Workers : FinishLease(w)) \/ (\E f \in failing : FinishFailure(f))
  PROVE  CommitInv'
<1> USE DEF TypeInv
<1>1. /\ UNCHANGED <<proc, runtime, outbox, inbox, current, created, engine>>
      /\ OutboxesShrink /\ QuietInboxes
  BY NoneQuiet DEF FinishLease, FinishFailure, SupervisorStep, threadVars
<1>2. ASSUME NEW w \in Workers, FinishLease(w) PROVE CommitInv'
  <2> DEFINE p == project[w[1]]
  <2> DEFINE free == [p EXCEPT !.awaitingSupersede = 0]
  <2>1. w[1] \in Contexts /\ p \in ProjectRecord
    BY DEF TypeOK, Workers
  <2>2. project' = [project EXCEPT ![w[1]] = free] /\ UNCHANGED sup
    BY <1>2 DEF FinishLease
  <2>3. /\ free.gen = p.gen /\ free.docs = p.docs /\ free.pending = p.pending
        /\ free.active = p.active /\ free.epoch = p.epoch /\ free.slot = p.slot
        /\ free.state = p.state /\ p.epoch >= p.epoch
    BY <2>1 DEF ProjectRecord
  <2> HIDE DEF free
  <2>4. Kept(p, free)
    BY <2>3 DEF Kept, Held, SentKept
  <2>5. /\ \A k \in Contexts : Kept(project[k], project'[k])
        /\ \A k \in Contexts : project[k].pending => project'[k].pending
    BY <2>1, <2>2, <2>3, <2>4, KeptItself DEF TypeOK
  <2> QED BY <1>1, <2>2, <2>5, FrameCommits DEF Running
<1>3. ASSUME NEW f \in failing, FinishFailure(f) PROVE CommitInv'
  <2> DEFINE c == f.worker[1]
  <2> DEFINE next == AfterFailure(project[c], f.halfOpen)
  <2>1. c \in Contexts /\ project[c] \in ProjectRecord
    BY DEF TypeOK, FailureRecord, Workers
  <2>2. /\ project' = [project EXCEPT ![c] = next]
        /\ sup' = IF f.supervised THEN Supervisor("idle", {}) ELSE sup
    BY <1>3 DEF FinishFailure
  <2>3. Kept(project[c], next) /\ (project[c].pending => next.pending)
    BY <2>1, AfterFailureKept
  <2> HIDE DEF next
  <2>4. /\ \A k \in Contexts : Kept(project[k], project'[k])
        /\ \A k \in Contexts : project[k].pending => project'[k].pending
    BY <2>1, <2>2, <2>3, KeptItself DEF TypeOK
  <2>5. sup'.pc # "ensuring" \/ sup' = sup
    BY <2>2 DEF Supervisor
  <2> QED BY <1>1, <2>4, <2>5, FrameCommits DEF Running
<1> QED BY <1>2, <1>3

-----------------------------------------------------------------------------
\* The worker threads.

\* A worker's analysis ends, and is its new basis or is not, or nothing of it changes.
LEMMA WorkEnds ==
  ASSUME NEW p, NEW s \in RuntimeState, NEW t \in RuntimeState, NEW box \in Seq(HostMessage),
         WorkOf(p, s, box),
         \/ t.active = s.active /\ t.committed = s.committed
         \/ t.active = NoAnalysis /\ t.committed = s.committed
         \/ t.active = NoAnalysis /\ t.committed = s.active
  PROVE  WorkOf(p, t, box)
<1>1. /\ s.active.gen \in Nat /\ s.committed.gen \in Nat /\ NoAnalysis.gen = 0
  BY DEF RuntimeState, AnalysisRecord, NoAnalysis
<1>2. StateSent(p, t)
  BY <1>1 DEF WorkOf, StateSent, Sent
<1>3. BoxNewer(t, box)
  BY <1>1, AnalysisGeneration DEF WorkOf, BoxNewer
<1> QED BY <1>2, <1>3 DEF WorkOf

\* What a worker does with one message: only an analysis replaces what it works on.
LEMMA AcceptedFacts ==
  ASSUME NEW s \in RuntimeState, NEW m \in HostMessage, NEW now
  PROVE  LET step == Accepted(s, m, now)
         IN /\ step.state.committed = s.committed
            /\ IF m.tag = "Analyze"
               THEN step.state.active.gen = m.gen /\ step.state.active.sources = m.sources
               ELSE step.state.active = s.active \/ step.state.active = NoAnalysis
            /\ step.replies = <<>> \/ \E r : step.replies = <<r>> /\ r.tag # "Commit"
<1> DEFINE step == Accepted(s, m, now)
<1> USE DEF Step
<1>1. CASE m.tag = "Initialize"
  <2>1. step = Step(s, <<Ready>>)
    BY <1>1 DEF Accepted
  <2> QED BY <1>1, <2>1 DEF Ready
<1>2. CASE m.tag = "Analyze"
  <2>1. ASSUME NEW t \in RuntimeState
        PROVE  /\ Analysing(t, m, now).committed = t.committed
               /\ Analysing(t, m, now).active.gen = m.gen
               /\ Analysing(t, m, now).active.sources = m.sources
    BY DEF Analysing, RuntimeState
  <2>2. /\ WithoutGeneration(s, s.active.gen) \in RuntimeState
        /\ WithoutGeneration(s, s.active.gen).committed = s.committed
    BY WithoutGenerationFacts
  <2>3. step = StartAnalysis(s, m, now)
    BY <1>2 DEF Accepted
  <2>4. \/ step = Step(Analysing(s, m, now), <<>>)
        \/ step = Step(Analysing(WithoutGeneration(s, s.active.gen), m, now),
                       <<Superseded(s.active.gen)>>)
    BY <2>3 DEF StartAnalysis
  <2>5. Superseded(s.active.gen).tag # "Commit"
    BY DEF Superseded
  <2> QED BY <1>2, <2>1, <2>2, <2>4, <2>5
<1>3. CASE m.tag = "SupersedeAnalysis"
  <2>1. step = Step(WithoutGeneration(s, m.gen), <<Superseded(m.gen)>>)
    BY <1>3 DEF Accepted
  <2> QED BY <1>3, <2>1, WithoutGenerationFacts DEF Superseded
<1>4. CASE m.tag = "Query"
  <2>1. step = StartQuery(s, m)
    BY <1>4 DEF Accepted
  <2>2. /\ step.state.committed = s.committed /\ step.state.active = s.active
        /\ step.replies = <<>> \/ step.replies = <<Unavailable(m)>>
    BY <2>1 DEF StartQuery, WithoutQuery, RuntimeState
  <2> QED BY <1>4, <2>2 DEF Unavailable
<1>5. CASE m.tag = "CancelQuery"
  BY <1>5 DEF Accepted, WithoutQuery, RuntimeState
<1>6. CASE m.tag = "Shutdown"
  <2> DEFINE t == [s EXCEPT !.active = NoAnalysis, !.queries = {}]
  <2>1. t.committed = s.committed /\ t.active = NoAnalysis
    BY DEF RuntimeState
  <2>2. step = [state |-> t, replies |-> <<Stopped>>]
    BY <1>6 DEF Accepted
  <2>3. Stopped.tag # "Commit"
    BY DEF Stopped
  <2> HIDE DEF t, step
  <2>4. /\ step.state.committed = s.committed /\ step.state.active = NoAnalysis
        /\ step.replies = <<Stopped>>
    BY <2>1, <2>2
  <2> QED BY <1>6, <2>3, <2>4 DEF step
<1> QED BY <1>1, <1>2, <1>3, <1>4, <1>5, <1>6 DEF HostMessage

\* The worker takes its oldest message.
LEMMA WorkAccepts ==
  ASSUME NEW p, NEW s \in RuntimeState, NEW box \in Seq(HostMessage), box # <<>>,
         WorkOf(p, s, box), NEW t \in RuntimeState, t.committed = s.committed,
         IF Head(box).tag = "Analyze"
         THEN t.active.gen = Head(box).gen /\ t.active.sources = Head(box).sources
         ELSE t.active = s.active \/ t.active = NoAnalysis
  PROVE  WorkOf(p, t, Tail(box))
<1>1. /\ BoxSent(p, Tail(box)) /\ BoxOrdered(Tail(box)) /\ BoxNewer(s, Tail(box))
      /\ Head(box).tag = "Analyze" =>
           /\ Sent(p, Head(box))
           /\ Head(box).gen > s.active.gen /\ Head(box).gen > s.committed.gen
           /\ \A i \in Analyses(Tail(box)) : Head(box).gen < Tail(box)[i].gen
  BY BoxTail DEF WorkOf
<1>2. Tail(box) \in Seq(HostMessage)
  BY TailFacts
<1>3. CASE Head(box).tag = "Analyze"
  <2>1. StateSent(p, t)
    BY <1>1, <1>3 DEF WorkOf, StateSent, Sent
  <2>2. BoxNewer(t, Tail(box))
    BY <1>1, <1>3 DEF BoxNewer
  <2> QED BY <1>1, <2>1, <2>2 DEF WorkOf
<1>4. CASE Head(box).tag # "Analyze"
  <2>1. WorkOf(p, s, Tail(box))
    BY <1>1 DEF WorkOf
  <2> QED BY <1>2, <1>4, <2>1, WorkEnds
<1> QED BY <1>3, <1>4

\* One message is posted; a commit names the new basis.
LEMMA KnownPosted ==
  ASSUME NEW running, NEW s \in RuntimeState, NEW t \in RuntimeState,
         NEW out \in Seq(WorkerMessage \cup {Died}), Known(running, s, out),
         NEW still, still => running /\ s.committed.gen <= t.committed.gen
  PROVE  /\ Known(still, t, out)
         /\ \A m : (m.tag = "Commit" => m.gen # 0 /\ (still => m.gen <= t.committed.gen))
                     => Known(still, t, Append(out, m))
<1>1. s.committed.gen \in Nat /\ t.committed.gen \in Nat
  BY DEF RuntimeState, AnalysisRecord
<1>2. ASSUME NEW i \in 1..Len(out), out[i].tag = "Commit"
      PROVE  out[i].gen # 0 /\ (still => out[i].gen <= t.committed.gen)
  <2>1. out[i].gen \in Nat
    BY <1>2 DEF WorkerMessage, Died
  <2> QED BY <1>1, <1>2, <2>1 DEF Known
<1>3. Known(still, t, out)
  BY <1>2 DEF Known
<1>4. ASSUME NEW m, m.tag = "Commit" => m.gen # 0 /\ (still => m.gen <= t.committed.gen)
      PROVE  Known(still, t, Append(out, m))
  <2>1. ASSUME NEW i \in 1..Len(Append(out, m))
        PROVE  \/ i \in 1..Len(out) /\ Append(out, m)[i] = out[i]
               \/ Append(out, m)[i] = m
    BY AppendFacts
  <2> QED BY <1>2, <1>4, <2>1 DEF Known
<1> QED BY <1>3, <1>4

\* What the threads leave as it is, and what one of them must do with its own
\* state and messages, for the invariant to hold.
LEMMA ThreadKeeps ==
  ASSUME TypeOK, CommitInv, ThreadStep, NEW w \in Workers,
         \A v \in Workers \ {w} : /\ proc'[v] = proc[v] /\ runtime'[v] = runtime[v]
                                  /\ inbox'[v] = inbox[v] /\ outbox'[v] = outbox[v],
         WorkOf(project[w[1]], runtime'[w], inbox'[w]),
         Known(proc'[w] # "exited", runtime'[w], outbox'[w]),
         proc[w] # "unborn",
         Alive(w)' => /\ Alive(w)
                      /\ \/ runtime'[w].committed = runtime[w].committed
                         \/ ~(project[w[1]].state = "Committed" /\ InSlot(w))
  PROVE  CommitInv'
<1>1. UNCHANGED <<project, current, created, sup, engine>>
  BY DEF ThreadStep, projectVars, fiberVars
<1>2. WorkOrdered' /\ CommitsKnown'
  BY <1>1 DEF CommitInv, WorkOrdered, CommitsKnown
<1>3. ContextsMatch' /\ EnsuredIsPending' /\ CurrentInv'
  BY <1>1 DEF CommitInv, ContextsMatch, EnsuredIsPending, CurrentInv, Running
<1>4. EpochsInOrder'
  BY <1>1 DEF CommitInv, EpochsInOrder
<1>5. CommitHolds'
  <2>1. ASSUME NEW c \in Contexts, project[c].state = "Committed", project[c].slot # 0,
               Alive(SlotOf(c))'
        PROVE  runtime'[SlotOf(c)].committed.gen = project[c].gen
    <3>1. SlotOf(c)' = SlotOf(c) /\ SlotOf(c) \in Workers /\ SlotOf(c)[1] = c
      BY <1>1, <2>1, SlotType DEF SlotOf, TypeOK
    <3>2. Alive(SlotOf(c)) /\ runtime'[SlotOf(c)].committed = runtime[SlotOf(c)].committed
      BY <2>1, <3>1 DEF Alive, InSlot, SlotOf
    <3> QED BY <2>1, <3>2 DEF CommitInv, CommitHolds
  <2> QED BY <1>1, <2>1 DEF CommitHolds, SlotOf
<1> QED BY <1>2, <1>3, <1>4, <1>5 DEF CommitInv

LEMMA PostKnown ==
  ASSUME TypeOK, CommitsKnown, NEW w \in Workers, NEW messages, PostToHost(w, messages),
         NEW t \in RuntimeState, NEW still,
         still => proc[w] # "exited" /\ runtime[w].committed.gen <= t.committed.gen,
         \/ messages = <<>>
         \/ \E m : messages = <<m>> /\ (m.tag = "Commit" =>
                     m.gen # 0 /\ (still => m.gen <= t.committed.gen))
  PROVE  /\ Known(still, t, outbox'[w])
         /\ \A v \in Workers \ {w} : outbox'[v] = outbox[v]
<1> DEFINE out == outbox[w]
<1>1. /\ out \in Seq(WorkerMessage \cup {Died}) /\ runtime[w] \in RuntimeState
      /\ Known(proc[w] # "exited", runtime[w], out)
  BY DEF TypeOK, CommitsKnown
<1>2. outbox'[w] = out \/ outbox'[w] = out \o messages
  BY DEF PostToHost, TypeOK
<1>3. \A v \in Workers \ {w} : outbox'[v] = outbox[v]
  BY DEF PostToHost, TypeOK
<1> HIDE DEF out
<1>5. /\ Known(still, t, out)
      /\ \A m : (m.tag = "Commit" => m.gen # 0 /\ (still => m.gen <= t.committed.gen))
                  => Known(still, t, Append(out, m))
  BY <1>1, KnownPosted
<1>6. CASE messages = <<>>
  BY <1>1, <1>2, <1>3, <1>5, <1>6, PostNothing
<1>7. ASSUME NEW m, messages = <<m>>,
             m.tag = "Commit" => m.gen # 0 /\ (still => m.gen <= t.committed.gen)
      PROVE  Known(still, t, outbox'[w])
  <2>1. out \o messages = Append(out, m)
    BY <1>1, <1>7, PostOne
  <2> QED BY <1>2, <1>5, <1>7, <2>1
<1> QED BY <1>3, <1>6, <1>7

\* A thread that ends leaves nothing to do.
LEMMA ExitCommits ==
  ASSUME TypeOK, CommitInv, ThreadStep, NEW w \in Workers, Exit(w), proc[w] # "unborn",
         \/ UNCHANGED outbox
         \/ \E m : m.tag # "Commit" /\ PostToHost(w, <<m>>)
  PROVE  CommitInv'
<1>1. \A v \in Workers \ {w} :
        proc'[v] = proc[v] /\ runtime'[v] = runtime[v] /\ inbox'[v] = inbox[v]
  BY DEF Exit, TypeOK
<1>2. proc'[w] = "exited" /\ runtime'[w] = Fresh /\ inbox'[w] = <<>>
  BY DEF Exit, TypeOK
<1>3. WorkOf(project[w[1]], Fresh, <<>>)
  <2>1. Fresh.active.gen = 0 /\ Fresh.committed.gen = 0
    BY DEF Fresh, NoAnalysis
  <2> QED BY <2>1, BoxWithout, NoAnalyses DEF WorkOf, StateSent, Sent
<1>4. Known(FALSE, Fresh, outbox'[w]) /\ \A v \in Workers \ {w} : outbox'[v] = outbox[v]
  <2>1. CASE UNCHANGED outbox
    BY <2>1 DEF CommitInv, CommitsKnown, Known
  <2>2. CASE \E m : m.tag # "Commit" /\ PostToHost(w, <<m>>)
    <3>1. PICK m : m.tag # "Commit" /\ PostToHost(w, <<m>>)
      BY <2>2
    <3> QED BY <3>1, FreshType, PostKnown DEF CommitInv
  <2> QED BY <2>1, <2>2
<1>5. ~Alive(w)'
  BY <1>2 DEF Alive
<1> QED BY <1>1, <1>2, <1>3, <1>4, <1>5, ThreadKeeps

LEMMA WorkerAcceptsCommits ==
  ASSUME TypeInv, TypeOK', CommitInv, NEW w \in Workers, WorkerAccepts(w)
  PROVE  CommitInv'
<1> USE DEF TypeInv
<1> DEFINE m == Head(inbox[w])
<1> DEFINE step == Accepted(runtime[w], m, disk)
<1>1. /\ m \in HostMessage /\ inbox[w] \in Seq(HostMessage) /\ inbox[w] # <<>>
      /\ runtime[w] \in RuntimeState /\ proc[w] = "live" /\ ThreadStep
  BY TailFacts DEF WorkerAccepts, TypeOK
<1>2. /\ step.state \in RuntimeState /\ step.state.committed = runtime[w].committed
      /\ IF m.tag = "Analyze"
         THEN step.state.active.gen = m.gen /\ step.state.active.sources = m.sources
         ELSE step.state.active = runtime[w].active \/ step.state.active = NoAnalysis
      /\ step.replies = <<>> \/ \E r : step.replies = <<r>> /\ r.tag # "Commit"
  BY <1>1, AcceptedType, AcceptedFacts DEF TypeOK
<1>3. /\ PostToHost(w, step.replies)
      /\ IF m.tag = "Shutdown" THEN Exit(w)
         ELSE /\ runtime' = [runtime EXCEPT ![w] = step.state]
              /\ inbox' = [inbox EXCEPT ![w] = Tail(inbox[w])]
              /\ UNCHANGED proc
  BY DEF WorkerAccepts
<1>4. CASE m.tag = "Shutdown"
  <2>1. step.replies = <<Stopped>> /\ Stopped.tag # "Commit"
    BY <1>4 DEF Accepted, Step, Stopped
  <2> QED BY <1>1, <1>3, <1>4, <2>1, ExitCommits
<1>5. CASE m.tag # "Shutdown"
  <2> HIDE DEF step
  <2>1. /\ runtime'[w] = step.state /\ inbox'[w] = Tail(inbox[w]) /\ proc'[w] = "live"
        /\ \A v \in Workers \ {w} : proc'[v] = proc[v] /\ runtime'[v] = runtime[v]
                                     /\ inbox'[v] = inbox[v]
    BY <1>1, <1>3, <1>5 DEF TypeOK
  <2>2. WorkOf(project[w[1]], step.state, Tail(inbox[w]))
    BY <1>1, <1>2, WorkAccepts DEF CommitInv, WorkOrdered
  <2>3. runtime[w].committed.gen <= step.state.committed.gen
    BY <1>1, <1>2 DEF RuntimeState, AnalysisRecord
  <2>4. /\ Known(TRUE, step.state, outbox'[w])
        /\ \A v \in Workers \ {w} : outbox'[v] = outbox[v]
    BY <1>1, <1>2, <1>3, <2>3, PostKnown DEF CommitInv
  <2>5. Alive(w)
    BY <1>1 DEF Alive
  <2> QED BY <1>1, <1>2, <2>1, <2>2, <2>4, <2>5, ThreadKeeps
<1> QED BY <1>4, <1>5

\* The running analysis or a query ends: a project with a generation to come is not
\* committed.
LEMMA WorkerRunsCommits ==
  ASSUME TypeInv, CommitInv, NEW w \in Workers, NEW step, WorkerRuns(w, step),
         proc[w] = "live", step.state \in RuntimeState,
         LET s == runtime[w]
             t == step.state
         IN \/ /\ t.committed = s.committed
               /\ t.active = s.active \/ t.active = NoAnalysis
               /\ step.replies = <<>> \/ \E r : step.replies = <<r>> /\ r.tag # "Commit"
            \/ /\ t.committed = s.active /\ t.active = NoAnalysis /\ s.active.gen # 0
               /\ step.replies = <<Commit(s.active.gen)>>
  PROVE  CommitInv'
<1> USE DEF TypeInv
<1> DEFINE s == runtime[w]
<1> DEFINE t == step.state
<1> DEFINE p == project[w[1]]
<1>1. /\ s \in RuntimeState /\ inbox[w] \in Seq(HostMessage) /\ WorkOf(p, s, inbox[w])
      /\ p \in ProjectRecord /\ w[1] \in Contexts
      /\ s.active.gen \in Nat /\ s.committed.gen \in Nat
  BY DEF TypeOK, CommitInv, WorkOrdered, Workers, RuntimeState, AnalysisRecord
<1>2. /\ PostToHost(w, step.replies) /\ ThreadStep
      /\ runtime'[w] = t /\ inbox'[w] = inbox[w] /\ proc'[w] = "live"
      /\ \A v \in Workers \ {w} : proc'[v] = proc[v] /\ runtime'[v] = runtime[v]
                                   /\ inbox'[v] = inbox[v]
  BY DEF WorkerRuns, TypeOK
<1>3. WorkOf(p, t, inbox[w])
  BY <1>1, WorkEnds
<1>4. s.committed.gen <= t.committed.gen
  BY <1>1 DEF WorkOf, StateSent
<1>5. \/ step.replies = <<>>
      \/ \E m : step.replies = <<m>> /\ (m.tag = "Commit" =>
                  m.gen # 0 /\ m.gen <= t.committed.gen)
  <2>1. /\ s.active.gen # 0 => Commit(s.active.gen).gen # 0
        /\ t.committed = s.active => Commit(s.active.gen).gen <= t.committed.gen
    BY <1>1 DEF Commit
  <2> QED BY <2>1
<1>6. Known(TRUE, t, outbox'[w]) /\ \A v \in Workers \ {w} : outbox'[v] = outbox[v]
  <2>1. TypeOK /\ CommitsKnown /\ PostToHost(w, step.replies) /\ t \in RuntimeState
    BY <1>2 DEF CommitInv
  <2>2. proc[w] # "exited" /\ runtime[w].committed.gen <= t.committed.gen
    BY <1>4
  <2>3. \/ step.replies = <<>>
        \/ \E m : step.replies = <<m>> /\ (m.tag = "Commit" =>
                    m.gen # 0 /\ (TRUE => m.gen <= t.committed.gen))
    BY <1>5
  <2> HIDE DEF s, t, p, TypeInv
  <2> QED BY <2>1, <2>2, <2>3, PostKnown
<1>7. Alive(w) /\ (t.committed = s.committed \/ ~(p.state = "Committed" /\ InSlot(w)))
  <2>1. Alive(w)
    BY DEF Alive
  <2>2. ASSUME s.active.gen # 0, p.state = "Committed", InSlot(w) PROVE FALSE
    <3>1. SlotOf(w[1]) = w /\ p.slot # 0
      BY <2>2 DEF InSlot, SlotOf, Workers, Epochs
    <3>2. s.committed.gen = p.gen
      BY <1>1, <2>1, <2>2, <3>1 DEF CommitInv, CommitHolds
    <3>3. s.active.gen <= p.gen /\ s.active.gen > s.committed.gen /\ p.gen \in Nat
      BY <1>1, <2>2 DEF WorkOf, StateSent, Sent, ProjectRecord
    <3> QED BY <1>1, <3>2, <3>3
  <2> QED BY <2>1, <2>2
<1>8. WorkOf(project[w[1]], runtime'[w], inbox'[w])
  BY <1>2, <1>3
<1>9. Known(proc'[w] # "exited", runtime'[w], outbox'[w])
  <2>1. (proc'[w] # "exited") = TRUE
    BY <1>2
  <2> QED BY <1>2, <1>6, <2>1
<1>10. /\ Alive(w) /\ proc[w] # "unborn"
       /\ \/ runtime'[w].committed = runtime[w].committed
          \/ ~(project[w[1]].state = "Committed" /\ InSlot(w))
  BY <1>2, <1>7
<1>11. \A v \in Workers \ {w} :
         /\ proc'[v] = proc[v] /\ runtime'[v] = runtime[v]
         /\ inbox'[v] = inbox[v] /\ outbox'[v] = outbox[v]
  BY <1>2, <1>6
<1> HIDE DEF s, t, p
<1> QED BY <1>2, <1>8, <1>9, <1>10, <1>11, ThreadKeeps

\* The ends of an analysis and of a query, in the worker.
LEMMA WorkerEndsCommits ==
  ASSUME TypeInv, CommitInv, NEW w \in Workers,
         \/ WorkerCommits(w) \/ WorkerDefects(w) \/ WorkerAnswers(w) \/ WorkerForgetsQuery(w)
  PROVE  CommitInv'
<1>1. runtime[w] \in RuntimeState
  BY DEF TypeInv, TypeOK
<1>2. CASE WorkerCommits(w)
  <2>1. /\ proc[w] = "live" /\ runtime[w].active.gen # 0
        /\ WorkerRuns(w, Completed(runtime[w]))
    BY <1>2 DEF WorkerCommits
  <2>2. /\ Completed(runtime[w]).state \in RuntimeState
        /\ Completed(runtime[w]).state.committed = runtime[w].active
        /\ Completed(runtime[w]).state.active = NoAnalysis
        /\ Completed(runtime[w]).replies = <<Commit(runtime[w].active.gen)>>
    BY <1>1, EndedType DEF Completed, Step, RuntimeState
  <2> QED BY <2>1, <2>2, WorkerRunsCommits
<1>3. CASE WorkerDefects(w)
  <2>1. proc[w] = "live" /\ WorkerRuns(w, Defected(runtime[w]))
    BY <1>3 DEF WorkerDefects
  <2>2. /\ Defected(runtime[w]).state \in RuntimeState
        /\ Defected(runtime[w]).state.committed = runtime[w].committed
        /\ Defected(runtime[w]).state.active = NoAnalysis
        /\ Defected(runtime[w]).replies = <<Failure(runtime[w].active.gen)>>
    BY <1>1, EndedType DEF Defected, Step, RuntimeState
  <2>3. Failure(runtime[w].active.gen).tag # "Commit"
    BY DEF Failure
  <2> QED BY <2>1, <2>2, <2>3, WorkerRunsCommits
<1>4. CASE WorkerAnswers(w)
  <2>1. PICK q \in runtime[w].queries : WorkerRuns(w, Answered(runtime[w], q))
    BY <1>4 DEF WorkerAnswers
  <2>2. /\ Answered(runtime[w], q).state \in RuntimeState
        /\ Answered(runtime[w], q).state.committed = runtime[w].committed
        /\ Answered(runtime[w], q).state.active = runtime[w].active
        /\ Answered(runtime[w], q).replies = <<Answer(q)>>
    BY <1>1, AnsweredType DEF Answered, Step, RuntimeState
  <2>3. Answer(q).tag # "Commit" /\ proc[w] = "live"
    BY <1>4 DEF Answer, WorkerAnswers
  <2> QED BY <2>1, <2>2, <2>3, WorkerRunsCommits
<1>5. CASE WorkerForgetsQuery(w)
  <2>1. PICK q \in runtime[w].queries : WorkerRuns(w, QueryDefected(runtime[w], q))
    BY <1>5 DEF WorkerForgetsQuery
  <2>2. /\ QueryDefected(runtime[w], q).state \in RuntimeState
        /\ QueryDefected(runtime[w], q).state.committed = runtime[w].committed
        /\ QueryDefected(runtime[w], q).state.active = runtime[w].active
        /\ QueryDefected(runtime[w], q).replies = <<>>
    BY <1>1, AnsweredType DEF QueryDefected, Step, RuntimeState
  <2>3. proc[w] = "live"
    BY <1>5 DEF WorkerForgetsQuery
  <2> QED BY <2>1, <2>2, <2>3, WorkerRunsCommits
<1> QED BY <1>2, <1>3, <1>4, <1>5

\* A thread that dies, hangs or is terminated.
LEMMA WorkerStopsCommits ==
  ASSUME TypeOK, CommitInv, NEW w \in Workers, WorkerDies(w) \/ WorkerHangs(w) \/ Terminate(w)
  PROVE  CommitInv'
<1>1. ThreadStep /\ proc[w] # "unborn"
  BY DEF WorkerDies, WorkerHangs, Terminate, Alive
<1>2. CASE WorkerDies(w) \/ Terminate(w)
  <2>1. Exit(w) /\ (UNCHANGED outbox \/ PostToHost(w, <<Died>>)) /\ Died.tag # "Commit"
    BY <1>2 DEF WorkerDies, Terminate, Died
  <2> QED BY <1>1, <2>1, ExitCommits
<1>3. CASE WorkerHangs(w)
  <2>1. /\ proc[w] = "live" /\ proc'[w] = "hung" /\ UNCHANGED <<inbox, outbox, runtime>>
        /\ \A v \in Workers \ {w} : proc'[v] = proc[v]
    BY <1>3 DEF WorkerHangs, TypeOK
  <2>2. (proc'[w] # "exited") = (proc[w] # "exited")
    BY <2>1
  <2>3. /\ WorkOf(project[w[1]], runtime'[w], inbox'[w])
        /\ Known(proc'[w] # "exited", runtime'[w], outbox'[w])
    BY <2>1, <2>2 DEF CommitInv, WorkOrdered, CommitsKnown
  <2>4. Alive(w)
    BY <2>1 DEF Alive
  <2> QED BY <1>1, <2>1, <2>3, <2>4, ThreadKeeps
<1> QED BY <1>2, <1>3

-----------------------------------------------------------------------------
\* Shutdown.

LEMMA ShutdownBeginsCommits ==
  ASSUME TypeInv, TypeOK', CommitInv, ShutdownBegins
  PROVE  CommitInv'
<1> USE DEF TypeInv
<1>1. /\ UNCHANGED <<proc, runtime, outbox, current, created, sup>> /\ ~Running'
  BY DEF ShutdownBegins, threadVars, fiberVars, Running
<1>2. OutboxesShrink
  BY <1>1, NoneQuiet
<1>3. CASE current = 0
  <2>1. UNCHANGED <<project, inbox>>
    BY <1>3 DEF ShutdownBegins
  <2> QED BY <1>1, <1>2, <2>1, SameContexts, NoneQuiet, FrameCommits
<1>4. CASE current # 0
  <2> DEFINE p == project[current]
  <2> DEFINE closed == [Retired(p) EXCEPT !.state = "Closed"]
  <2>1. /\ project' = [project EXCEPT ![current] = closed] /\ QuietInboxes
    BY <1>4, DismissQuiet DEF ShutdownBegins
  <2>2. current \in Contexts /\ p \in ProjectRecord
    BY <1>4 DEF TypeOK
  <2>3. /\ Retired(p) \in ProjectRecord /\ Kept(p, Retired(p))
        /\ Retired(p).pending = p.pending /\ Retired(p).docs = p.docs
    BY <2>2, RetiredType, RetiredKept DEF Retired, ProjectRecord
  <2>4. /\ Held(p, closed) /\ closed.pending = p.pending /\ closed.docs = p.docs
    BY <2>2, <2>3 DEF Held, SentKept, Kept, ProjectRecord, Retired
  <2> HIDE DEF closed
  <2>5. \A c \in Contexts :
          /\ Held(project[c], project'[c]) /\ project'[c].pending = project[c].pending
          /\ project'[c].docs = project[c].docs /\ (c # current => project'[c] = project[c])
    BY <2>1, <2>2, <2>4, KeptItself DEF TypeOK, Kept
  <2>6. CurrentInv'
    BY <1>1, <2>2, <2>5 DEF CommitInv, CurrentInv, HasDocuments
  <2> QED BY <1>1, <1>2, <2>1, <2>5, <2>6, HostKeeps
<1> QED BY <1>3, <1>4

LEMMA ShutdownEndsCommits ==
  ASSUME TypeInv, TypeOK', CommitInv, ShutdownEnds
  PROVE  CommitInv'
<1> USE DEF TypeInv
<1>1. /\ UNCHANGED <<proc, runtime, inbox, project, created>> /\ current' = 0 /\ ~Running'
      /\ sup'.pc # "ensuring" /\ outbox' = [w \in Workers |-> <<>>]
  BY DEF ShutdownEnds, Running, Supervisor
<1>2. QuietInboxes /\ OutboxesShrink
  BY <1>1, NoneQuiet DEF OutboxesShrink
<1>3. \A c \in Contexts : Held(project[c], project'[c])
  BY <1>1, SameContexts DEF Kept
<1>4. CurrentInv'
  BY <1>1 DEF CommitInv, CurrentInv, TypeOK, Contexts
<1> QED BY <1>1, <1>2, <1>3, <1>4, HostKeeps

-----------------------------------------------------------------------------
\* Every behaviour.

LEMMA InitCommits ==
  ASSUME Init
  PROVE  CommitInv
<1>1. /\ \A c \in Contexts : project[c] = NewProject
      /\ \A w \in Workers :
           /\ runtime[w] = Fresh /\ inbox[w] = <<>> /\ outbox[w] = <<>>
           /\ proc[w] = "unborn" /\ w[1] \in Contexts
      /\ current = 0 /\ created = 0 /\ sup.pc = "idle"
  BY DEF Init, Workers, Supervisor
<1>2. Fresh.active.gen = 0 /\ Fresh.committed.gen = 0
  BY DEF Fresh, NoAnalysis
<1>3. WorkOrdered
  BY <1>1, <1>2, BoxWithout, NoAnalyses DEF WorkOrdered, WorkOf, StateSent, Sent
<1>4. CommitsKnown
  BY <1>1 DEF CommitsKnown, Known
<1>5. ContextsMatch /\ EnsuredIsPending /\ CurrentInv
  BY <1>1 DEF ContextsMatch, EnsuredIsPending, CurrentInv, GenerationsMatch, NewProject
<1>6. EpochsInOrder /\ CommitHolds
  BY <1>1 DEF EpochsInOrder, CommitHolds, NewProject
<1> QED BY <1>3, <1>4, <1>5, <1>6 DEF CommitInv

LEMMA StutterCommits ==
  ASSUME TypeInv, TypeOK', CommitInv, UNCHANGED vars
  PROVE  CommitInv'
<1>1. UNCHANGED <<proc, runtime, inbox, outbox, project, current, created, sup, engine>>
  BY DEF vars, threadVars, projectVars, fiberVars
<1> QED BY <1>1, SameContexts, NoneQuiet, FrameCommits DEF TypeInv, Running

LEMMA StepCommits ==
  ASSUME TypeInv, TypeOK', CommitInv, Next
  PROVE  CommitInv'
<1> USE DEF TypeInv
<1>1. CASE Client
  BY <1>1, SourceEventCommits, RequestCommits, ShutdownBeginsCommits DEF Client
<1>2. CASE SupervisorNext \/ SpawnFails
  BY <1>2, TakeSignalCommits, FinishRetirementsCommits, DiscoveredCommits, DebounceSpawnCommits,
     SupervisorCommits DEF SupervisorNext
<1>3. CASE \E r \in Requests : Resume(r)
  BY <1>3, RequestCommits
<1>4. CASE \E w \in Workers : ListenerNext(w) \/ FinishLease(w)
  BY <1>4, ListenerCommits, FinishCommits
<1>5. CASE \E w \in Workers : ThreadNext(w)
  BY <1>5, WorkerAcceptsCommits, WorkerEndsCommits, WorkerStopsCommits DEF ThreadNext
<1>6. CASE \E c \in Contexts : NoProgress(c) \/ LeaseExpires(c)
  BY <1>6, WatchdogCommits
<1>7. CASE \E f \in failing : FinishFailure(f)
  BY <1>7, FinishCommits
<1>8. CASE Faulty
  BY <1>8, SupervisorCommits, WatchdogCommits, WorkerEndsCommits, WorkerStopsCommits DEF Faulty
<1>9. CASE ShutdownEnds
  BY <1>9, ShutdownEndsCommits
<1> QED BY <1>1, <1>2, <1>3, <1>4, <1>5, <1>6, <1>7, <1>8, <1>9 DEF Next

\* Whenever the client sees a project as committed, nothing is pending for it, no
\* analysis is active, and the basis of its running worker is of its newest
\* generation and of the texts the project holds: a commit delayed behind an
\* edit, a supersede, a failed worker or a replacement never stands for work the
\* project did not finish (Commit of handleWorkerMessage, and every handler that
\* schedules, supersedes or retires).
THEOREM CommittedWork == Spec => []CommittedMatchesWorker
<1>1. Init => CommitInv
  BY InitCommits
<1>2. TypeInv /\ TypeInv' /\ CommitInv /\ [Next]_vars => CommitInv'
  BY StepCommits, StutterCommits DEF TypeInv
<1>3. TypeInv /\ CommitInv => CommittedMatchesWorker
  BY CommitInvSuffices DEF TypeInv
<1> QED BY <1>1, <1>2, <1>3, TypesKept, PTL DEF Spec

=============================================================================
