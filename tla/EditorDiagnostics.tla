------------------------- MODULE EditorDiagnostics -------------------------
(***************************************************************************)
(* The diagnostics of the editor beside its session: pulls, the result     *)
(* identifiers they are compared by, the conversion of a report, and the   *)
(* gate that a report passes before and after its conversion.              *)
(***************************************************************************)
EXTENDS EditorSession

CONSTANTS
    MaxRevision,    \* bound: revisions of what the documents depend on
    InOrder,        \* whether conversions of one document end in order
    Moves,          \* whether documents are discovered in other projects
    None

ASSUME DiagnosticsAssumption ==
    MaxRevision \in Nat /\ InOrder \in BOOLEAN /\ Moves \in BOOLEAN

VARIABLES
    panel,          \* the generation whose diagnostics are started, 0 for none
    inflight,       \* state.request: the pull of a document that is not cancelled
    resultId,       \* state.resultId: the report the next pull is compared to
    converting,     \* reports that are being converted
    shown,          \* the diagnostic collection
    retry,          \* documents whose pull is triggered again by a timer
    revision,       \* the committed revision of what the documents depend on
    numbered,       \* the generation of their project context in the server
    refresh         \* whether a refresh request is on its way

diagnosticsVars ==
    <<panel, inflight, resultId, converting, shown, retry, revision, numbered, refresh>>
vars == <<sessionVars, diagnosticsVars>>

Nowhere == [d \in Doc |-> None]
Served == {d \in Doc : ledger[d].version # 0}

(* A report, and the identifier it is known by: the first worker of every *)
(* context has the same epoch, and every context counts from one.         *)
Report(d) == [of |-> ledger[d], revision |-> revision, numbered |-> numbered]
Identifier(report) == <<report.numbered, report.of.version>>

-----------------------------------------------------------------------------
DiagnosticsInit ==
    /\ panel = 0
    /\ inflight = Nowhere /\ resultId = Nowhere /\ shown = Nowhere
    /\ converting = [d \in Doc |-> <<>>]
    /\ retry = {} /\ revision = 0 /\ numbered = 0 /\ refresh = FALSE

(* A new pull of a document cancels the one before. *)
Pull(docs) ==
    inflight' = [d \in Doc |->
                   IF d \in docs
                   THEN [version |-> document[d].version, previous |-> resultId[d]]
                   ELSE inflight[d]]

\* Faulty variant of Clear: the next pull still names the cleared report.
ClearKeepingResultId(d) ==
    /\ inflight' = [inflight EXCEPT ![d] = None]
    /\ shown' = [shown EXCEPT ![d] = None]
    /\ UNCHANGED <<panel, resultId, converting, retry, revision, refresh>>

\* clear: the pull is cancelled, the state and the diagnostics are deleted.
Clear(d) ==
    /\ inflight' = [inflight EXCEPT ![d] = None]
    /\ resultId' = [resultId EXCEPT ![d] = None]
    /\ shown' = [shown EXCEPT ![d] = None]
    /\ UNCHANGED <<panel, converting, retry, revision, refresh>>

(* Pulls, conversions and timers that are under way return at once. *)
Dispose ==
    /\ panel' = 0
    /\ inflight' = Nowhere /\ resultId' = Nowhere /\ shown' = Nowhere
    /\ converting' = [d \in Doc |-> <<>>]
    /\ retry' = {} /\ numbered' = 0 /\ refresh' = FALSE
    /\ UNCHANGED revision

-----------------------------------------------------------------------------
(* A notification that was sent: a change pulls, a close clears.  A change *)
(* of a document that is closed by now pulls for nothing: the close that   *)
(* follows cancels it.                                                     *)
Observe(d) ==
    LET note == Head(unsent[d]) IN
    /\ numbered' = IF note.kind = "close" /\ Served \subseteq {d} THEN 0 ELSE numbered + 1
    /\ \/ /\ note.kind = "open"
          /\ UNCHANGED <<panel, inflight, resultId, converting, shown, retry, revision, refresh>>
       \/ /\ note.kind = "change"
          /\ Pull({d} \cap (IF note.of.opening = document[d].opening THEN OpenDocs ELSE {}))
          /\ UNCHANGED <<panel, resultId, converting, shown, retry, revision, refresh>>
       \/ note.kind = "close" /\ Clear(d)

StartDiagnostics ==
    /\ panel' = generation
    /\ Pull(OpenDocs)
    /\ UNCHANGED <<resultId, converting, shown, retry, revision, numbered, refresh>>

Serving == connected /\ process[generation] = "running"

(* The report of a pull.  It is compared to the report the pull named, and *)
(* its identifier is kept before it is converted.                          *)
Reported(d) ==
    LET pull == inflight[d] IN
    /\ Serving /\ unsent[d] = <<>>
    /\ pull # None
    /\ inflight' = [inflight EXCEPT ![d] = None]
    /\ IF ~IsCurrent(panel, d, pull.version)
       THEN UNCHANGED <<resultId, converting>>
       ELSE /\ resultId' = [resultId EXCEPT ![d] = Report(d)]
            /\ converting' = IF /\ pull.previous # None
                                /\ Identifier(pull.previous) = Identifier(Report(d))
                             THEN converting
                             ELSE [converting EXCEPT ![d] =
                                     Append(@, [version |-> pull.version, report |-> Report(d)])]
    /\ UNCHANGED <<panel, shown, retry, revision, numbered, refresh, sessionVars>>

\* Faulty variant of Converted: the gate is not asked again.
ConvertedUngated(d, i) ==
    /\ InOrder => i = 1
    /\ converting' = [converting EXCEPT ![d] = SubSeq(@, 1, i - 1) \o SubSeq(@, i + 1, Len(@))]
    /\ shown' = [shown EXCEPT ![d] = converting[d][i].report]
    /\ UNCHANGED <<panel, inflight, resultId, retry, revision, numbered, refresh, sessionVars>>

\* The conversion ends, and the report is shown unless the gate closed.
Converted(d, i) ==
    LET end == converting[d][i] IN
    /\ InOrder => i = 1
    /\ converting' = [converting EXCEPT ![d] = SubSeq(@, 1, i - 1) \o SubSeq(@, i + 1, Len(@))]
    /\ shown' = IF IsCurrent(panel, d, end.version) THEN [shown EXCEPT ![d] = end.report] ELSE shown
    /\ UNCHANGED <<panel, inflight, resultId, retry, revision, numbered, refresh, sessionVars>>

\* Faulty variant of Deferred: the pull is not triggered again.
DeferredForGood(d) ==
    /\ Serving /\ unsent[d] = <<>>
    /\ inflight[d] # None
    /\ faults < MaxFaults /\ faults' = faults + 1
    /\ inflight' = [inflight EXCEPT ![d] = None]
    /\ UNCHANGED <<panel, resultId, converting, shown, retry, revision, numbered, refresh, document,
                   unsent, ledger, editorVersions, status, generation, nextGeneration, process, exited,
                   connected, signal, command, waiting, restarts>>

(* The server ends a pull without a report, and asks for another one. *)
Deferred(d) ==
    /\ Serving /\ unsent[d] = <<>>
    /\ inflight[d] # None
    /\ faults < MaxFaults /\ faults' = faults + 1
    /\ inflight' = [inflight EXCEPT ![d] = None]
    /\ retry' = IF IsCurrent(panel, d, inflight[d].version) THEN retry \cup {d} ELSE retry
    /\ UNCHANGED <<panel, resultId, converting, shown, revision, numbered, refresh, document, unsent,
                   ledger, editorVersions, status, generation, nextGeneration, process, exited, connected,
                   signal, command, waiting, restarts>>

\* Faulty variant of Retry: the document is not looked up again.
RetryUnlooked(d) ==
    /\ d \in retry
    /\ retry' = retry \ {d}
    /\ Pull(IF IsCurrent(panel, d, document[d].version) THEN {d} ELSE {})
    /\ UNCHANGED <<panel, resultId, converting, shown, revision, numbered, refresh, sessionVars>>

Retry(d) ==
    /\ d \in retry
    /\ retry' = retry \ {d}
    /\ Pull(IF d \in OpenDocs /\ IsCurrent(panel, d, document[d].version) THEN {d} ELSE {})
    /\ UNCHANGED <<panel, resultId, converting, shown, revision, numbered, refresh, sessionVars>>

(* The server commits a change of a dependency, or of the project that it  *)
(* discovers the documents in, and asks for a refresh.                     *)
Revise ==
    /\ revision < MaxRevision
    /\ revision' = revision + 1
    /\ refresh' = connected
    /\ numbered' \in IF Served = {} THEN {0} ELSE {numbered + 1} \cup (IF Moves THEN {1} ELSE {})
    /\ UNCHANGED <<panel, inflight, resultId, converting, shown, retry, sessionVars>>

Refresh ==
    /\ refresh /\ Serving
    /\ refresh' = FALSE
    /\ Pull(OpenDocs)
    /\ UNCHANGED <<panel, resultId, converting, shown, retry, revision, numbered, sessionVars>>

-----------------------------------------------------------------------------
Init == SessionInit /\ DiagnosticsInit

DisposedIfRetired == IF command'.at = "stopping" THEN Dispose ELSE UNCHANGED diagnosticsVars

Edits ==
    \E d \in Doc :
        \/ OpenDoc(d) /\ UNCHANGED diagnosticsVars
        \/ (DocumentChanged(d) \/ DocumentClosed(d)) /\ Clear(d) /\ UNCHANGED numbered

Client ==
    \/ \E d \in Doc : Send(d) /\ Observe(d)
    \/ \E d \in Doc : Reported(d) \/ Retry(d) \/ \E i \in DOMAIN converting[d] : Converted(d, i)
    \/ Refresh

Lifecycle ==
    \/ Begin /\ DisposedIfRetired
    \/ ClientStarted /\ StartDiagnostics
    \/ StartFails /\ DisposedIfRetired
    \/ (Constructed \/ Answered \/ Woken \/ ExitAcknowledged \/ Terminate) /\ UNCHANGED diagnosticsVars

Surroundings ==
    \/ (\E kind \in {"restart", "stop"} : Command(kind)) /\ UNCHANGED diagnosticsVars
    \/ (ConstructRefused \/ Quits \/ \E g \in Generation : Faulty(g)) /\ UNCHANGED diagnosticsVars
    \/ (\E g \in Generation : ExitEvent(g)) /\ UNCHANGED diagnosticsVars
    \/ Revise \/ \E d \in Doc : Deferred(d)

Next == Edits \/ Client \/ Lifecycle \/ Surroundings

Spec == Init /\ [][Next]_vars

(* Fairness: the extension's callbacks and timers run, a server that runs   *)
(* answers, and the operating system reports the exit of a process.  The   *)
(* editor, the user, faults and clean exits are not fair.                  *)
FairSpec ==
    /\ Spec
    /\ WF_vars(Lifecycle)
    /\ \A g \in Generation : WF_vars(ExitEvent(g) /\ UNCHANGED diagnosticsVars)
    /\ \A d \in Doc :
          /\ WF_vars(Send(d) /\ Observe(d))
          /\ WF_vars(Reported(d))
          /\ WF_vars(Retry(d))
          /\ WF_vars(\E i \in DOMAIN converting[d] : Converted(d, i))
    /\ WF_vars(Refresh)

-----------------------------------------------------------------------------
DocState == [opening : 0 .. MaxOpenings + 1, version : 0 .. MaxVersion]
Reports == [of : DocState, revision : 0 .. MaxRevision, numbered : Nat]

(* Types of the session, the processes, the documents and the pulls. *)
TypeOK ==
    /\ document \in [Doc -> DocState] /\ ledger \in [Doc -> DocState]
    /\ unsent \in [Doc -> Seq([kind : {"open", "change", "close"}, of : DocState])]
    /\ editorVersions \in [Doc -> 0 .. MaxVersion]
    /\ status \in {"Absent", "Starting", "Ready", "Retiring", "Unavailable"}
    /\ generation \in {0} \cup Generation /\ nextGeneration \in {0} \cup Generation
    /\ process \in [Generation -> {"none", "running", "wedged", "dead"}]
    /\ exited \subseteq Generation
    /\ connected \in BOOLEAN /\ signal \in BOOLEAN /\ refresh \in BOOLEAN
    /\ command \in
          [kind : {"none", "start", "restart", "stop"}, failed : BOOLEAN,
           expected : [Doc -> 0 .. MaxVersion],
           at : {"idle", "constructing", "client", "asking", "waiting", "stopping", "terminating"}]
    /\ waiting \in Seq({"start", "restart", "stop"})
    /\ restarts \in 0 .. MaxRestarts + 1 /\ faults \in 0 .. MaxFaults
    /\ panel \in {0} \cup Generation
    /\ inflight \in [Doc -> {None} \cup [version : 1 .. MaxVersion, previous : {None} \cup Reports]]
    /\ resultId \in [Doc -> {None} \cup Reports] /\ shown \in [Doc -> {None} \cup Reports]
    /\ converting \in [Doc -> Seq([version : 1 .. MaxVersion, report : Reports])]
    /\ retry \subseteq Doc /\ revision \in 0 .. MaxRevision /\ numbered \in Nat

(* No server outlives its generation, and none is started before the one    *)
(* before it is dead: whatever crashes, hangs, fails to start or is         *)
(* restarted, a living process belongs to the generation of the session.    *)
NoServerOverlap ==
    \A g \in Generation :
        process[g] \in {"running", "wedged"} =>
            generation = g /\ status \in {"Starting", "Ready", "Retiring"}

(* The editor never shows a report of another version than the one the      *)
(* document has now, of a closed document, or of a generation that is being *)
(* retired, although reports and conversions end late.                      *)
ShownIsOfTheVersion ==
    \A d \in Doc :
        shown[d] # None =>
            /\ shown[d].of.version = document[d].version /\ document[d].version # 0
            /\ status \in {"Starting", "Ready"} /\ panel = generation

(* The report whose identifier the next pull names is the one that is shown *)
(* once no conversion is under way: otherwise the answer `unchanged' would  *)
(* leave an older report on display.                                        *)
ResultIsShown ==
    \A d \in Doc :
        resultId[d] # None /\ converting[d] = <<>> => shown[d] = resultId[d]

(* The one step of a command without a deadline: client.start awaits the   *)
(* answer to `initialize' of a server that hangs (EditorSession.mts:249).   *)
StartHangs == command.at = "client" /\ process[generation] = "wedged"

(* Every command ends, also when the server dies at any step of it, or     *)
(* hangs at any step but this one: a server that hangs before it answers    *)
(* `initialize' blocks the command, and the restart that waits behind it.   *)
CommandsEnd == waiting # <<>> ~> (waiting = <<>> /\ command = Free) \/ StartHangs

(* A document that was edited and then stays as it is, in a session that   *)
(* stays ready with a server that lives, ends up with its newest report on  *)
(* display, whatever restarted, was retried or refreshed meanwhile.         *)
Settled(d) ==
    /\ status = "Ready" /\ process[generation] = "running"
    /\ document[d].version # 0
Displayed(d) ==
    shown[d] # None /\ shown[d].of = document[d] /\ shown[d].revision = revision

EditedDocumentsAreReported ==
    \A d \in Doc : <>[](Settled(d) /\ document[d].version > 1) => <>[]Displayed(d)

(* The same of every open document: the refresh pulls all of them. *)
OpenDocumentsAreReported == \A d \in Doc : <>[]Settled(d) => <>[]Displayed(d)
=============================================================================
