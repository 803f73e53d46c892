---------------------------- MODULE EditorProofs ----------------------------
(***************************************************************************)
(* Proofs about the editor's session and its diagnostics, for any          *)
(* documents, commands, faults and bounds.                                 *)
(***************************************************************************)
EXTENDS EditorDiagnostics, SequenceTheorems, TLAPS

Text == [opening : 0 .. MaxOpenings + 1, version : 0 .. MaxVersion]
Notes == [kind : {"open", "change", "close"}, of : Text]
AnyReport == [of : Text, revision : 0 .. MaxRevision, numbered : Nat]
AnyPull == [version : 0 .. MaxVersion, previous : {None} \cup AnyReport]

(* A conversion is of a report of the version it was pulled for. *)
Conversions ==
    {c \in [version : 1 .. MaxVersion, report : AnyReport] : c.report.of.version = c.version}

Points ==
    {"idle", "constructing", "client", "asking", "waiting", "stopping", "terminating"}
Kinds == {"none", "start", "restart", "stop"}
Commands == [kind : Kinds, at : Points, failed : BOOLEAN, expected : [Doc -> 0 .. MaxVersion]]

SessionTypes ==
    /\ document \in [Doc -> Text] /\ ledger \in [Doc -> Text]
    /\ unsent \in [Doc -> Seq(Notes)]
    /\ editorVersions \in [Doc -> 0 .. MaxVersion]
    /\ process \in [Generation -> {"none", "running", "wedged", "dead"}]
    /\ generation \in Nat /\ nextGeneration \in Nat
    /\ command \in Commands
    /\ waiting \in Seq({"start", "restart", "stop"})

PanelTypes ==
    /\ inflight \in [Doc -> {None} \cup AnyPull]
    /\ resultId \in [Doc -> {None} \cup AnyReport] /\ shown \in [Doc -> {None} \cup AnyReport]
    /\ converting \in [Doc -> Seq(Conversions)]
    /\ revision \in 0 .. MaxRevision /\ numbered \in Nat

Types == SessionTypes /\ PanelTypes

(* The session names a generation as long as its process may live: from    *)
(* the construction until its exit was observed.                           *)
Starts == command.at \in {"client", "asking", "waiting"}
Stops == command.at \in {"stopping", "terminating"}

Named ==
    /\ status \in {"Starting", "Ready"} => generation # 0
    /\ command.at = "constructing" => generation = 0 /\ nextGeneration # 0
    /\ command.at = "idle" /\ generation # 0 => status \in {"Starting", "Ready"}
    /\ Starts => status = "Starting"
    /\ Stops => status = "Retiring"

(* Processes are constructed once, and an exit that was observed is final. *)
ConstructedOnce ==
    /\ generation <= nextGeneration
    /\ \A g \in exited \cap Generation : process[g] = "dead"
    /\ \A g \in Generation :
          g > nextGeneration \/ (command.at = "constructing" /\ g = nextGeneration)
              => process[g] = "none"

SessionInv == Named /\ ConstructedOnce /\ NoServerOverlap

(* What the server has accepted or is being sent is what the editor has. *)
Sent(d) ==
    IF unsent[d] = <<>> THEN ledger[d].version = document[d].version
    ELSE unsent[d][Len(unsent[d])].of = document[d]

Connection ==
    /\ connected => status \in {"Starting", "Ready"} /\ command.at \in {"idle", "asking", "waiting"}
    /\ connected => \A d \in Doc : Sent(d)
    /\ ~connected => ledger = NoLedger

(* A pull that is not cancelled, and a version the gate accepts, are of the *)
(* version the document has now.                                           *)
IsOfTheVersion(d) ==
    /\ inflight[d] # None => inflight[d].version = document[d].version /\ document[d].version # 0
    /\ editorVersions[d] # 0 => editorVersions[d] = document[d].version
PullsAreOfTheVersion == \A d \in Doc : IsOfTheVersion(d)

DiagnosticsInv == Connection /\ PullsAreOfTheVersion /\ ShownIsOfTheVersion

Inv == Types /\ SessionInv /\ DiagnosticsInv

-----------------------------------------------------------------------------
(* Types of the session. *)
LEMMA CommandTypes ==
    ASSUME SessionTypes
    PROVE  /\ Free \in Commands /\ Free.at = "idle"
           /\ \A p \in Points :
                 /\ At(p) \in Commands /\ At(p).at = p /\ At(p).kind = command.kind
                 /\ At(p).failed = command.failed
           /\ \A k \in Kinds : [Free EXCEPT !.kind = k, !.at = "constructing"] \in Commands
           /\ \A k \in Kinds : [Free EXCEPT !.kind = k, !.at = "constructing"].at = "constructing"
           /\ \A k \in Kinds, f \in BOOLEAN :
                 LET r == [Free EXCEPT !.kind = k, !.at = "stopping", !.failed = f] IN
                 r \in Commands /\ r.at = "stopping"
           /\ Versions \in [Doc -> 0 .. MaxVersion]
           /\ \A v \in [Doc -> 0 .. MaxVersion] :
                 LET r == [At("asking") EXCEPT !.expected = v] IN r \in Commands /\ r.at = "asking"
<1>1. NoVersions \in [Doc -> 0 .. MaxVersion] BY EditorAssumption DEF NoVersions
<1>2. Free \in Commands /\ Free.at = "idle" BY <1>1 DEF Free, Commands, Kinds, Points
<1>3. command \in Commands BY DEF SessionTypes
<1>4. \A p \in Points :
         /\ At(p) \in Commands /\ At(p).at = p /\ At(p).kind = command.kind
         /\ At(p).failed = command.failed
  BY <1>3 DEF At, Commands
<1>5. \A k \in Kinds :
         LET r == [Free EXCEPT !.kind = k, !.at = "constructing"] IN
         r \in Commands /\ r.at = "constructing"
  BY <1>1 DEF Free, Commands, Points, Kinds
<1>6. \A k \in Kinds, f \in BOOLEAN :
         LET r == [Free EXCEPT !.kind = k, !.at = "stopping", !.failed = f] IN
         r \in Commands /\ r.at = "stopping"
  BY <1>1 DEF Free, Commands, Points, Kinds
<1>7. Versions \in [Doc -> 0 .. MaxVersion] BY DEF Versions, SessionTypes, Text
<1>8. At("asking") \in Commands BY <1>4 DEF Points
<1>9. \A v \in [Doc -> 0 .. MaxVersion] :
         LET r == [At("asking") EXCEPT !.expected = v] IN r \in Commands /\ r.at = "asking"
  BY <1>4, <1>8 DEF Commands, Points
<1>10. QED BY <1>2, <1>4, <1>5, <1>6, <1>7, <1>9

LEMMA TypesInit == Init => Types
<1> SUFFICES ASSUME Init PROVE Types OBVIOUS
<1>1. Closed(0) \in Text /\ [opening |-> 1, version |-> 1] \in Text
  BY EditorAssumption DEF Closed, Text
<1>2. document \in [Doc -> Text] BY <1>1 DEF Init, SessionInit
<1>3. Versions \in [Doc -> 0 .. MaxVersion] BY <1>2 DEF Versions, Text
<1>4. waiting \in Seq({"start", "restart", "stop"}) BY DEF Init, SessionInit
<1>5. NoNotes \in [Doc -> Seq(Notes)] /\ NoLedger \in [Doc -> Text] BY <1>1 DEF NoNotes, NoLedger
<1>6. Free \in Commands BY EditorAssumption DEF Free, NoVersions, Commands, Kinds, Points
<1>7. SessionTypes BY <1>2, <1>3, <1>4, <1>5, <1>6 DEF Init, SessionInit, SessionTypes
<1>8. PanelTypes BY DiagnosticsAssumption DEF Init, DiagnosticsInit, PanelTypes, Nowhere
<1>9. QED BY <1>7, <1>8 DEF Types

LEMMA ToldType ==
    ASSUME SessionTypes, NEW d \in Doc, NEW kind \in {"open", "change", "close"},
           document' \in [Doc -> Text], Told(d, kind)
    PROVE  unsent' \in [Doc -> Seq(Notes)]
<1>1. Note(kind, d)' \in Notes BY DEF Note, Notes
<1>2. Append(unsent[d], Note(kind, d)') \in Seq(Notes) BY <1>1 DEF SessionTypes
<1>3. QED BY <1>2 DEF Told, SessionTypes

LEMMA EditTypes ==
    ASSUME SessionTypes, NEW d \in Doc, OpenDoc(d) \/ DocumentChanged(d) \/ DocumentClosed(d)
    PROVE  SessionTypes'
<1>1. /\ document[d] \in Text
      /\ document[d].opening \in Nat /\ document[d].version \in 0 .. MaxVersion
      /\ MaxVersion \in Nat \ {0} /\ MaxOpenings \in Nat
  BY EditorAssumption DEF SessionTypes, Text
<1>2. CASE OpenDoc(d)
  <2>1. [opening |-> document[d].opening + 1, version |-> 1] \in Text
    BY <1>1, <1>2 DEF OpenDoc, Text
  <2>2. document' \in [Doc -> Text] BY <1>2, <2>1 DEF OpenDoc, SessionTypes
  <2>3. unsent' \in [Doc -> Seq(Notes)] BY <1>2, <2>2, ToldType DEF OpenDoc
  <2>4. QED BY <1>2, <2>2, <2>3 DEF OpenDoc, SessionTypes, lifeVars
<1>3. CASE DocumentChanged(d)
  <2>1. [document[d] EXCEPT !.version = @ + 1] \in Text BY <1>1, <1>3 DEF DocumentChanged, Text
  <2>2. document' \in [Doc -> Text] BY <1>3, <2>1 DEF DocumentChanged, SessionTypes
  <2>3. unsent' \in [Doc -> Seq(Notes)] BY <1>3, <2>2, ToldType DEF DocumentChanged
  <2>4. editorVersions' \in [Doc -> 0 .. MaxVersion] BY <1>1, <1>3 DEF DocumentChanged, SessionTypes
  <2>5. QED BY <1>3, <2>2, <2>3, <2>4 DEF DocumentChanged, SessionTypes, lifeVars
<1>4. CASE DocumentClosed(d)
  <2>1. [document[d] EXCEPT !.version = 0] \in Text BY <1>1 DEF Text
  <2>2. document' \in [Doc -> Text] BY <1>4, <2>1 DEF DocumentClosed, SessionTypes
  <2>3. unsent' \in [Doc -> Seq(Notes)] BY <1>4, <2>2, ToldType DEF DocumentClosed
  <2>4. editorVersions' \in [Doc -> 0 .. MaxVersion] BY <1>1, <1>4 DEF DocumentClosed, SessionTypes
  <2>5. QED BY <1>4, <2>2, <2>3, <2>4 DEF DocumentClosed, SessionTypes, lifeVars
<1>5. QED BY <1>2, <1>3, <1>4

LEMMA SendTypes ==
    ASSUME SessionTypes, NEW d \in Doc, Send(d)
    PROVE  SessionTypes'
<1>1. unsent[d] \in Seq(Notes) /\ unsent[d] # <<>> BY DEF Send, SessionTypes
<1>2. Head(unsent[d]) \in Notes /\ Tail(unsent[d]) \in Seq(Notes) BY <1>1
<1>3. Head(unsent[d]).of \in Text BY <1>2 DEF Notes
<1>4. ledger' \in [Doc -> Text] /\ unsent' \in [Doc -> Seq(Notes)]
  BY <1>2, <1>3 DEF Send, SessionTypes
<1>5. QED BY <1>4 DEF Send, SessionTypes

(* A command that retires, and one that goes on to construct. *)
LEMMA RetireTypes ==
    ASSUME SessionTypes, NEW kind \in Kinds, NEW failed \in BOOLEAN, Retire(kind, failed)
    PROVE  /\ unsent' \in [Doc -> Seq(Notes)] /\ ledger' \in [Doc -> Text]
           /\ command' \in Commands
<1>1. NoNotes \in [Doc -> Seq(Notes)] BY DEF NoNotes
<1>2. NoLedger \in [Doc -> Text] BY EditorAssumption DEF NoLedger, Closed, Text
<1>3. QED BY <1>1, <1>2, CommandTypes DEF Retire

LEMMA ConstructTypes ==
    ASSUME SessionTypes, NEW kind \in Kinds, Construct(kind)
    PROVE  command' \in Commands /\ nextGeneration' \in Nat
<1>1. [Free EXCEPT !.kind = kind, !.at = "constructing"] \in Commands BY CommandTypes
<1>2. QED BY <1>1 DEF Construct, SessionTypes

LEMMA BeginTypes == SessionTypes /\ Begin => SessionTypes'
<1> SUFFICES ASSUME SessionTypes, Begin PROVE SessionTypes' OBVIOUS
<1> DEFINE kind == Head(waiting)
<1>1. waiting \in Seq({"start", "restart", "stop"}) /\ waiting # <<>> BY DEF Begin, SessionTypes
<1>2. /\ kind \in {"start", "restart", "stop"} /\ kind \in Kinds
      /\ waiting' \in Seq({"start", "restart", "stop"})
  BY <1>1 DEF Begin, Kinds
<1> HIDE DEF kind
<1>3. \/ UNCHANGED <<nextGeneration, unsent, ledger, command>>
      \/ Construct(kind) /\ UNCHANGED <<unsent, ledger>>
      \/ Retire(kind, FALSE) /\ UNCHANGED nextGeneration
  BY DEF Begin, kind
<1>4. /\ command' \in Commands /\ nextGeneration' \in Nat
      /\ unsent' \in [Doc -> Seq(Notes)] /\ ledger' \in [Doc -> Text]
  BY <1>2, <1>3, RetireTypes, ConstructTypes DEF SessionTypes
<1>5. generation' = generation BY DEF Begin
<1>6. QED BY <1>2, <1>4, <1>5 DEF Begin, SessionTypes

LEMMA AskTypes ==
    ASSUME SessionTypes, Ask
    PROVE  editorVersions' \in [Doc -> 0 .. MaxVersion] /\ command' \in Commands
           /\ command'.at = "asking"
BY CommandTypes DEF Ask

LEMMA StartTypes ==
    ASSUME SessionTypes, Constructed \/ ConstructRefused \/ ClientStarted \/ Answered \/ Woken
    PROVE  SessionTypes'
<1>1. CASE Constructed
  <2>1. command' \in Commands BY <1>1, CommandTypes DEF Constructed, Points
  <2>2. QED BY <1>1, <2>1 DEF Constructed, SessionTypes
<1>2. CASE ConstructRefused
  BY <1>2, CommandTypes DEF ConstructRefused, SessionTypes
<1>3. CASE ClientStarted
  <2>1. \A d \in Doc : Note("open", d) \in Notes BY DEF Note, Notes, SessionTypes
  <2>2. unsent' \in [Doc -> Seq(Notes)] BY <1>3, <2>1 DEF ClientStarted
  <2>3. QED BY <1>3, <2>2, AskTypes DEF ClientStarted, SessionTypes
<1>4. CASE Answered
  <2>1. At("waiting") \in Commands /\ Free \in Commands BY CommandTypes DEF Points
  <2>2. \/ Ask
        \/ command' \in {Free, At("waiting")} /\ editorVersions' = editorVersions
    BY <1>4 DEF Answered, Ask
  <2>3. command' \in Commands /\ editorVersions' \in [Doc -> 0 .. MaxVersion]
    BY <2>1, <2>2, AskTypes DEF SessionTypes
  <2>4. QED BY <1>4, <2>3 DEF Answered, SessionTypes
<1>5. CASE Woken BY <1>5, AskTypes DEF Woken, SessionTypes
<1>6. QED BY <1>1, <1>2, <1>3, <1>4, <1>5

LEMMA EndTypes ==
    ASSUME SessionTypes, StartFails \/ ExitAcknowledged \/ Terminate
    PROVE  SessionTypes'
<1>1. command.kind \in Kinds /\ "restart" \in Kinds BY DEF SessionTypes, Commands, Kinds
<1>2. CASE StartFails
  <2>1. Retire(command.kind, TRUE) BY <1>2 DEF StartFails
  <2>2. QED BY <1>1, <1>2, <2>1, RetireTypes DEF StartFails, SessionTypes
<1>3. CASE ExitAcknowledged
  <2>1. \/ Construct("restart")
        \/ command' = Free /\ nextGeneration' = nextGeneration
    <3>1. Retired BY <1>3 DEF ExitAcknowledged
    <3>2. CASE command.kind = "restart" /\ ~command.failed BY <3>1, <3>2 DEF Retired
    <3>3. CASE ~(command.kind = "restart" /\ ~command.failed) BY <3>1, <3>3 DEF Retired
    <3>4. QED BY <3>2, <3>3
  <2>2. command' \in Commands /\ nextGeneration' \in Nat
    BY <1>1, <2>1, ConstructTypes, CommandTypes DEF SessionTypes
  <2>3. generation' \in Nat BY <1>3 DEF ExitAcknowledged, Retired
  <2>4. QED BY <1>3, <2>2, <2>3 DEF ExitAcknowledged, SessionTypes
<1>4. CASE Terminate
  BY <1>4, CommandTypes DEF Terminate, SessionTypes, Points
<1>5. QED BY <1>2, <1>3, <1>4

LEMMA ProcessTypes ==
    ASSUME SessionTypes,
           \/ Quits \/ \E g \in Generation : Faulty(g) \/ ExitEvent(g)
           \/ \E kind \in {"restart", "stop"} : Command(kind)
    PROVE  SessionTypes'
<1>1. CASE Quits BY <1>1 DEF Quits, SessionTypes
<1>2. CASE \E g \in Generation : Faulty(g) BY <1>2 DEF Faulty, SessionTypes
<1>3. CASE \E g \in Generation : ExitEvent(g) BY <1>3 DEF ExitEvent, SessionTypes
<1>4. CASE \E kind \in {"restart", "stop"} : Command(kind)
  <2>1. \A kind \in {"restart", "stop"} :
           Append(waiting, kind) \in Seq({"start", "restart", "stop"})
    BY DEF SessionTypes
  <2>2. QED BY <1>4, <2>1 DEF Command, SessionTypes
<1>5. QED BY <1>1, <1>2, <1>3, <1>4

-----------------------------------------------------------------------------
(* What a step is for the session: one of its actions, or none of them,    *)
(* with a fault counted at most.                                           *)
Documents == \E d \in Doc : OpenDoc(d) \/ DocumentChanged(d) \/ DocumentClosed(d) \/ Send(d)
StartSteps == Constructed \/ ConstructRefused \/ ClientStarted \/ Answered \/ Woken
EndSteps == StartFails \/ ExitAcknowledged \/ Terminate
ProcessSteps ==
    \/ Quits \/ \E g \in Generation : Faulty(g) \/ ExitEvent(g)
    \/ \E kind \in {"restart", "stop"} : Command(kind)
Elsewhere ==
    UNCHANGED <<document, unsent, ledger, status, generation, nextGeneration, editorVersions,
                process, exited, connected, signal, command, waiting, restarts>>

LEMMA SessionSteps ==
    ASSUME [Next]_vars
    PROVE  Documents \/ Begin \/ StartSteps \/ EndSteps \/ ProcessSteps \/ Elsewhere
<1>1. CASE Edits BY <1>1 DEF Edits, Documents
<1>2. CASE Client
  <2>1. CASE \E d \in Doc : Send(d) BY <2>1 DEF Documents
  <2>2. CASE \E d \in Doc :
                 Reported(d) \/ Retry(d) \/ \E i \in DOMAIN converting[d] : Converted(d, i)
    BY <2>2 DEF Reported, Retry, Converted, Elsewhere, sessionVars
  <2>3. CASE Refresh BY <2>3 DEF Refresh, Elsewhere, sessionVars
  <2>4. QED BY <1>2, <2>1, <2>2, <2>3 DEF Client
<1>3. CASE Lifecycle BY <1>3 DEF Lifecycle, StartSteps, EndSteps
<1>4. CASE Surroundings
  <2>1. CASE Revise BY <2>1 DEF Revise, Elsewhere, sessionVars
  <2>2. CASE \E d \in Doc : Deferred(d) BY <2>2 DEF Deferred, Elsewhere
  <2>3. CASE ConstructRefused BY <2>3 DEF StartSteps
  <2>4. QED BY <1>4, <2>1, <2>2, <2>3 DEF Surroundings, ProcessSteps
<1>5. CASE UNCHANGED vars BY <1>5 DEF vars, sessionVars, Elsewhere
<1>6. QED BY <1>1, <1>2, <1>3, <1>4, <1>5 DEF Next

LEMMA SessionTypesNext == SessionTypes /\ [Next]_vars => SessionTypes'
<1> SUFFICES ASSUME SessionTypes, [Next]_vars PROVE SessionTypes' OBVIOUS
<1>1. CASE Documents BY <1>1, EditTypes, SendTypes DEF Documents
<1>2. CASE Begin BY <1>2, BeginTypes
<1>3. CASE StartSteps BY <1>3, StartTypes DEF StartSteps
<1>4. CASE EndSteps BY <1>4, EndTypes DEF EndSteps
<1>5. CASE ProcessSteps BY <1>5, ProcessTypes DEF ProcessSteps
<1>6. CASE Elsewhere BY <1>6 DEF Elsewhere, SessionTypes
<1>7. QED BY <1>1, <1>2, <1>3, <1>4, <1>5, <1>6, SessionSteps

-----------------------------------------------------------------------------
(* The invariant of the session. *)
LEMMA SessionInvInit == Init => SessionInv
BY DEF Init, SessionInit, SessionInv, Named, ConstructedOnce, NoServerOverlap, Starts, Stops, Free,
       Generation

(* A command that has the permit and goes on to retire, or to construct. *)
LEMMA RetireInv ==
    ASSUME SessionTypes, SessionInv, NEW kind \in Kinds, NEW failed \in BOOLEAN,
           Retire(kind, failed), command.at # "constructing", generation # 0,
           UNCHANGED <<generation, nextGeneration, process, exited>>
    PROVE  SessionInv'
<1>1. command'.at = "stopping" BY CommandTypes DEF Retire
<1>2. Named' BY <1>1 DEF Retire, Named, Starts, Stops
<1>3. ConstructedOnce' BY <1>1 DEF SessionInv, ConstructedOnce
<1>4. NoServerOverlap' BY DEF Retire, SessionInv, NoServerOverlap
<1>5. QED BY <1>2, <1>3, <1>4 DEF SessionInv

(* It constructs when no generation is named: then no process lives. *)
LEMMA ConstructInv ==
    ASSUME SessionTypes, ConstructedOnce, NEW kind \in Kinds, Construct(kind),
           generation' = 0, status' \notin {"Starting", "Ready"},
           \A g \in Generation : process[g] \notin {"running", "wedged"},
           UNCHANGED <<process, exited>>
    PROVE  SessionInv'
<1>1. command'.at = "constructing" BY CommandTypes DEF Construct
<1>2. nextGeneration' = nextGeneration + 1 /\ nextGeneration \in Nat
  BY DEF Construct, SessionTypes
<1>3. Named' BY <1>1, <1>2 DEF Named, Starts, Stops
<1>4. ConstructedOnce' BY <1>1, <1>2 DEF ConstructedOnce, Generation
<1>5. NoServerOverlap' BY DEF NoServerOverlap
<1>6. QED BY <1>3, <1>4, <1>5 DEF SessionInv

LEMMA UnnamedIsDead ==
    ASSUME SessionInv, generation = 0
    PROVE  \A g \in Generation : process[g] \notin {"running", "wedged"}
BY DEF SessionInv, NoServerOverlap, Generation

LEMMA BeginInv == SessionTypes /\ SessionInv /\ Begin => SessionInv'
<1> SUFFICES ASSUME SessionTypes, SessionInv, Begin PROVE SessionInv' OBVIOUS
<1> DEFINE kind == Head(waiting)
<1>1. waiting \in Seq({"start", "restart", "stop"}) /\ waiting # <<>> BY DEF Begin, SessionTypes
<1>2. kind \in Kinds /\ FALSE \in BOOLEAN BY <1>1 DEF Kinds
<1>3. /\ command.at = "idle" /\ UNCHANGED <<process, exited>>
  BY CommandTypes DEF Begin
<1> HIDE DEF kind
<1>4. \/ UNCHANGED <<status, generation, nextGeneration, command>>
      \/ status \notin {"Starting", "Ready"} /\ Construct(kind) /\ UNCHANGED <<status, generation>>
      \/ generation # 0 /\ Retire(kind, FALSE) /\ UNCHANGED <<generation, nextGeneration>>
      \/ /\ generation = 0 /\ status' = "Absent"
         /\ UNCHANGED generation
         /\ Construct(kind) \/ UNCHANGED <<nextGeneration, command>>
  BY DEF Begin, kind
<1>5. CASE UNCHANGED <<status, generation, nextGeneration, command>>
  BY <1>3, <1>5 DEF SessionInv, Named, ConstructedOnce, NoServerOverlap, Starts, Stops
<1>6. CASE /\ status \notin {"Starting", "Ready"}
           /\ Construct(kind) /\ UNCHANGED <<status, generation>>
  <2>1. generation = 0 BY <1>3, <1>6 DEF SessionInv, Named
  <2>2. \A g \in Generation : process[g] \notin {"running", "wedged"} BY <2>1, UnnamedIsDead
  <2>3. ConstructedOnce BY DEF SessionInv
  <2>4. QED BY <1>2, <1>3, <1>6, <2>1, <2>2, <2>3, ConstructInv
<1>7. CASE generation # 0 /\ Retire(kind, FALSE) /\ UNCHANGED <<generation, nextGeneration>>
  BY <1>2, <1>3, <1>7, RetireInv
<1>8. CASE /\ generation = 0 /\ status' = "Absent" /\ UNCHANGED generation
           /\ Construct(kind) \/ UNCHANGED <<nextGeneration, command>>
  <2>1. \A g \in Generation : process[g] \notin {"running", "wedged"} BY <1>8, UnnamedIsDead
  <2>2. CASE Construct(kind)
    <3>1. ConstructedOnce BY DEF SessionInv
    <3>2. QED BY <1>2, <1>3, <1>8, <2>1, <2>2, <3>1, ConstructInv
  <2>3. CASE UNCHANGED <<nextGeneration, command>>
    BY <1>3, <1>8, <2>1, <2>3
    DEF SessionInv, Named, ConstructedOnce, NoServerOverlap, Starts, Stops
  <2>4. QED BY <1>8, <2>2, <2>3
<1>9. QED BY <1>4, <1>5, <1>6, <1>7, <1>8

LEMMA StartInv == SessionTypes /\ SessionInv /\ StartSteps => SessionInv'
<1> SUFFICES ASSUME SessionTypes, SessionInv, StartSteps PROVE SessionInv' OBVIOUS
<1>1. CASE Constructed
  <2>1. /\ command.at = "constructing" /\ command'.at = "client"
        /\ generation = 0 /\ nextGeneration # 0 /\ nextGeneration \in Nat
    BY <1>1, CommandTypes DEF Constructed, SessionInv, Named, SessionTypes, Points
  <2>2. \A g \in Generation : process[g] \notin {"running", "wedged"} BY <2>1, UnnamedIsDead
  <2>3. /\ generation' = nextGeneration /\ status' = "Starting"
        /\ UNCHANGED <<nextGeneration, exited>>
        /\ \A g \in Generation : process'[g] = IF g = nextGeneration THEN "running" ELSE process[g]
    BY <1>1 DEF Constructed, SessionTypes
  <2>4. Named' BY <2>1, <2>3 DEF Named, Starts, Stops
  <2>5. ConstructedOnce'
    <3>1. nextGeneration \in Generation => process[nextGeneration] = "none"
      BY <2>1 DEF SessionInv, ConstructedOnce
    <3>2. QED BY <2>1, <2>3, <3>1 DEF SessionInv, ConstructedOnce, Generation
  <2>6. NoServerOverlap' BY <2>2, <2>3 DEF NoServerOverlap
  <2>7. QED BY <2>4, <2>5, <2>6 DEF SessionInv
<1>2. CASE ConstructRefused
  <2>1. /\ command.at = "constructing" /\ command'.at = "idle"
        /\ UNCHANGED <<status, generation, nextGeneration, process, exited>>
    BY <1>2, CommandTypes DEF ConstructRefused
  <2>2. QED BY <2>1 DEF SessionInv, Named, ConstructedOnce, NoServerOverlap, Starts, Stops
<1>3. CASE ClientStarted \/ Answered \/ Woken
  <2>1. /\ Starts /\ command'.at \in {"asking", "waiting", "idle"}
        /\ status' = status \/ (command'.at = "idle" /\ status' = "Ready")
        /\ command'.at = "idle" => status' = "Ready"
        /\ UNCHANGED <<generation, nextGeneration, process, exited>>
    <3>1. CASE ClientStarted BY <3>1, AskTypes DEF ClientStarted, Starts
    <3>2. CASE Woken BY <3>2, AskTypes DEF Woken, Starts
    <3>3. CASE Answered
      <4>1. \/ status' = "Ready" /\ command' = Free
            \/ Ask /\ status' = status
            \/ command' = At("waiting") /\ status' = status
        BY <3>3 DEF Answered, Ask
      <4>2. Free.at = "idle" /\ At("waiting").at = "waiting" BY CommandTypes DEF Points
      <4>3. QED BY <3>3, <4>1, <4>2, AskTypes DEF Answered, Starts
    <3>4. QED BY <1>3, <3>1, <3>2, <3>3
  <2>2. status = "Starting" BY <2>1 DEF SessionInv, Named
  <2>3. QED
    BY <2>1, <2>2 DEF SessionInv, Named, ConstructedOnce, NoServerOverlap, Starts, Stops
<1>4. QED BY <1>1, <1>2, <1>3 DEF StartSteps

LEMMA EndInv == SessionTypes /\ SessionInv /\ EndSteps => SessionInv'
<1> SUFFICES ASSUME SessionTypes, SessionInv, EndSteps PROVE SessionInv' OBVIOUS
<1>1. command.kind \in Kinds /\ "restart" \in Kinds BY DEF SessionTypes, Commands, Kinds
<1>2. CASE StartFails
  <2>1. command.at \in {"client", "asking", "waiting"} BY <1>2 DEF StartFails
  <2>2. generation # 0 BY <2>1 DEF SessionInv, Named, Starts
  <2>3. QED BY <1>1, <1>2, <2>1, <2>2, RetireInv DEF StartFails
<1>3. CASE ExitAcknowledged
  <2>1. /\ Stops /\ generation \in exited /\ Retired /\ UNCHANGED <<process, exited>>
    BY <1>3 DEF ExitAcknowledged, Stops
  <2>2. \A g \in Generation : process[g] \notin {"running", "wedged"}
    BY <2>1 DEF SessionInv, ConstructedOnce, NoServerOverlap
  <2>3. generation' = 0 /\ status' \notin {"Starting", "Ready"} BY <2>1 DEF Retired
  <2>4. ConstructedOnce BY DEF SessionInv
  <2>5. CASE Construct("restart") BY <1>1, <2>1, <2>2, <2>3, <2>4, <2>5, ConstructInv
  <2>6. CASE command' = Free /\ nextGeneration' = nextGeneration
    <3>1. command'.at = "idle" /\ nextGeneration \in Nat BY <2>6, CommandTypes DEF SessionTypes
    <3>2. Named' BY <2>3, <3>1 DEF Named, Starts, Stops
    <3>3. ConstructedOnce' BY <2>1, <2>3, <2>4, <2>6, <3>1 DEF ConstructedOnce
    <3>4. NoServerOverlap' BY <2>1, <2>2 DEF NoServerOverlap
    <3>5. QED BY <3>2, <3>3, <3>4 DEF SessionInv
  <2>7. \/ Construct("restart")
        \/ command' = Free /\ nextGeneration' = nextGeneration
    <3>1. CASE command.kind = "restart" /\ ~command.failed BY <2>1, <3>1 DEF Retired
    <3>2. CASE ~(command.kind = "restart" /\ ~command.failed) BY <2>1, <3>2 DEF Retired
    <3>3. QED BY <3>1, <3>2
  <2>8. QED BY <2>5, <2>6, <2>7
<1>4. CASE Terminate
  <2>1. /\ command.at = "stopping" /\ command'.at = "terminating"
        /\ UNCHANGED <<status, generation, nextGeneration, exited>>
        /\ \A g \in Generation : process'[g] = IF g = generation THEN "dead" ELSE process[g]
    BY <1>4, CommandTypes DEF Terminate, SessionTypes, Points
  <2>2. Named' BY <2>1 DEF SessionInv, Named, Starts, Stops
  <2>3. ConstructedOnce' BY <2>1 DEF SessionInv, ConstructedOnce, SessionTypes, Generation
  <2>4. NoServerOverlap' BY <2>1 DEF SessionInv, NoServerOverlap
  <2>5. QED BY <2>2, <2>3, <2>4 DEF SessionInv
<1>5. QED BY <1>2, <1>3, <1>4 DEF EndSteps

LEMMA ProcessInv == SessionTypes /\ SessionInv /\ ProcessSteps => SessionInv'
<1> SUFFICES ASSUME SessionTypes, SessionInv, ProcessSteps PROVE SessionInv' OBVIOUS
<1>1. UNCHANGED <<status, generation, nextGeneration, command>>
  BY DEF ProcessSteps, Quits, Faulty, ExitEvent, Command
<1>2. /\ exited \subseteq exited'
      /\ \A g \in exited' \cap Generation : g \in exited \/ process[g] = "dead"
      /\ \A g \in Generation :
            \/ process'[g] = process[g]
            \/ process[g] = "running" /\ process'[g] \in {"wedged", "dead"}
  BY DEF ProcessSteps, Quits, Faulty, ExitEvent, Command, SessionTypes
<1>3. Named' BY <1>1 DEF SessionInv, Named, Starts, Stops
<1>4. ConstructedOnce' BY <1>1, <1>2 DEF SessionInv, ConstructedOnce
<1>5. NoServerOverlap' BY <1>1, <1>2 DEF SessionInv, NoServerOverlap
<1>6. QED BY <1>3, <1>4, <1>5 DEF SessionInv

LEMMA SessionNext == SessionTypes /\ SessionInv /\ [Next]_vars => SessionInv'
<1> SUFFICES ASSUME SessionTypes, SessionInv, [Next]_vars PROVE SessionInv' OBVIOUS
<1>1. CASE Begin BY <1>1, BeginInv
<1>2. CASE StartSteps BY <1>2, StartInv
<1>3. CASE EndSteps BY <1>3, EndInv
<1>4. CASE ProcessSteps BY <1>4, ProcessInv
<1>5. CASE Documents \/ Elsewhere
  <2>1. UNCHANGED <<status, generation, nextGeneration, process, exited, command>>
    BY <1>5 DEF Documents, OpenDoc, DocumentChanged, DocumentClosed, Send, lifeVars, Elsewhere
  <2>2. QED BY <2>1 DEF SessionInv, Named, ConstructedOnce, NoServerOverlap, Starts, Stops
<1>6. QED BY <1>1, <1>2, <1>3, <1>4, <1>5, SessionSteps

(* Whatever crashes, hangs, fails to start or is restarted, and however     *)
(* the exits of processes are delayed, no two servers live at a time: the   *)
(* one that lives belongs to the generation the session names              *)
(* (EditorSession.mts: retire awaits the exit before startUnlocked spawns). *)
THEOREM NoOverlap == Spec => []NoServerOverlap
<1>1. Init => SessionTypes /\ SessionInv BY TypesInit, SessionInvInit DEF Types
<1>2. SessionTypes /\ SessionInv /\ [Next]_vars => (SessionTypes /\ SessionInv)'
  BY SessionTypesNext, SessionNext
<1>3. SessionTypes /\ SessionInv => NoServerOverlap BY DEF SessionInv
<1>4. QED BY <1>1, <1>2, <1>3, PTL DEF Spec

-----------------------------------------------------------------------------
(* Types of the diagnostics. *)
LEMMA PullType ==
    ASSUME SessionTypes, PanelTypes, NEW docs, Pull(docs)
    PROVE  inflight' \in [Doc -> {None} \cup AnyPull]
<1>1. \A d \in Doc : [version |-> document[d].version, previous |-> resultId[d]] \in AnyPull
  BY DEF SessionTypes, PanelTypes, AnyPull, Text
<1>2. QED BY <1>1 DEF Pull, PanelTypes

LEMMA ClearTypes ==
    ASSUME PanelTypes, NEW d \in Doc, Clear(d), numbered' \in Nat
    PROVE  PanelTypes'
BY DEF Clear, PanelTypes

LEMMA DisposeTypes == PanelTypes /\ Dispose => PanelTypes'
<1> SUFFICES ASSUME PanelTypes, Dispose PROVE PanelTypes' OBVIOUS
<1>1. Nowhere \in [Doc -> {None} \cup AnyPull] /\ Nowhere \in [Doc -> {None} \cup AnyReport]
  BY DEF Nowhere
<1>2. [d \in Doc |-> <<>>] \in [Doc -> Seq(Conversions)] OBVIOUS
<1>3. QED BY <1>1, <1>2 DEF Dispose, PanelTypes

LEMMA ObserveTypes ==
    ASSUME SessionTypes, PanelTypes, NEW d \in Doc, Observe(d)
    PROVE  PanelTypes'
<1>1. numbered' \in Nat BY DEF Observe, PanelTypes
<1>2. CASE Clear(d) BY <1>1, <1>2, ClearTypes
<1>3. CASE UNCHANGED <<panel, inflight, resultId, converting, shown, retry, revision, refresh>>
  BY <1>1, <1>3 DEF PanelTypes
<1>4. ASSUME NEW docs, Pull(docs),
             UNCHANGED <<panel, resultId, converting, shown, retry, revision, refresh>>
      PROVE  PanelTypes'
  BY <1>1, <1>4, PullType DEF PanelTypes
<1>5. QED BY <1>2, <1>3, <1>4 DEF Observe

LEMMA ReportedTypes ==
    ASSUME SessionTypes, PanelTypes, Connection, PullsAreOfTheVersion, NEW d \in Doc, Reported(d)
    PROVE  PanelTypes'
<1> DEFINE pull == inflight[d]
           made == [version |-> pull.version, report |-> Report(d)]
<1>1. /\ pull \in AnyPull /\ pull.version = document[d].version /\ pull.version \in 1 .. MaxVersion
      /\ connected /\ unsent[d] = <<>>
  BY DEF Reported, Serving, SessionTypes, PanelTypes, PullsAreOfTheVersion, IsOfTheVersion,
         AnyPull, Text
<1>2. ledger[d].version = pull.version BY <1>1 DEF Connection, Sent
<1>3. Report(d) \in AnyReport /\ Report(d).of = ledger[d]
  BY DEF Report, AnyReport, SessionTypes, PanelTypes
<1>4. made \in Conversions BY <1>1, <1>2, <1>3 DEF Conversions
<1>5. converting[d] \in Seq(Conversions) BY DEF PanelTypes
<1> HIDE DEF made
<1>6. Append(converting[d], made) \in Seq(Conversions) BY <1>4, <1>5
<1>7. converting' \in [Doc -> Seq(Conversions)]
  <2>1. \/ converting' = converting
        \/ converting' = [converting EXCEPT ![d] = Append(@, made)]
    BY DEF Reported, made
  <2>2. QED BY <1>6, <2>1 DEF PanelTypes
<1>8. resultId' \in [Doc -> {None} \cup AnyReport]
  <2>1. resultId' = resultId \/ resultId' = [resultId EXCEPT ![d] = Report(d)] BY DEF Reported
  <2>2. QED BY <1>3, <2>1 DEF PanelTypes
<1>9. inflight' \in [Doc -> {None} \cup AnyPull] BY DEF Reported, PanelTypes
<1>10. UNCHANGED <<shown, revision, numbered>> BY DEF Reported
<1>11. QED BY <1>7, <1>8, <1>9, <1>10 DEF PanelTypes

LEMMA ConvertedTypes ==
    ASSUME PanelTypes, NEW d \in Doc, NEW i \in DOMAIN converting[d], Converted(d, i)
    PROVE  PanelTypes' /\ converting[d][i] \in Conversions
<1> DEFINE s == converting[d]
<1>1. s \in Seq(Conversions) /\ i \in 1 .. Len(s) BY DEF PanelTypes
<1>2. s[i] \in Conversions BY <1>1
<1>3. /\ SubSeq(s, 1, i - 1) \in Seq(Conversions)
      /\ SubSeq(s, i + 1, Len(s)) \in Seq(Conversions)
  BY <1>1, SubSeqProperties
<1>4. SubSeq(s, 1, i - 1) \o SubSeq(s, i + 1, Len(s)) \in Seq(Conversions)
  BY <1>3, ConcatProperties
<1>5. s[i].report \in AnyReport BY <1>2 DEF Conversions
<1>6. converting' \in [Doc -> Seq(Conversions)] BY <1>4 DEF Converted, PanelTypes
<1>7. shown' \in [Doc -> {None} \cup AnyReport] BY <1>5 DEF Converted, PanelTypes
<1>8. QED BY <1>2, <1>6, <1>7 DEF Converted, PanelTypes

-----------------------------------------------------------------------------
LEMMA PanelTypesNext ==
    ASSUME SessionTypes, PanelTypes, DiagnosticsInv, [Next]_vars
    PROVE  PanelTypes'
<1>1. CASE Edits
  <2>1. CASE UNCHANGED diagnosticsVars BY <2>1 DEF diagnosticsVars, PanelTypes
  <2>2. CASE \E d \in Doc : Clear(d) /\ UNCHANGED numbered BY <2>2, ClearTypes DEF PanelTypes
  <2>3. QED BY <1>1, <2>1, <2>2 DEF Edits
<1>2. CASE Client
  <2>1. CASE \E d \in Doc : Observe(d) BY <2>1, ObserveTypes
  <2>2. CASE \E d \in Doc : Reported(d) BY <2>2, ReportedTypes DEF DiagnosticsInv
  <2>3. CASE \E d \in Doc : Retry(d)
    <3>1. \E docs : Pull(docs) BY <2>3 DEF Retry
    <3>2. QED BY <2>3, <3>1, PullType DEF Retry, PanelTypes
  <2>4. CASE \E d \in Doc : \E i \in DOMAIN converting[d] : Converted(d, i)
    BY <2>4, ConvertedTypes
  <2>5. CASE Refresh BY <2>5, PullType DEF Refresh, PanelTypes
  <2>6. QED BY <1>2, <2>1, <2>2, <2>3, <2>4, <2>5 DEF Client
<1>3. CASE Lifecycle
  <2>1. CASE Dispose BY <2>1, DisposeTypes
  <2>2. CASE StartDiagnostics BY <2>2, PullType DEF StartDiagnostics, PanelTypes
  <2>3. CASE UNCHANGED diagnosticsVars BY <2>3 DEF diagnosticsVars, PanelTypes
  <2>4. QED BY <1>3, <2>1, <2>2, <2>3 DEF Lifecycle, DisposedIfRetired
<1>4. CASE Surroundings
  <2>1. CASE Revise
    <3>1. revision' \in 0 .. MaxRevision /\ numbered' \in Nat
      BY <2>1, DiagnosticsAssumption DEF Revise, PanelTypes
    <3>2. QED BY <2>1, <3>1 DEF Revise, PanelTypes
  <2>2. CASE \E d \in Doc : Deferred(d) BY <2>2 DEF Deferred, PanelTypes
  <2>3. CASE UNCHANGED diagnosticsVars BY <2>3 DEF diagnosticsVars, PanelTypes
  <2>4. QED BY <1>4, <2>1, <2>2, <2>3 DEF Surroundings
<1>5. CASE UNCHANGED vars BY <1>5 DEF vars, diagnosticsVars, PanelTypes
<1>6. QED BY <1>1, <1>2, <1>3, <1>4, <1>5 DEF Next

-----------------------------------------------------------------------------
(* The connection. *)
LEMMA ToldSent ==
    ASSUME SessionTypes, Connection, NEW d \in Doc, NEW kind \in {"open", "change", "close"},
           document' \in [Doc -> Text], \A e \in Doc \ {d} : document'[e] = document[e],
           Told(d, kind), UNCHANGED <<ledger, connected, status, command>>
    PROVE  Connection'
<1>1. CASE connected
  <2>1. unsent[d] \in Seq(Notes) BY DEF SessionTypes
  <2>2. Note(kind, d)' \in Notes /\ Note(kind, d)'.of = document'[d] BY DEF Note, Notes
  <2>3. unsent' = [unsent EXCEPT ![d] = Append(@, Note(kind, d)')] BY <1>1 DEF Told
  <2>4. unsent'[d] = Append(unsent[d], Note(kind, d)') BY <2>3 DEF SessionTypes
  <2>5. /\ unsent'[d] # <<>>
        /\ unsent'[d][Len(unsent'[d])] = Note(kind, d)'
    BY <2>1, <2>2, <2>4
  <2>6. Sent(d)' BY <2>2, <2>5 DEF Sent
  <2>7. \A e \in Doc \ {d} : Sent(e)'
    <3>1. TAKE e \in Doc \ {d}
    <3>2. unsent'[e] = unsent[e] BY <2>3 DEF SessionTypes
    <3>3. Sent(e) BY <1>1 DEF Connection
    <3>4. QED BY <3>2, <3>3 DEF Sent
  <2>8. \A e \in Doc : Sent(e)' BY <2>6, <2>7
  <2>9. QED BY <1>1, <2>8 DEF Connection
<1>2. CASE ~connected BY <1>2 DEF Connection
<1>3. QED BY <1>1, <1>2

LEMMA EditConnection ==
    ASSUME SessionTypes, SessionTypes', Connection, NEW d \in Doc,
           OpenDoc(d) \/ DocumentChanged(d) \/ DocumentClosed(d)
    PROVE  Connection'
<1>1. /\ \A e \in Doc \ {d} : document'[e] = document[e]
      /\ document' \in [Doc -> Text]
      /\ UNCHANGED <<ledger, connected, status, command>>
  BY DEF OpenDoc, DocumentChanged, DocumentClosed, lifeVars, SessionTypes
<1>2. Told(d, "open") \/ Told(d, "change") \/ Told(d, "close")
  BY DEF OpenDoc, DocumentChanged, DocumentClosed
<1>3. QED BY <1>1, <1>2, ToldSent

LEMMA TailEnds ==
    ASSUME NEW S, NEW s \in Seq(S), s # <<>>
    PROVE  /\ Len(s) = 1 => Tail(s) = <<>> /\ Head(s) = s[Len(s)]
           /\ Len(s) # 1 => Tail(s) # <<>> /\ Tail(s)[Len(Tail(s))] = s[Len(s)]
<1>1. Len(s) \in Nat \ {0} /\ Head(s) = s[1] BY EmptySeq
<1>2. /\ Tail(s) \in Seq(S) /\ Len(Tail(s)) = Len(s) - 1
      /\ \A i \in 1 .. Len(Tail(s)) : Tail(s)[i] = s[i + 1]
  BY HeadTailProperties
<1>3. CASE Len(s) = 1
  <2>1. Tail(s) # <<>> => Len(Tail(s)) \in Nat \ {0} BY <1>2, EmptySeq
  <2>2. QED BY <1>1, <1>2, <1>3, <2>1
<1>4. CASE Len(s) # 1
  <2>1. Len(Tail(s)) \in 1 .. Len(Tail(s)) BY <1>1, <1>2, <1>4
  <2>2. Tail(s)[Len(Tail(s))] = s[Len(s)] BY <1>1, <1>2, <2>1
  <2>3. QED BY <1>1, <1>2, <1>4, <2>2, EmptySeq
<1>5. QED BY <1>3, <1>4

LEMMA SendConnection ==
    ASSUME SessionTypes, Connection, NEW d \in Doc, Send(d)
    PROVE  Connection'
<1> DEFINE s == unsent[d]
<1>1. s \in Seq(Notes) /\ s # <<>> /\ connected BY DEF Send, SessionTypes
<1>2. /\ ledger'[d] = Head(s).of /\ unsent'[d] = Tail(s)
      /\ \A e \in Doc \ {d} : ledger'[e] = ledger[e] /\ unsent'[e] = unsent[e]
      /\ UNCHANGED <<document, connected, status, command>>
  BY DEF Send, SessionTypes
<1>3. s[Len(s)].of = document[d] BY <1>1 DEF Connection, Sent
<1>4. Sent(d)'
  <2>1. CASE Len(s) = 1
    <3>1. Tail(s) = <<>> /\ Head(s) = s[Len(s)] BY <1>1, <2>1, TailEnds
    <3>2. QED BY <1>2, <1>3, <3>1 DEF Sent
  <2>2. CASE Len(s) # 1
    <3>1. Tail(s) # <<>> /\ Tail(s)[Len(Tail(s))] = s[Len(s)] BY <1>1, <2>2, TailEnds
    <3>2. QED BY <1>2, <1>3, <3>1 DEF Sent
  <2>3. QED BY <2>1, <2>2
<1>5. \A e \in Doc \ {d} : Sent(e)' BY <1>1, <1>2 DEF Sent, Connection
<1>6. \A e \in Doc : Sent(e)' BY <1>4, <1>5
<1>7. QED BY <1>1, <1>2, <1>6 DEF Connection

LEMMA BeginConnection ==
    ASSUME SessionTypes, SessionInv, Connection, Begin
    PROVE  Connection'
<1>1. command.at = "idle" BY CommandTypes DEF Begin
<1>2. CASE connected' = FALSE
  <2>1. \/ ledger' = NoLedger
        \/ UNCHANGED <<connected, ledger>>
    BY DEF Begin, Retire
  <2>2. QED BY <1>2, <2>1 DEF Connection
<1>3. CASE connected' # FALSE
  <2>1. \/ UNCHANGED <<status, connected, unsent, ledger, command>>
        \/ status \notin {"Starting", "Ready"} /\ connected' = connected
        \/ generation = 0 /\ connected' = connected
    BY <1>3 DEF Begin, Retire
  <2>2. connected => status \in {"Starting", "Ready"} /\ generation # 0
    BY DEF Connection, SessionInv, Named
  <2>3. connected' => connected /\ UNCHANGED <<status, connected, unsent, ledger, command>>
    BY <2>1, <2>2
  <2>4. CASE connected' /\ UNCHANGED <<document>>
    BY <2>3, <2>4 DEF Connection, Sent
  <2>5. CASE ~connected'
    <3>1. \/ ledger' = NoLedger
          \/ UNCHANGED <<connected, ledger>>
      BY DEF Begin, Retire
    <3>2. QED BY <2>5, <3>1 DEF Connection
  <2>6. UNCHANGED document BY DEF Begin
  <2>7. QED BY <2>4, <2>5, <2>6
<1>4. QED BY <1>2, <1>3

LEMMA StartConnection ==
    ASSUME SessionTypes, SessionInv, Connection, StartSteps
    PROVE  Connection'
<1>1. CASE Constructed \/ ConstructRefused
  <2>1. ~connected /\ UNCHANGED <<connected, ledger>>
    BY <1>1 DEF Constructed, ConstructRefused, Connection
  <2>2. QED BY <2>1 DEF Connection
<1>2. CASE ClientStarted
  <2>1. /\ status' = "Starting" /\ command'.at = "asking" /\ connected' = TRUE
    BY <1>2, AskTypes DEF ClientStarted, SessionInv, Named, Starts
  <2>2. ledger' = NoLedger /\ document' = document
    BY <1>2 DEF ClientStarted, Connection
  <2>3. \A d \in Doc : Sent(d)'
    <3>1. TAKE d \in Doc
    <3>2. unsent'[d] = IF d \in OpenDocs THEN <<Note("open", d)>> ELSE <<>>
      BY <1>2 DEF ClientStarted
    <3>3. CASE d \in OpenDocs
      <4>1. Note("open", d).of = document[d] BY DEF Note
      <4>2. QED BY <2>2, <3>2, <3>3, <4>1 DEF Sent
    <3>4. CASE d \notin OpenDocs
      BY <2>2, <3>2, <3>4 DEF Sent, OpenDocs, NoLedger, Closed
    <3>5. QED BY <3>3, <3>4
  <2>4. QED BY <2>1, <2>3 DEF Connection
<1>3. CASE Answered \/ Woken
  <2>1. /\ status = "Starting" /\ status' \in {"Starting", "Ready"}
        /\ command'.at \in {"idle", "asking", "waiting"}
        /\ UNCHANGED <<document, unsent, ledger, connected>>
    <3>1. CASE Woken BY <3>1, AskTypes DEF Woken, SessionInv, Named, Starts
    <3>2. CASE Answered
      <4>1. \/ status' = "Ready" /\ command' = Free
            \/ Ask /\ status' = status
            \/ command' = At("waiting") /\ status' = status
        BY <3>2 DEF Answered, Ask
      <4>2. Free.at = "idle" /\ At("waiting").at = "waiting" BY CommandTypes DEF Points
      <4>3. QED BY <3>2, <4>1, <4>2, AskTypes DEF Answered, SessionInv, Named, Starts
    <3>3. QED BY <1>3, <3>1, <3>2
  <2>2. QED BY <2>1 DEF Connection, Sent
<1>4. QED BY <1>1, <1>2, <1>3 DEF StartSteps

LEMMA ConnectionNext ==
    ASSUME SessionTypes, SessionTypes', SessionInv, Connection, [Next]_vars
    PROVE  Connection'
<1>1. CASE Documents BY <1>1, EditConnection, SendConnection DEF Documents
<1>2. CASE Begin BY <1>2, BeginConnection
<1>3. CASE StartSteps BY <1>3, StartConnection
<1>4. CASE EndSteps
  <2>1. CASE StartFails BY <2>1 DEF StartFails, Retire, Connection
  <2>2. CASE ExitAcknowledged \/ Terminate
    <3>1. ~connected /\ UNCHANGED <<connected, ledger>>
      BY <2>2 DEF ExitAcknowledged, Terminate, Connection
    <3>2. QED BY <3>1 DEF Connection
  <2>3. QED BY <1>4, <2>1, <2>2 DEF EndSteps
<1>5. CASE ProcessSteps \/ Elsewhere
  <2>1. UNCHANGED <<document, unsent, ledger, connected, status, command>>
    BY <1>5 DEF ProcessSteps, Quits, Faulty, ExitEvent, Command, Elsewhere
  <2>2. QED BY <2>1 DEF Connection, Sent
<1>6. QED BY <1>1, <1>2, <1>3, <1>4, <1>5, SessionSteps

-----------------------------------------------------------------------------
(* Pulls, and what is shown. *)
Displayable == PullsAreOfTheVersion /\ ShownIsOfTheVersion

LEMMA PullDisplays ==
    ASSUME SessionTypes, PanelTypes, Displayable, NEW docs, docs \subseteq OpenDocs, Pull(docs),
           UNCHANGED <<document, editorVersions>>
    PROVE  PullsAreOfTheVersion'
<1>1. SUFFICES ASSUME NEW d \in Doc PROVE IsOfTheVersion(d)' BY DEF PullsAreOfTheVersion
<1>3. CASE d \in docs
  <2>1. inflight'[d] = [version |-> document[d].version, previous |-> resultId[d]]
    BY <1>3 DEF Pull
  <2>2. QED BY <1>3, <2>1 DEF OpenDocs, Displayable, PullsAreOfTheVersion, IsOfTheVersion
<1>4. CASE d \notin docs
  <2>1. inflight'[d] = inflight[d] BY <1>4 DEF Pull
  <2>2. QED BY <2>1 DEF Displayable, PullsAreOfTheVersion, IsOfTheVersion
<1>5. QED BY <1>3, <1>4

LEMMA EditDisplays ==
    ASSUME SessionTypes, PanelTypes, Displayable, NEW d \in Doc,
           \/ OpenDoc(d) /\ UNCHANGED diagnosticsVars
           \/ (DocumentChanged(d) \/ DocumentClosed(d)) /\ Clear(d) /\ UNCHANGED numbered
    PROVE  Displayable'
<1>1. document[d] \in Text BY DEF SessionTypes
<1>2. UNCHANGED <<status, generation, panel>>
  BY DEF OpenDoc, DocumentChanged, DocumentClosed, lifeVars, diagnosticsVars, Clear
<1>3. \A e \in Doc \ {d} :
         /\ document'[e] = document[e] /\ editorVersions'[e] = editorVersions[e]
         /\ inflight'[e] = inflight[e] /\ shown'[e] = shown[e]
  BY DEF OpenDoc, DocumentChanged, DocumentClosed, Clear, diagnosticsVars, SessionTypes, PanelTypes
<1>4. inflight'[d] = None /\ shown'[d] = None
  <2>1. CASE Clear(d) BY <2>1 DEF Clear, PanelTypes
  <2>2. CASE OpenDoc(d) /\ UNCHANGED diagnosticsVars
    BY <2>2 DEF OpenDoc, diagnosticsVars, Displayable, PullsAreOfTheVersion, IsOfTheVersion,
                  ShownIsOfTheVersion
  <2>3. QED BY <2>1, <2>2
<1>5. editorVersions'[d] # 0 => editorVersions'[d] = document'[d].version
  <2>1. CASE OpenDoc(d)
    BY <2>1 DEF OpenDoc, Displayable, PullsAreOfTheVersion, IsOfTheVersion
  <2>2. CASE DocumentChanged(d)
    <3>1. document'[d].version = document[d].version + 1
      BY <1>1, <2>2 DEF DocumentChanged, SessionTypes, Text
    <3>2. QED BY <2>2, <3>1 DEF DocumentChanged, SessionTypes
  <2>3. CASE DocumentClosed(d) BY <2>3 DEF DocumentClosed, SessionTypes
  <2>4. QED BY <2>1, <2>2, <2>3
<1>6. PullsAreOfTheVersion'
  BY <1>3, <1>4, <1>5 DEF Displayable, PullsAreOfTheVersion, IsOfTheVersion
<1>7. ShownIsOfTheVersion' BY <1>2, <1>3, <1>4 DEF Displayable, ShownIsOfTheVersion
<1>8. QED BY <1>6, <1>7 DEF Displayable

LEMMA ClientDisplays ==
    ASSUME SessionTypes, PanelTypes, DiagnosticsInv, Client
    PROVE  Displayable'
<1>1. /\ UNCHANGED <<document, editorVersions, status, generation, panel>>
      /\ Displayable
  <2>1. CASE \E d \in Doc : Send(d) /\ Observe(d)
    BY <2>1 DEF Send, Observe, Clear, Displayable, DiagnosticsInv
  <2>2. CASE \/ Refresh
             \/ \E d \in Doc :
                   Reported(d) \/ Retry(d) \/ \E i \in DOMAIN converting[d] : Converted(d, i)
    BY <2>2 DEF Refresh, Reported, Retry, Converted, sessionVars, Displayable, DiagnosticsInv
  <2>3. QED BY <2>1, <2>2 DEF Client
<1>2. ASSUME UNCHANGED shown PROVE ShownIsOfTheVersion'
  BY <1>1, <1>2 DEF Displayable, ShownIsOfTheVersion
<1>3. ASSUME NEW docs, docs \subseteq OpenDocs, Pull(docs), UNCHANGED shown PROVE Displayable'
  BY <1>1, <1>2, <1>3, PullDisplays DEF Displayable
<1>4. ASSUME NEW d \in Doc, Observe(d) PROVE Displayable'
  <2>1. CASE UNCHANGED <<panel, inflight, resultId, converting, shown, retry, revision, refresh>>
    BY <1>1, <1>2, <2>1 DEF Displayable, PullsAreOfTheVersion, IsOfTheVersion
  <2>2. CASE Clear(d)
    BY <1>1, <2>2 DEF Clear, PanelTypes, Displayable, PullsAreOfTheVersion, IsOfTheVersion,
                         ShownIsOfTheVersion
  <2>3. CASE /\ \E docs \in SUBSET OpenDocs : Pull(docs)
             /\ UNCHANGED shown
    BY <1>3, <2>3
  <2>4. QED BY <1>4, <2>1, <2>2, <2>3 DEF Observe
<1>5. ASSUME NEW d \in Doc, Reported(d) PROVE Displayable'
  <2>1. /\ UNCHANGED shown
        /\ \A e \in Doc : inflight'[e] = inflight[e] \/ inflight'[e] = None
    BY <1>5 DEF Reported, PanelTypes
  <2>2. QED BY <1>1, <1>2, <2>1 DEF Displayable, PullsAreOfTheVersion, IsOfTheVersion
<1>6. ASSUME NEW d \in Doc, Retry(d) PROVE Displayable'
  <2>1. \E docs \in SUBSET OpenDocs : Pull(docs) BY <1>6 DEF Retry
  <2>2. UNCHANGED shown BY <1>6 DEF Retry
  <2>3. QED BY <1>3, <2>1, <2>2
<1>7. ASSUME NEW d \in Doc, NEW i \in DOMAIN converting[d], Converted(d, i) PROVE Displayable'
  <2>1. UNCHANGED inflight /\ PullsAreOfTheVersion'
    BY <1>1, <1>7 DEF Converted, Displayable, PullsAreOfTheVersion, IsOfTheVersion
  <2>2. CASE UNCHANGED shown BY <1>2, <2>1, <2>2 DEF Displayable
  <2>3. CASE ~UNCHANGED shown
    <3>1. converting[d][i] \in Conversions BY <1>7, ConvertedTypes
    <3>2. /\ IsCurrent(panel, d, converting[d][i].version)
          /\ shown' = [shown EXCEPT ![d] = converting[d][i].report]
      BY <1>7, <2>3 DEF Converted
    <3>3. /\ converting[d][i].version # 0
          /\ converting[d][i].report.of.version = converting[d][i].version
      BY <3>1 DEF Conversions
    <3>4. /\ shown'[d].of.version = document[d].version /\ document[d].version # 0
          /\ status \in {"Starting", "Ready"} /\ panel = generation
      BY <1>1, <3>2, <3>3 DEF IsCurrent, Displayable, PullsAreOfTheVersion, IsOfTheVersion,
                               PanelTypes
    <3>5. \A e \in Doc \ {d} : shown'[e] = shown[e] BY <3>2 DEF PanelTypes
    <3>6. ShownIsOfTheVersion' BY <1>1, <3>4, <3>5 DEF Displayable, ShownIsOfTheVersion
    <3>7. QED BY <2>1, <3>6 DEF Displayable
  <2>4. QED BY <2>2, <2>3
<1>8. ASSUME Refresh PROVE Displayable'
  <2>1. Pull(OpenDocs) /\ UNCHANGED shown BY <1>8 DEF Refresh
  <2>2. QED BY <1>3, <2>1
<1>9. QED BY <1>4, <1>5, <1>6, <1>7, <1>8 DEF Client

(* Nothing is pulled or shown once the diagnostics are disposed of. *)
LEMMA DisposedDisplays ==
    ASSUME Displayable, Dispose, UNCHANGED <<document, editorVersions>>
    PROVE  Displayable'
BY DEF Dispose, Nowhere, Displayable, PullsAreOfTheVersion, IsOfTheVersion, ShownIsOfTheVersion

LEMMA KeptDisplays ==
    ASSUME Displayable, UNCHANGED <<document, inflight, shown>>,
           editorVersions' = editorVersions \/ editorVersions' = Versions,
           \/ UNCHANGED <<status, generation, panel>>
           \/ status \notin {"Starting", "Ready"}
           \/ status = "Starting" /\ status' = "Ready" /\ UNCHANGED <<generation, panel>>
    PROVE  Displayable'
<1>1. PullsAreOfTheVersion' BY DEF Displayable, PullsAreOfTheVersion, IsOfTheVersion, Versions
<1>2. ShownIsOfTheVersion' BY DEF Displayable, ShownIsOfTheVersion
<1>3. QED BY <1>1, <1>2 DEF Displayable

LEMMA LifecycleDisplays ==
    ASSUME SessionTypes, SessionInv, PanelTypes, Displayable, Lifecycle
    PROVE  Displayable'
<1>1. CASE Begin /\ DisposedIfRetired
  <2>1. UNCHANGED <<document, editorVersions>> BY <1>1 DEF Begin
  <2>2. CASE Dispose BY <2>1, <2>2, DisposedDisplays
  <2>3. CASE command'.at # "stopping" /\ UNCHANGED diagnosticsVars
    <3>1. waiting \in Seq({"start", "restart", "stop"}) /\ waiting # <<>>
      BY <1>1 DEF Begin, SessionTypes
    <3>2. Head(waiting) \in Kinds /\ FALSE \in BOOLEAN BY <3>1 DEF Kinds
    <3>3. ~Retire(Head(waiting), FALSE)
      <4>1. SUFFICES ASSUME Retire(Head(waiting), FALSE) PROVE FALSE OBVIOUS
      <4>2. command'.at = "stopping" BY <3>2, <4>1, CommandTypes DEF Retire
      <4>3. QED BY <2>3, <4>2
    <3>4. \/ UNCHANGED <<status, generation>>
          \/ generation = 0
      BY <1>1, <3>3 DEF Begin
    <3>5. generation = 0 => status \notin {"Starting", "Ready"} BY DEF SessionInv, Named
    <3>6. UNCHANGED <<panel, inflight, shown>> BY <2>3 DEF diagnosticsVars
    <3>7. QED BY <2>1, <3>4, <3>5, <3>6, KeptDisplays
  <2>4. QED BY <1>1, <2>2, <2>3 DEF DisposedIfRetired
<1>2. CASE ClientStarted /\ StartDiagnostics
  <2>1. /\ UNCHANGED <<document, status, generation, shown>>
        /\ editorVersions' = Versions /\ panel' = generation
    BY <1>2 DEF ClientStarted, Ask, StartDiagnostics
  <2>2. ShownIsOfTheVersion' BY <2>1 DEF Displayable, ShownIsOfTheVersion
  <2>3. PullsAreOfTheVersion'
    <3>1. SUFFICES ASSUME NEW d \in Doc PROVE IsOfTheVersion(d)' BY DEF PullsAreOfTheVersion
    <3>2. inflight'[d] = IF d \in OpenDocs
                         THEN [version |-> document[d].version, previous |-> resultId[d]]
                         ELSE inflight[d]
      BY <1>2 DEF StartDiagnostics, Pull
    <3>3. QED
      BY <2>1, <3>2 DEF OpenDocs, Versions, Displayable, PullsAreOfTheVersion, IsOfTheVersion
  <2>4. QED BY <2>2, <2>3 DEF Displayable
<1>3. CASE StartFails /\ DisposedIfRetired
  <2>1. command.kind \in Kinds /\ TRUE \in BOOLEAN BY DEF SessionTypes, Commands
  <2>2. command'.at = "stopping" BY <1>3, <2>1, CommandTypes DEF StartFails, Retire
  <2>3. Dispose BY <1>3, <2>2 DEF DisposedIfRetired
  <2>4. QED BY <1>3, <2>3, DisposedDisplays DEF StartFails
<1>4. CASE Constructed /\ UNCHANGED diagnosticsVars
  <2>1. status \notin {"Starting", "Ready"} \/ generation # 0 BY DEF SessionInv, Named
  <2>2. generation = 0 BY <1>4 DEF Constructed, SessionInv, Named
  <2>3. status \notin {"Starting", "Ready"} BY <2>2 DEF SessionInv, Named
  <2>4. QED BY <1>4, <2>3, KeptDisplays DEF Constructed, diagnosticsVars
<1>5. CASE (Answered \/ Woken) /\ UNCHANGED diagnosticsVars
  <2>1. /\ UNCHANGED <<document, generation, panel, inflight, shown>>
        /\ editorVersions' = editorVersions \/ editorVersions' = Versions
        /\ status' = status \/ status' = "Ready"
    BY <1>5 DEF Answered, Woken, Ask, diagnosticsVars
  <2>2. status = "Starting" BY <1>5 DEF Answered, Woken, SessionInv, Named, Starts
  <2>3. QED BY <2>1, <2>2, KeptDisplays
<1>6. CASE ExitAcknowledged /\ UNCHANGED diagnosticsVars
  <2>1. status = "Retiring" BY <1>6 DEF ExitAcknowledged, SessionInv, Named, Stops
  <2>2. QED BY <1>6, <2>1, KeptDisplays DEF ExitAcknowledged, diagnosticsVars
<1>7. CASE Terminate /\ UNCHANGED diagnosticsVars
  BY <1>7, KeptDisplays DEF Terminate, diagnosticsVars
<1>8. QED BY <1>1, <1>2, <1>3, <1>4, <1>5, <1>6, <1>7 DEF Lifecycle

LEMMA SurroundingsDisplay ==
    ASSUME PanelTypes, Displayable, Surroundings \/ UNCHANGED vars
    PROVE  Displayable'
<1>1. CASE \E d \in Doc : Deferred(d)
  <2>1. /\ UNCHANGED <<document, editorVersions, status, generation, panel, shown>>
        /\ \A e \in Doc : inflight'[e] = inflight[e] \/ inflight'[e] = None
    BY <1>1 DEF Deferred, PanelTypes
  <2>2. QED BY <2>1 DEF Displayable, PullsAreOfTheVersion, IsOfTheVersion, ShownIsOfTheVersion
<1>2. CASE ~\E d \in Doc : Deferred(d)
  <2>1. UNCHANGED <<document, editorVersions, status, generation, panel, inflight, shown>>
    BY <1>2 DEF Surroundings, Revise, Command, ConstructRefused, Quits, Faulty, ExitEvent, vars,
                sessionVars, diagnosticsVars
  <2>2. QED BY <2>1, KeptDisplays
<1>3. QED BY <1>1, <1>2

-----------------------------------------------------------------------------
LEMMA InvInit == Init => Inv
<1> SUFFICES ASSUME Init PROVE Inv OBVIOUS
<1>1. Connection BY DEF Init, SessionInit, Connection
<1>2. PullsAreOfTheVersion
  BY DEF Init, SessionInit, DiagnosticsInit, Nowhere, Versions, PullsAreOfTheVersion, IsOfTheVersion
<1>3. ShownIsOfTheVersion BY DEF Init, DiagnosticsInit, Nowhere, ShownIsOfTheVersion
<1>4. QED BY <1>1, <1>2, <1>3, TypesInit, SessionInvInit DEF Inv, DiagnosticsInv

LEMMA InvNext == Inv /\ [Next]_vars => Inv'
<1> SUFFICES ASSUME Inv, [Next]_vars PROVE Inv' OBVIOUS
<1> USE DEF Inv, Types, DiagnosticsInv
<1>1. SessionTypes' /\ SessionInv' BY SessionTypesNext, SessionNext
<1>2. PanelTypes' BY PanelTypesNext
<1>3. Connection' BY <1>1, ConnectionNext
<1>4. Displayable BY DEF Displayable
<1>5. Displayable'
  <2>1. CASE Edits BY <1>4, <2>1, EditDisplays DEF Edits
  <2>2. CASE Client BY <2>2, ClientDisplays
  <2>3. CASE Lifecycle BY <1>4, <2>3, LifecycleDisplays
  <2>4. CASE Surroundings \/ UNCHANGED vars BY <1>4, <2>4, SurroundingsDisplay
  <2>5. QED BY <2>1, <2>2, <2>3, <2>4 DEF Next
<1>6. QED BY <1>1, <1>2, <1>3, <1>5 DEF Displayable

(* What is on display is of the version the document has, and of the        *)
(* generation that runs, whatever pulls, answers, conversions and timers    *)
(* overtake each other (EditorDiagnostics.mts: the gate is asked before and *)
(* after the conversion, edits clear, and a retirement disposes).           *)
THEOREM Freshness == Spec => []ShownIsOfTheVersion
<1>1. Inv => ShownIsOfTheVersion BY DEF Inv, DiagnosticsInv
<1>2. QED BY <1>1, InvInit, InvNext, PTL DEF Spec

-----------------------------------------------------------------------------
(* The report a pull is compared to.  While its identifier is kept, nothing *)
(* that would tell the server otherwise is under way, the gate accepts its  *)
(* version, the server has numbered every later revision higher, and it is  *)
(* the last one that is being converted, or is shown.                       *)
Current(d) ==
    /\ connected /\ unsent[d] = <<>>
    /\ resultId[d].of.version # 0 /\ IsCurrent(panel, d, resultId[d].of.version)
Identified(d) ==
    /\ resultId[d].numbered <= numbered
    /\ resultId[d].numbered = numbered =>
          resultId[d].revision = revision /\ resultId[d].of = ledger[d]
Latest(d) ==
    resultId[d] = IF converting[d] = <<>> THEN shown[d]
                  ELSE converting[d][Len(converting[d])].report
Previous(d) == inflight[d] # None => inflight[d].previous \in {None, resultId[d]}
Compared(d) == Previous(d) /\ (resultId[d] # None => Current(d) /\ Identified(d) /\ Latest(d))
ResultsInv == \A d \in Doc : Compared(d)

LEMMA ComparedIsServed ==
    ASSUME Inv, NEW d \in Doc, Compared(d), resultId[d] # None
    PROVE  /\ d \in Served /\ document[d].version # 0
           /\ generation # 0 /\ status \in {"Starting", "Ready"}
<1>1. Current(d) BY DEF Compared
<1>2. editorVersions[d] = resultId[d].of.version /\ editorVersions[d] # 0
  BY <1>1 DEF Current, IsCurrent
<1>3. document[d].version = editorVersions[d]
  BY <1>2 DEF Inv, DiagnosticsInv, PullsAreOfTheVersion, IsOfTheVersion
<1>4. ledger[d].version = document[d].version
  BY <1>1 DEF Current, Inv, DiagnosticsInv, Connection, Sent
<1>5. status \in {"Starting", "Ready"} /\ generation # 0
  BY <1>1 DEF Current, IsCurrent, Inv, SessionInv, Named
<1>6. QED BY <1>2, <1>3, <1>4, <1>5 DEF Served

LEMMA PullCompares ==
    ASSUME NEW d \in Doc, Compared(d), NEW docs, Pull(docs), UNCHANGED resultId
    PROVE  Previous(d)'
<1>1. CASE d \in docs
  <2>1. inflight'[d] = [version |-> document[d].version, previous |-> resultId[d]]
    BY <1>1 DEF Pull
  <2>2. QED BY <2>1 DEF Previous
<1>2. CASE d \notin docs
  <2>1. inflight'[d] = inflight[d] BY <1>2 DEF Pull
  <2>2. QED BY <2>1 DEF Compared, Previous
<1>3. QED BY <1>1, <1>2

(* Steps that pull, cancel a pull, or do nothing to a document. *)
LEMMA KeptCompares ==
    ASSUME NEW d \in Doc, Compared(d),
           Previous(d)' \/ inflight'[d] = inflight[d] \/ inflight'[d] = None,
           /\ resultId'[d] = resultId[d] /\ shown'[d] = shown[d]
           /\ converting'[d] = converting[d],
           resultId[d] # None =>
              /\ ledger'[d] = ledger[d] /\ unsent'[d] = unsent[d]
              /\ editorVersions'[d] = editorVersions[d]
              /\ connected' = connected /\ panel' = panel /\ generation' = generation
              /\ status' \in {"Starting", "Ready"}
              /\ Identified(d)'
    PROVE  Compared(d)'
<1>1. Previous(d)' BY DEF Compared, Previous
<1>2. ASSUME resultId'[d] # None PROVE Current(d)' /\ Identified(d)' /\ Latest(d)'
  <2>1. Current(d)' BY <1>2 DEF Compared, Current, IsCurrent
  <2>2. Latest(d)' BY <1>2 DEF Compared, Latest
  <2>3. QED BY <1>2, <2>1, <2>2
<1>3. QED BY <1>1, <1>2 DEF Compared

LEMMA UnnumberedCompares ==
    ASSUME NEW d \in Doc, Compared(d), resultId[d] # None, resultId'[d] = resultId[d],
           UNCHANGED <<numbered, revision>>, ledger'[d] = ledger[d]
    PROVE  Identified(d)'
BY DEF Compared, Identified

LEMMA NumberedCompares ==
    ASSUME PanelTypes, NEW d \in Doc, Compared(d), resultId[d] # None,
           resultId'[d] = resultId[d], numbered' = numbered + 1
    PROVE  Identified(d)'
<1>1. resultId[d] \in AnyReport /\ numbered \in Nat BY DEF PanelTypes
<1>2. resultId[d].numbered \in Nat BY <1>1 DEF AnyReport
<1>3. resultId[d].numbered <= numbered BY DEF Compared, Identified
<1>4. resultId'[d].numbered < numbered' BY <1>1, <1>2, <1>3
<1>5. QED BY <1>1, <1>2, <1>4 DEF Identified

LEMMA EditCompares ==
    ASSUME Inv, ResultsInv, Edits
    PROVE  ResultsInv'
<1>1. PICK d \in Doc :
         \/ OpenDoc(d) /\ UNCHANGED diagnosticsVars
         \/ (DocumentChanged(d) \/ DocumentClosed(d)) /\ Clear(d) /\ UNCHANGED numbered
  BY DEF Edits
<1>2. SUFFICES ASSUME NEW e \in Doc PROVE Compared(e)' BY DEF ResultsInv
<1>3. Compared(e) BY DEF ResultsInv
<1>4. CASE e = d /\ Clear(d)
  <2>1. inflight'[e] = None /\ resultId'[e] = None
    BY <1>4 DEF Clear, Inv, Types, PanelTypes
  <2>2. QED BY <2>1 DEF Compared, Previous
<1>5. CASE e = d /\ OpenDoc(d) /\ UNCHANGED diagnosticsVars
  <2>1. resultId[e] = None BY <1>3, <1>5, ComparedIsServed DEF OpenDoc
  <2>2. QED BY <1>3, <1>5, <2>1, KeptCompares DEF diagnosticsVars
<1>6. CASE e # d
  <2>1. /\ inflight'[e] = inflight[e] /\ resultId'[e] = resultId[e] /\ shown'[e] = shown[e]
        /\ UNCHANGED <<converting, panel, revision, numbered>>
    BY <1>1, <1>6 DEF Clear, diagnosticsVars, Inv, Types, PanelTypes
  <2>2. /\ editorVersions'[e] = editorVersions[e] /\ unsent'[e] = unsent[e]
        /\ UNCHANGED <<ledger, connected, generation, status>>
    BY <1>1, <1>6
    DEF OpenDoc, DocumentChanged, DocumentClosed, Told, lifeVars, Inv, Types, SessionTypes
  <2>3. QED
    BY <1>3, <2>1, <2>2, KeptCompares, ComparedIsServed, UnnumberedCompares
<1>7. QED BY <1>1, <1>4, <1>5, <1>6

LEMMA SendCompares ==
    ASSUME Inv, ResultsInv, NEW d \in Doc, Send(d), Observe(d)
    PROVE  ResultsInv'
<1>1. SUFFICES ASSUME NEW e \in Doc PROVE Compared(e)' BY DEF ResultsInv
<1>2. Compared(e) /\ Compared(d) BY DEF ResultsInv
<1>3. resultId[d] = None BY <1>2 DEF Compared, Current, Send
<1>4. /\ UNCHANGED <<converting, panel, revision, editorVersions, connected, generation, status>>
      /\ e # d => ledger'[e] = ledger[e] /\ unsent'[e] = unsent[e]
      /\ resultId'[e] = resultId[e]
      /\ shown'[e] = shown[e] \/ shown'[e] = None
      /\ e # d => shown'[e] = shown[e]
  BY <1>3 DEF Send, Observe, Clear, Inv, Types, SessionTypes, PanelTypes
<1>5. Previous(e)'
  <2>1. CASE inflight'[e] = inflight[e] BY <1>2, <1>4, <2>1 DEF Compared, Previous
  <2>2. CASE inflight'[e] = None BY <2>2 DEF Previous
  <2>3. CASE \E docs : Pull(docs) /\ UNCHANGED resultId BY <1>2, <2>3, PullCompares
  <2>4. CASE Clear(d) BY <2>1, <2>2, <2>4 DEF Clear, Inv, Types, PanelTypes
  <2>5. \/ UNCHANGED inflight
        \/ Clear(d)
        \/ \E docs : Pull(docs) /\ UNCHANGED resultId
    BY DEF Observe
  <2>6. QED BY <2>1, <2>3, <2>4, <2>5
<1>6. CASE resultId[e] = None BY <1>4, <1>5, <1>6 DEF Compared
<1>7. CASE resultId[e] # None
  <2>1. e # d BY <1>3, <1>7
  <2>2. e \in Served /\ status \in {"Starting", "Ready"} BY <1>2, <1>7, ComparedIsServed
  <2>3. numbered' = numbered + 1 BY <2>1, <2>2 DEF Observe
  <2>4. Identified(e)' BY <1>2, <1>4, <1>7, <2>3, NumberedCompares DEF Inv, Types
  <2>5. QED BY <1>2, <1>4, <1>5, <2>1, <2>2, <2>4, KeptCompares
<1>8. QED BY <1>6, <1>7

LEMMA ReportedCompares ==
    ASSUME Inv, ResultsInv, NEW d \in Doc, Reported(d)
    PROVE  ResultsInv'
<1> DEFINE pull == inflight[d]
           made == [version |-> pull.version, report |-> Report(d)]
           s == converting[d]
<1>1. SUFFICES ASSUME NEW e \in Doc PROVE Compared(e)' BY DEF ResultsInv
<1>2. Compared(e) /\ Compared(d) BY DEF ResultsInv
<1>3. /\ UNCHANGED <<panel, shown, revision, numbered, ledger, unsent, editorVersions, connected,
                     generation, status>>
      /\ inflight'[d] = None /\ \A c \in Doc \ {d} : inflight'[c] = inflight[c]
  BY DEF Reported, sessionVars, Inv, Types, PanelTypes
<1>4. CASE UNCHANGED <<resultId, converting>>
  <2>1. inflight'[e] = inflight[e] \/ inflight'[e] = None BY <1>3
  <2>2. QED BY <1>2, <1>3, <1>4, <2>1, KeptCompares, ComparedIsServed, UnnumberedCompares
<1>5. CASE /\ IsCurrent(panel, d, pull.version)
           /\ resultId' = [resultId EXCEPT ![d] = Report(d)]
           /\ converting' = IF /\ pull.previous # None
                               /\ Identifier(pull.previous) = Identifier(Report(d))
                            THEN converting
                            ELSE [converting EXCEPT ![d] = Append(@, made)]
  <2>1. CASE e # d
    <3>1. /\ inflight'[e] = inflight[e] /\ resultId'[e] = resultId[e]
          /\ converting'[e] = converting[e]
      BY <1>3, <1>5, <2>1 DEF Inv, Types, PanelTypes
    <3>2. QED BY <1>2, <1>3, <3>1, KeptCompares, ComparedIsServed, UnnumberedCompares
  <2>2. CASE e = d
    <3>1. /\ pull # None /\ pull.version = document[d].version /\ pull.version # 0
          /\ connected /\ unsent[d] = <<>>
      BY DEF Reported, Serving, Inv, DiagnosticsInv, PullsAreOfTheVersion, IsOfTheVersion
    <3>2. ledger[d].version = pull.version BY <3>1 DEF Inv, DiagnosticsInv, Connection, Sent
    <3>3. /\ Report(d) \in AnyReport /\ Report(d).of = ledger[d]
          /\ Report(d).revision = revision /\ Report(d).numbered = numbered
      BY DEF Report, AnyReport, Inv, Types, SessionTypes, PanelTypes
    <3>4. resultId'[d] = Report(d) BY <1>5 DEF Inv, Types, PanelTypes
    <3>5. Current(d)' BY <1>3, <1>5, <3>1, <3>2, <3>3, <3>4 DEF Current, IsCurrent
    <3>6. Identified(d)' BY <1>3, <3>3, <3>4 DEF Identified, Inv, Types, PanelTypes
    <3>7. s \in Seq(Conversions) BY DEF Inv, Types, PanelTypes
    <3>8. Latest(d)'
      <4>1. CASE /\ pull.previous # None
                 /\ Identifier(pull.previous) = Identifier(Report(d))
        <5>1. pull.previous = resultId[d] /\ resultId[d] # None
          BY <1>2, <3>1, <4>1 DEF Compared, Previous
        <5>2. resultId[d].numbered = numbered BY <3>3, <4>1, <5>1 DEF Identifier
        <5>3. resultId[d].revision = revision /\ resultId[d].of = ledger[d]
          BY <1>2, <5>1, <5>2 DEF Compared, Identified
        <5>4. resultId[d] \in AnyReport BY <5>1 DEF Inv, Types, PanelTypes
        <5>5. resultId[d] = Report(d) BY <3>3, <5>2, <5>3, <5>4 DEF AnyReport
        <5>6. Latest(d) BY <1>2, <5>1 DEF Compared
        <5>7. QED BY <1>3, <1>5, <3>4, <4>1, <5>5, <5>6 DEF Latest
      <4>2. CASE ~(/\ pull.previous # None
                   /\ Identifier(pull.previous) = Identifier(Report(d)))
        <5>1. converting'[d] = Append(s, made)
          BY <1>5, <4>2 DEF Inv, Types, PanelTypes
        <5>2. made.report = Report(d) OBVIOUS
        <5> HIDE DEF made, s
        <5>3. /\ Append(s, made) # <<>>
              /\ Append(s, made)[Len(Append(s, made))] = made
          BY <3>7
        <5>4. QED BY <3>4, <5>1, <5>2, <5>3 DEF Latest
      <4>3. QED BY <4>1, <4>2
    <3>9. Previous(d)' BY <1>3 DEF Previous
    <3>10. QED BY <2>2, <3>5, <3>6, <3>8, <3>9 DEF Compared
  <2>3. QED BY <2>1, <2>2
<1>6. QED BY <1>4, <1>5 DEF Reported

(* The first conversion of a document ends. *)
LEMMA FirstEnds ==
    ASSUME NEW S, NEW s \in Seq(S), s # <<>>, NEW t, t = SubSeq(s, 1, 0) \o SubSeq(s, 2, Len(s))
    PROVE  /\ Len(s) = 1 => t = <<>> /\ s[1] = s[Len(s)]
           /\ Len(s) # 1 => t # <<>> /\ t[Len(t)] = s[Len(s)]
<1>1. Len(s) \in Nat \ {0} BY EmptySeq
<1>2. /\ SubSeq(s, 1, 0) \in Seq(S) /\ Len(SubSeq(s, 1, 0)) = 0
      /\ SubSeq(s, 2, Len(s)) \in Seq(S) /\ Len(SubSeq(s, 2, Len(s))) = Len(s) - 1
      /\ \A i \in 1 .. Len(s) - 1 : SubSeq(s, 2, Len(s))[i] = s[i + 1]
  BY <1>1, SubSeqProperties
<1>3. /\ t \in Seq(S) /\ Len(t) = Len(s) - 1
      /\ \A i \in 1 .. Len(t) : t[i] = s[i + 1]
  BY <1>1, <1>2, ConcatProperties
<1>4. CASE Len(s) = 1
  <2>1. t # <<>> => Len(t) \in Nat \ {0} BY <1>3, EmptySeq
  <2>2. Len(t) = 0 BY <1>3, <1>4
  <2>3. t = <<>> BY <2>1, <2>2
  <2>4. QED BY <1>4, <2>3
<1>5. CASE Len(s) # 1
  <2>1. Len(t) \in 1 .. Len(t) BY <1>1, <1>3, <1>5
  <2>2. t[Len(t)] = s[Len(s)] BY <1>1, <1>3, <2>1
  <2>3. Len(t) # 0 BY <1>1, <1>3, <1>5
  <2>4. Len(<<>>) = 0 BY EmptySeq
  <2>5. t # <<>> BY <2>3, <2>4
  <2>6. QED BY <1>5, <2>2, <2>5
<1>6. QED BY <1>4, <1>5

LEMMA ConvertedCompares ==
    ASSUME InOrder, Inv, ResultsInv, NEW d \in Doc, NEW i \in DOMAIN converting[d], Converted(d, i)
    PROVE  ResultsInv'
<1> DEFINE s == converting[d]
<1>1. SUFFICES ASSUME NEW e \in Doc PROVE Compared(e)' BY DEF ResultsInv
<1>2. Compared(e) /\ Compared(d) BY DEF ResultsInv
<1>3. UNCHANGED <<panel, inflight, resultId, revision, numbered, ledger, unsent, editorVersions,
                  connected, generation, status>>
  BY DEF Converted, sessionVars
<1>4. i = 1 BY DEF Converted
<1>5. s \in Seq(Conversions) /\ s # <<>> /\ s[1] \in Conversions
  <2>1. s \in Seq(Conversions) BY DEF Inv, Types, PanelTypes
  <2>2. 1 \in DOMAIN s BY <1>4
  <2> HIDE DEF s
  <2>3. s # <<>> /\ s[1] \in Conversions BY <2>1, <2>2
  <2>4. QED BY <2>1, <2>3
<1>6. CASE e # d
  <2>1. converting'[e] = converting[e] /\ shown'[e] = shown[e]
    BY <1>6 DEF Converted, Inv, Types, PanelTypes
  <2>2. QED BY <1>2, <1>3, <2>1, KeptCompares, ComparedIsServed, UnnumberedCompares
<1>7. CASE e = d /\ resultId[d] = None BY <1>2, <1>3, <1>7 DEF Compared, Previous
<1>8. CASE e = d /\ resultId[d] # None
  <2>1. Current(d)' /\ Identified(d)' /\ Previous(d)'
    BY <1>2, <1>3, <1>8 DEF Compared, Current, IsCurrent, Identified, Previous
  <2>2. converting'[d] = SubSeq(s, 1, 0) \o SubSeq(s, 2, Len(s))
    BY <1>4 DEF Converted, Inv, Types, PanelTypes
  <2>3. resultId[d] = s[Len(s)].report BY <1>2, <1>5, <1>8 DEF Compared, Latest
  <2>4. Latest(d)'
    <3>1. CASE Len(s) = 1
      <4>1. converting'[d] = <<>> /\ s[1].report = resultId[d]
        BY <1>5, <2>2, <2>3, <3>1, FirstEnds
      <4>2. s[1].version = resultId[d].of.version BY <1>5, <4>1 DEF Conversions
      <4>3. IsCurrent(panel, d, s[1].version) BY <1>2, <1>8, <4>2 DEF Compared, Current
      <4>4. shown'[d] = resultId[d]
        BY <1>4, <4>1, <4>3 DEF Converted, Inv, Types, PanelTypes
      <4>5. QED BY <1>3, <4>1, <4>4 DEF Latest
    <3>2. CASE Len(s) # 1
      <4>1. converting'[d] # <<>> /\ converting'[d][Len(converting'[d])] = s[Len(s)]
        BY <1>5, <2>2, <3>2, FirstEnds
      <4>2. QED BY <1>3, <2>3, <4>1 DEF Latest
    <3>3. QED BY <3>1, <3>2
  <2>5. QED BY <1>8, <2>1, <2>4 DEF Compared
<1>9. QED BY <1>6, <1>7, <1>8

LEMMA OtherClientCompares ==
    ASSUME Inv, ResultsInv,
           \/ Refresh \/ \E d \in Doc : Retry(d)
           \/ \E d \in Doc : Deferred(d)
    PROVE  ResultsInv'
<1>1. SUFFICES ASSUME NEW e \in Doc PROVE Compared(e)' BY DEF ResultsInv
<1>2. Compared(e) BY DEF ResultsInv
<1>3. UNCHANGED <<panel, resultId, converting, shown, revision, numbered, ledger, unsent,
                  editorVersions, connected, generation, status>>
  BY DEF Refresh, Retry, Deferred, sessionVars
<1>4. Previous(e)' \/ inflight'[e] = inflight[e] \/ inflight'[e] = None
  <2>1. CASE \E docs : Pull(docs) BY <1>2, <1>3, <2>1, PullCompares
  <2>2. CASE \E d \in Doc : inflight' = [inflight EXCEPT ![d] = None]
    BY <2>2 DEF Inv, Types, PanelTypes
  <2>3. QED BY <2>1, <2>2 DEF Refresh, Retry, Deferred
<1>5. QED BY <1>2, <1>3, <1>4, KeptCompares, ComparedIsServed, UnnumberedCompares

LEMMA ReviseCompares ==
    ASSUME ~Moves, Inv, ResultsInv, Revise
    PROVE  ResultsInv'
<1>1. SUFFICES ASSUME NEW e \in Doc PROVE Compared(e)' BY DEF ResultsInv
<1>2. Compared(e) BY DEF ResultsInv
<1>3. UNCHANGED <<panel, inflight, resultId, converting, shown, ledger, unsent, editorVersions,
                  connected, generation, status>>
  BY DEF Revise, sessionVars
<1>4. ASSUME resultId[e] # None PROVE Identified(e)' /\ status \in {"Starting", "Ready"}
  <2>1. e \in Served /\ status \in {"Starting", "Ready"} BY <1>2, <1>4, ComparedIsServed
  <2>2. numbered' = numbered + 1 BY <2>1 DEF Revise
  <2>3. QED BY <1>2, <1>3, <1>4, <2>1, <2>2, NumberedCompares DEF Inv, Types
<1>5. QED BY <1>2, <1>3, <1>4, KeptCompares

LEMMA DisposedCompares == Dispose => ResultsInv'
BY DEF Dispose, Nowhere, ResultsInv, Compared, Previous

(* A step of the session that leaves the diagnostics alone. *)
LEMMA SessionCompares ==
    ASSUME Inv, ResultsInv, UNCHANGED diagnosticsVars,
           \/ status \notin {"Starting", "Ready"} \/ generation = 0
           \/ /\ UNCHANGED <<document, ledger, unsent, connected, generation>>
              /\ status' = status \/ status' = "Ready"
              /\ editorVersions' = editorVersions \/ editorVersions' = Versions
    PROVE  ResultsInv'
<1>1. SUFFICES ASSUME NEW e \in Doc PROVE Compared(e)' BY DEF ResultsInv
<1>2. Compared(e) BY DEF ResultsInv
<1>3. UNCHANGED <<panel, inflight, resultId, converting, shown, revision, numbered>>
  BY DEF diagnosticsVars
<1>4. CASE resultId[e] = None BY <1>2, <1>3, <1>4 DEF Compared, Previous
<1>5. CASE resultId[e] # None
  <2>1. status \in {"Starting", "Ready"} /\ generation # 0 BY <1>2, <1>5, ComparedIsServed
  <2>2. /\ UNCHANGED <<document, ledger, unsent, connected, generation>>
        /\ status' \in {"Starting", "Ready"}
        /\ editorVersions' = editorVersions \/ editorVersions' = Versions
    BY <2>1
  <2>3. editorVersions[e] = document[e].version
    <3>1. editorVersions[e] # 0 BY <1>2, <1>5 DEF Compared, Current, IsCurrent
    <3>2. QED BY <3>1 DEF Inv, DiagnosticsInv, PullsAreOfTheVersion, IsOfTheVersion
  <2>4. editorVersions'[e] = editorVersions[e] BY <2>2, <2>3 DEF Versions
  <2>5. Identified(e)' BY <1>2, <1>3, <1>5, <2>2, UnnumberedCompares
  <2>6. QED BY <1>2, <1>3, <2>2, <2>4, <2>5, KeptCompares
<1>6. QED BY <1>4, <1>5

LEMMA LifecycleCompares ==
    ASSUME Inv, ResultsInv, Lifecycle
    PROVE  ResultsInv'
<1> USE DEF Inv, Types
<1>1. CASE Begin /\ DisposedIfRetired
  <2>1. CASE Dispose BY <2>1, DisposedCompares
  <2>2. CASE command'.at # "stopping" /\ UNCHANGED diagnosticsVars
    <3>1. waiting \in Seq({"start", "restart", "stop"}) /\ waiting # <<>>
      BY <1>1 DEF Begin, SessionTypes
    <3>2. Head(waiting) \in Kinds /\ FALSE \in BOOLEAN BY <3>1 DEF Kinds
    <3>3. ~Retire(Head(waiting), FALSE)
      <4>1. SUFFICES ASSUME Retire(Head(waiting), FALSE) PROVE FALSE OBVIOUS
      <4>2. command'.at = "stopping" BY <3>2, <4>1, CommandTypes DEF Retire
      <4>3. QED BY <2>2, <4>2
    <3>4. \/ generation = 0
          \/ UNCHANGED <<status, generation, connected, unsent, ledger>>
      BY <1>1, <3>3 DEF Begin
    <3>5. UNCHANGED <<document, editorVersions>> BY <1>1 DEF Begin
    <3>6. QED BY <2>2, <3>4, <3>5, SessionCompares
  <2>3. QED BY <1>1, <2>1, <2>2 DEF DisposedIfRetired
<1>2. CASE ClientStarted /\ StartDiagnostics
  <2>1. SUFFICES ASSUME NEW e \in Doc PROVE Compared(e)' BY DEF ResultsInv
  <2>2. Compared(e) BY DEF ResultsInv
  <2>3. ~connected BY <1>2 DEF ClientStarted, DiagnosticsInv, Connection
  <2>4. resultId[e] = None BY <2>2, <2>3 DEF Compared, Current
  <2>5. UNCHANGED resultId /\ Pull(OpenDocs) BY <1>2 DEF StartDiagnostics
  <2>6. Previous(e)' BY <2>2, <2>5, PullCompares
  <2>7. QED BY <2>4, <2>5, <2>6 DEF Compared
<1>3. CASE StartFails /\ DisposedIfRetired
  <2>1. command.kind \in Kinds /\ TRUE \in BOOLEAN BY DEF SessionTypes, Commands
  <2>2. command'.at = "stopping" BY <1>3, <2>1, CommandTypes DEF StartFails, Retire
  <2>3. QED BY <1>3, <2>2, DisposedCompares DEF DisposedIfRetired
<1>4. CASE (Constructed \/ ExitAcknowledged \/ Terminate) /\ UNCHANGED diagnosticsVars
  <2>1. generation = 0 \/ status = "Retiring"
    BY <1>4 DEF Constructed, ExitAcknowledged, Terminate, SessionInv, Named, Stops
  <2>2. QED BY <1>4, <2>1, SessionCompares
<1>5. CASE (Answered \/ Woken) /\ UNCHANGED diagnosticsVars
  <2>1. /\ UNCHANGED <<document, ledger, unsent, connected, generation>>
        /\ status' = status \/ status' = "Ready"
        /\ editorVersions' = editorVersions \/ editorVersions' = Versions
    BY <1>5 DEF Answered, Woken, Ask
  <2>2. QED BY <1>5, <2>1, SessionCompares
<1>6. QED BY <1>1, <1>2, <1>3, <1>4, <1>5 DEF Lifecycle

LEMMA ResultsNext ==
    ASSUME InOrder, ~Moves, Inv, ResultsInv, [Next]_vars
    PROVE  ResultsInv'
<1>1. CASE Edits BY <1>1, EditCompares
<1>2. CASE Client
  <2>1. CASE Refresh \/ \E d \in Doc : Retry(d) BY <2>1, OtherClientCompares
  <2>2. CASE \E d \in Doc : Send(d) /\ Observe(d) BY <2>2, SendCompares
  <2>3. CASE \E d \in Doc : Reported(d) BY <2>3, ReportedCompares
  <2>4. CASE \E d \in Doc : \E i \in DOMAIN converting[d] : Converted(d, i)
    BY <2>4, ConvertedCompares
  <2>5. QED BY <1>2, <2>1, <2>2, <2>3, <2>4 DEF Client
<1>3. CASE Lifecycle BY <1>3, LifecycleCompares
<1>4. CASE Surroundings
  <2>1. CASE Revise BY <2>1, ReviseCompares
  <2>2. CASE \E d \in Doc : Deferred(d) BY <2>2, OtherClientCompares
  <2>3. CASE /\ UNCHANGED diagnosticsVars
             /\ \/ \E kind \in {"restart", "stop"} : Command(kind)
                \/ ConstructRefused \/ Quits
                \/ \E g \in Generation : Faulty(g) \/ ExitEvent(g)
    <3>1. UNCHANGED <<document, ledger, unsent, connected, generation, status, editorVersions>>
      BY <2>3 DEF Command, ConstructRefused, Quits, Faulty, ExitEvent
    <3>2. QED BY <2>3, <3>1, SessionCompares
  <2>4. QED BY <1>4, <2>1, <2>2, <2>3 DEF Surroundings
<1>5. CASE UNCHANGED vars
  <2>1. UNCHANGED <<document, ledger, unsent, connected, generation, status, editorVersions>>
    BY <1>5 DEF vars, sessionVars
  <2>2. UNCHANGED diagnosticsVars BY <1>5 DEF vars
  <2>3. QED BY <2>1, <2>2, SessionCompares
<1>6. QED BY <1>1, <1>2, <1>3, <1>4, <1>5 DEF Next

(* As long as documents stay in their projects and the conversions of a     *)
(* document end in order, an answer `unchanged' leaves the right report on  *)
(* display: an identifier is of one report (Server.ts: diagnosticResultId), *)
(* and the report whose identifier is kept before its conversion is awaited *)
(* is the one that is shown after it (EditorDiagnostics.mts: pull).         *)
THEOREM Identity ==
    ASSUME InOrder, ~Moves
    PROVE  Spec => []ResultIsShown
<1>1. Init => ResultsInv
  BY DEF Init, DiagnosticsInit, Nowhere, ResultsInv, Compared, Previous
<1>2. Inv /\ ResultsInv /\ [Next]_vars => (Inv /\ ResultsInv)' BY InvNext, ResultsNext
<1>3. ResultsInv => ResultIsShown BY DEF ResultsInv, Compared, Latest, ResultIsShown
<1>4. QED BY <1>1, <1>2, <1>3, InvInit, PTL DEF Spec

-----------------------------------------------------------------------------
(* The bounds.  A process is constructed at most once for a command: those  *)
(* that wait, and a restart that is still retiring, may construct one each, *)
(* and a stop, which no command follows, none.                              *)
Due == IF command.kind = "restart" /\ Stops /\ ~command.failed THEN 1 ELSE 0
Stopped == restarts = MaxRestarts + 1

Constructible ==
    /\ \A i \in 1 .. Len(waiting) : waiting[i] = "stop" <=> Stopped /\ i = Len(waiting)
    /\ nextGeneration + Len(waiting) + Due <=
          IF ~Stopped THEN restarts + 1
          ELSE IF Len(waiting) = 0 THEN MaxRestarts + 1 ELSE MaxRestarts + 2

Generations == {0} \cup Generation
Registers ==
    /\ status \in {"Absent", "Starting", "Ready", "Retiring", "Unavailable"}
    /\ generation \in Generations /\ exited \subseteq Generation
    /\ connected \in BOOLEAN /\ signal \in BOOLEAN /\ refresh \in BOOLEAN
    /\ restarts \in 0 .. MaxRestarts + 1 /\ faults \in 0 .. MaxFaults
    /\ panel \in Generations /\ retry \subseteq Doc

Bounds == Registers /\ Constructible

LEMMA GenerationsAreBounded ==
    ASSUME SessionTypes, Bounds
    PROVE  nextGeneration \in Generations
<1>1. Len(waiting) \in Nat /\ Due \in {0, 1} /\ nextGeneration \in Nat
  BY LenProperties DEF SessionTypes, Due
<1>2. nextGeneration <= MaxRestarts + 1
  BY <1>1, EditorAssumption DEF Bounds, Registers, Constructible, Stopped
<1>3. QED BY <1>1, <1>2, EditorAssumption DEF Generations, Generation

LEMMA BeginConstructs ==
    ASSUME SessionTypes, Bounds, Begin
    PROVE  Constructible'
<1> DEFINE kind == Head(waiting)
           S == {"start", "restart", "stop"}
<1>1. waiting \in Seq(S) /\ waiting # <<>> /\ waiting' = Tail(waiting) BY DEF Begin, SessionTypes
<1>2. /\ Len(waiting) \in Nat \ {0} /\ kind = waiting[1] /\ kind \in S
      /\ Len(waiting') = Len(waiting) - 1
      /\ \A i \in 1 .. Len(waiting') : waiting'[i] = waiting[i + 1]
  BY <1>1, HeadTailProperties, EmptySeq
<1>3. restarts' = restarts /\ nextGeneration \in Nat /\ command.at = "idle"
  BY CommandTypes DEF Begin, SessionTypes
<1>4. /\ \A i \in 1 .. Len(waiting) : waiting[i] = "stop" <=> Stopped /\ i = Len(waiting)
      /\ nextGeneration + Len(waiting) + Due <=
            IF ~Stopped THEN restarts + 1
            ELSE IF Len(waiting) = 0 THEN MaxRestarts + 1 ELSE MaxRestarts + 2
  BY DEF Bounds, Constructible
<1>5. Due = 0 BY <1>3 DEF Due, Stops
<1>6. kind = "stop" <=> Stopped /\ Len(waiting) = 1 BY <1>2, <1>4
<1>7. \A i \in 1 .. Len(waiting') : waiting'[i] = "stop" <=> Stopped' /\ i = Len(waiting')
  BY <1>2, <1>3, <1>4 DEF Stopped
<1>8. \/ /\ nextGeneration' = nextGeneration + 1 /\ Due' = 0 /\ kind # "stop"
      \/ /\ nextGeneration' = nextGeneration
         /\ Due' = 0 \/ (Due' = 1 /\ kind = "restart")
  <2>1. CASE UNCHANGED <<nextGeneration, command>> BY <1>3, <2>1 DEF Due, Stops
  <2>2. CASE Construct(kind) /\ kind # "stop"
    <3>1. kind \in Kinds BY <1>2 DEF Kinds
    <3>2. command'.at = "constructing" BY <2>2, <3>1, CommandTypes DEF Construct
    <3>3. QED BY <2>2, <3>2 DEF Due, Stops, Construct
  <2>3. CASE Retire(kind, FALSE) /\ nextGeneration' = nextGeneration
    <3>1. command' = [Free EXCEPT !.kind = kind, !.at = "stopping", !.failed = FALSE]
      BY <2>3 DEF Retire
    <3>2. command'.kind = kind BY <3>1 DEF Free
    <3>3. QED BY <2>3, <3>2 DEF Due
  <2>4. QED BY <2>1, <2>2, <2>3 DEF Begin
<1> HIDE DEF kind
<1>9. nextGeneration' + Len(waiting') + Due' <=
            IF ~Stopped' THEN restarts' + 1
            ELSE IF Len(waiting') = 0 THEN MaxRestarts + 1 ELSE MaxRestarts + 2
  <2>1. restarts \in Nat /\ MaxRestarts \in Nat /\ Stopped' = Stopped
    BY <1>3, EditorAssumption DEF Bounds, Registers, Stopped
  <2>2. nextGeneration' + Len(waiting') + Due' <= nextGeneration + Len(waiting)
    BY <1>2, <1>3, <1>8
  <2>3. CASE ~Stopped BY <1>2, <1>3, <1>4, <1>5, <1>8, <2>1, <2>3
  <2>4. CASE Stopped /\ Len(waiting) = 1
    <3>1. kind = "stop" BY <1>6, <2>4
    <3>2. nextGeneration' = nextGeneration /\ Due' = 0 BY <1>8, <3>1
    <3>3. QED BY <1>2, <1>3, <1>4, <1>5, <2>1, <2>4, <3>2
  <2>5. CASE Stopped /\ Len(waiting) # 1 BY <1>2, <1>3, <1>4, <1>5, <1>8, <2>1, <2>5
  <2>6. QED BY <2>3, <2>4, <2>5
<1>10. QED BY <1>7, <1>9 DEF Constructible

LEMMA CommandConstructs ==
    ASSUME SessionTypes, Bounds, NEW kind \in {"restart", "stop"}, Command(kind)
    PROVE  Constructible'
<1> DEFINE S == {"start", "restart", "stop"}
<1>1. waiting \in Seq(S) /\ waiting' = Append(waiting, kind) /\ kind \in S
  BY DEF Command, SessionTypes
<1>2. /\ Len(waiting) \in Nat /\ Len(waiting') = Len(waiting) + 1
      /\ waiting'[Len(waiting) + 1] = kind
      /\ \A i \in 1 .. Len(waiting) : waiting'[i] = waiting[i]
  BY <1>1, AppendProperties, LenProperties
<1>3. /\ UNCHANGED <<nextGeneration, command>> /\ nextGeneration \in Nat /\ Due' = Due
      /\ Due \in {0, 1}
      /\ restarts \in Nat /\ MaxRestarts \in Nat
  BY EditorAssumption DEF Command, SessionTypes, Bounds, Registers, Due, Stops
<1>4. /\ ~Stopped
      /\ kind = "stop" <=> Stopped'
      /\ kind = "restart" => restarts' = restarts + 1
      /\ restarts <= MaxRestarts
  BY <1>3 DEF Command, Stopped
<1>5. /\ \A i \in 1 .. Len(waiting) : waiting[i] # "stop"
      /\ nextGeneration + Len(waiting) + Due <= restarts + 1
  BY <1>4 DEF Bounds, Constructible
<1>6. \A i \in 1 .. Len(waiting') : waiting'[i] = "stop" <=> Stopped' /\ i = Len(waiting')
  BY <1>2, <1>4, <1>5
<1>7. nextGeneration' + Len(waiting') + Due' <=
            IF ~Stopped' THEN restarts' + 1
            ELSE IF Len(waiting') = 0 THEN MaxRestarts + 1 ELSE MaxRestarts + 2
  BY <1>2, <1>3, <1>4, <1>5
<1>8. QED BY <1>6, <1>7 DEF Constructible

(* A step that constructs nothing, or constructs what is due. *)
LEMMA KeptConstructs ==
    ASSUME SessionTypes, Bounds, UNCHANGED <<waiting, restarts>>,
           nextGeneration' \in Nat, nextGeneration' + Due' <= nextGeneration + Due
    PROVE  Constructible'
<1>1. Len(waiting) \in Nat /\ Due \in Nat /\ Due' \in Nat /\ nextGeneration \in Nat
  BY LenProperties DEF SessionTypes, Due
<1>2. /\ waiting' = waiting /\ restarts' = restarts /\ (Stopped' <=> Stopped)
      /\ restarts \in Nat /\ MaxRestarts \in Nat
  BY EditorAssumption DEF Bounds, Registers, Stopped
<1>3. \A i \in 1 .. Len(waiting') : waiting'[i] = "stop" <=> Stopped' /\ i = Len(waiting')
  BY <1>2 DEF Bounds, Constructible
<1>4. nextGeneration' + Len(waiting') + Due' <=
            IF ~Stopped' THEN restarts' + 1
            ELSE IF Len(waiting') = 0 THEN MaxRestarts + 1 ELSE MaxRestarts + 2
  <2>1. nextGeneration' + Len(waiting) + Due' <= nextGeneration + Len(waiting) + Due
    <3>1. \A n, m, l, c, d \in Nat : n + c <= m + d => n + l + c <= m + l + d OBVIOUS
    <3>2. QED BY <1>1, <3>1
  <2>2. nextGeneration + Len(waiting) + Due <=
            IF ~Stopped THEN restarts + 1
            ELSE IF Len(waiting) = 0 THEN MaxRestarts + 1 ELSE MaxRestarts + 2
    BY DEF Bounds, Constructible
  <2>3. QED BY <1>1, <1>2, <2>1, <2>2
<1>5. QED BY <1>3, <1>4 DEF Constructible

LEMMA ConstructibleNext == SessionTypes /\ SessionInv /\ Bounds /\ [Next]_vars => Constructible'
<1> SUFFICES ASSUME SessionTypes, SessionInv, Bounds, [Next]_vars PROVE Constructible' OBVIOUS
<1>1. CASE UNCHANGED <<waiting, restarts, nextGeneration, command>>
  <2>1. nextGeneration' + Due' = nextGeneration + Due BY <1>1 DEF Due, Stops
  <2>2. nextGeneration \in Nat /\ Due \in {0, 1} BY DEF SessionTypes, Due
  <2>3. QED BY <1>1, <2>1, <2>2, KeptConstructs
<1>2. CASE Documents
  <2>1. UNCHANGED <<waiting, restarts, nextGeneration, command>>
    BY <1>2 DEF Documents, OpenDoc, DocumentChanged, DocumentClosed, Send, lifeVars
  <2>2. QED BY <1>1, <2>1
<1>3. CASE Begin BY <1>3, BeginConstructs
<1>4. CASE StartSteps
  <2>1. UNCHANGED <<waiting, restarts, nextGeneration>> /\ ~Stops /\ nextGeneration \in Nat
    BY <1>4 DEF StartSteps, Constructed, ConstructRefused, ClientStarted, Answered, Woken, Stops,
                SessionTypes
  <2>2. ~Stops'
    <3>1. /\ Free.at = "idle" /\ At("client").at = "client" /\ At("waiting").at = "waiting"
      BY CommandTypes DEF Points
    <3>2. CASE Constructed BY <3>1, <3>2 DEF Constructed, Stops
    <3>3. CASE ConstructRefused BY <3>1, <3>3 DEF ConstructRefused, Stops
    <3>4. CASE Ask BY <3>4, AskTypes DEF Stops
    <3>5. CASE command' = Free \/ command' = At("waiting") BY <3>1, <3>5 DEF Stops
    <3>6. QED BY <1>4, <3>2, <3>3, <3>4, <3>5 DEF StartSteps, ClientStarted, Answered, Woken
  <2>3. Due = 0 /\ Due' = 0 BY <2>1, <2>2 DEF Due
  <2>4. QED BY <2>1, <2>3, KeptConstructs
<1>5. CASE EndSteps
  <2>1. UNCHANGED <<waiting, restarts>> /\ nextGeneration \in Nat /\ command \in Commands
    BY <1>5 DEF EndSteps, StartFails, ExitAcknowledged, Terminate, SessionTypes
  <2>2. CASE StartFails
    <3>1. command' = [Free EXCEPT !.kind = command.kind, !.at = "stopping", !.failed = TRUE]
      BY <2>2 DEF StartFails, Retire
    <3>2. command'.failed = TRUE BY <3>1 DEF Free
    <3>3. Due' = 0 /\ Due \in {0, 1} /\ nextGeneration' = nextGeneration
      BY <2>2, <3>2 DEF Due, StartFails
    <3>4. QED BY <2>1, <3>3, KeptConstructs
  <2>3. CASE ExitAcknowledged
    <3>1. Stops BY <2>3 DEF ExitAcknowledged, Stops
    <3>2. CASE command.kind = "restart" /\ ~command.failed
      <4>1. Construct("restart") BY <2>3, <3>2 DEF ExitAcknowledged, Retired
      <4>2. command'.at = "constructing" BY <4>1, CommandTypes DEF Construct, Kinds
      <4>3. Due = 1 /\ Due' = 0 BY <3>1, <3>2, <4>2 DEF Due, Stops
      <4>4. QED BY <2>1, <4>1, <4>3, KeptConstructs DEF Construct
    <3>3. CASE ~(command.kind = "restart" /\ ~command.failed)
      <4>1. command' = Free /\ nextGeneration' = nextGeneration
        BY <2>3, <3>3 DEF ExitAcknowledged, Retired
      <4>2. Due = 0 /\ Due' = 0 BY <3>3, <4>1, CommandTypes DEF Due, Stops
      <4>3. QED BY <2>1, <4>1, <4>2, KeptConstructs
    <3>4. QED BY <3>2, <3>3
  <2>4. CASE Terminate
    <3>1. /\ command'.kind = command.kind /\ command'.failed = command.failed
          /\ Stops /\ nextGeneration' = nextGeneration
      BY <2>4, CommandTypes DEF Terminate, Points, Stops
    <3>2. Due' <= Due /\ Due \in Nat /\ Due' \in Nat BY <3>1 DEF Due
    <3>3. nextGeneration' \in Nat /\ nextGeneration' + Due' <= nextGeneration + Due
      <4>1. \A n, c, d \in Nat : c <= d => n + c <= n + d OBVIOUS
      <4>2. QED BY <2>1, <3>1, <3>2, <4>1
    <3>4. QED BY <2>1, <3>3, KeptConstructs
  <2>5. QED BY <1>5, <2>2, <2>3, <2>4 DEF EndSteps
<1>6. CASE ProcessSteps
  <2>1. CASE \E kind \in {"restart", "stop"} : Command(kind) BY <2>1, CommandConstructs
  <2>2. CASE Quits \/ \E g \in Generation : Faulty(g) \/ ExitEvent(g)
    <3>1. UNCHANGED <<waiting, restarts, nextGeneration, command>>
      BY <2>2 DEF Quits, Faulty, ExitEvent
    <3>2. QED BY <1>1, <3>1
  <2>3. QED BY <1>6, <2>1, <2>2 DEF ProcessSteps
<1>7. CASE Elsewhere BY <1>1, <1>7 DEF Elsewhere
<1>8. QED BY <1>2, <1>3, <1>4, <1>5, <1>6, <1>7, SessionSteps

LEMMA RegistersNext == SessionTypes /\ Bounds /\ [Next]_vars => Registers'
<1> SUFFICES ASSUME SessionTypes, Bounds, [Next]_vars PROVE Registers' OBVIOUS
<1>1. Registers /\ nextGeneration \in Generations BY GenerationsAreBounded DEF Bounds
<1>2. 0 \in Generations /\ MaxRestarts \in Nat /\ MaxFaults \in Nat
  BY EditorAssumption DEF Generations
<1>3. /\ refresh' \in BOOLEAN /\ panel' \in Generations /\ retry' \subseteq Doc
  <2>1. CASE UNCHANGED diagnosticsVars BY <1>1, <2>1 DEF Registers, diagnosticsVars
  <2>2. CASE Dispose BY <1>2, <2>2 DEF Dispose
  <2>3. CASE StartDiagnostics BY <1>1, <2>3 DEF StartDiagnostics, Registers
  <2>4. CASE \E d \in Doc : Clear(d) BY <1>1, <2>4 DEF Clear, Registers
  <2>5. CASE \E d \in Doc : Observe(d) BY <1>1, <2>5 DEF Observe, Clear, Registers
  <2>6. CASE \E d \in Doc : Reported(d) \/ Retry(d) \/ Deferred(d)
                              \/ \E i \in DOMAIN converting[d] : Converted(d, i)
    BY <1>1, <2>6 DEF Reported, Retry, Deferred, Converted, Registers
  <2>7. CASE Refresh \/ Revise BY <1>1, <2>7 DEF Refresh, Revise, Registers
  <2>8. QED BY <2>1, <2>2, <2>3, <2>4, <2>5, <2>6, <2>7
         DEF Next, Edits, Client, Lifecycle, Surroundings, DisposedIfRetired, vars
<1>4. faults' \in 0 .. MaxFaults
  <2>1. \/ faults' = faults
        \/ faults < MaxFaults /\ faults' = faults + 1
    <3>1. CASE Edits BY <3>1 DEF Edits, OpenDoc, DocumentChanged, DocumentClosed, lifeVars
    <3>2. CASE Client BY <3>2 DEF Client, Send, Reported, Retry, Converted, Refresh, sessionVars
    <3>3. CASE Lifecycle
      BY <3>3 DEF Lifecycle, Begin, ClientStarted, StartFails, Constructed, Answered, Woken,
                  ExitAcknowledged, Terminate
    <3>4. CASE Surroundings
      BY <3>4 DEF Surroundings, Command, ConstructRefused, Quits, Faulty, ExitEvent, Revise,
                  Deferred, sessionVars
    <3>5. CASE UNCHANGED vars BY <3>5 DEF vars, sessionVars
    <3>6. QED BY <3>1, <3>2, <3>3, <3>4, <3>5 DEF Next
  <2>2. QED BY <1>1, <1>2, <2>1 DEF Registers
<1>5. /\ status' \in {"Absent", "Starting", "Ready", "Retiring", "Unavailable"}
      /\ generation' \in Generations /\ exited' \subseteq Generation
      /\ connected' \in BOOLEAN /\ signal' \in BOOLEAN
      /\ restarts' \in 0 .. MaxRestarts + 1
  <2>1. CASE Documents
    BY <1>1, <2>1 DEF Documents, OpenDoc, DocumentChanged, DocumentClosed, Send, lifeVars, Registers
  <2>2. CASE Begin BY <1>1, <2>2 DEF Begin, Retire, Registers
  <2>3. CASE StartSteps
    BY <1>1, <2>3 DEF StartSteps, Constructed, ConstructRefused, ClientStarted, Answered, Woken,
                      Registers
  <2>4. CASE EndSteps
    BY <1>1, <1>2, <2>4 DEF EndSteps, StartFails, ExitAcknowledged, Terminate, Retire, Retired,
                            Registers
  <2>5. CASE ProcessSteps
    BY <1>1, <1>2, <2>5 DEF ProcessSteps, Quits, Faulty, ExitEvent, Command, Registers
  <2>6. CASE Elsewhere BY <1>1, <2>6 DEF Elsewhere, Registers
  <2>7. QED BY <2>1, <2>2, <2>3, <2>4, <2>5, <2>6, SessionSteps
<1>6. QED BY <1>3, <1>4, <1>5 DEF Registers

LEMMA BoundsInit == Init => Bounds
<1> SUFFICES ASSUME Init PROVE Bounds OBVIOUS
<1>1. /\ MaxRestarts \in Nat /\ MaxFaults \in Nat BY EditorAssumption
<1>2. Registers
  <2>1. /\ status = "Absent" /\ generation = 0 /\ panel = 0 /\ restarts = 0 /\ faults = 0
        /\ exited = {} /\ retry = {}
    BY DEF Init, SessionInit, DiagnosticsInit
  <2>2. connected \in BOOLEAN /\ signal \in BOOLEAN /\ refresh \in BOOLEAN
    BY DEF Init, SessionInit, DiagnosticsInit
  <2>3. QED BY <1>1, <2>1, <2>2 DEF Registers, Generations
<1>3. /\ waiting = <<"start">> /\ nextGeneration = 0 /\ restarts = 0 /\ command.at = "idle"
  BY DEF Init, SessionInit, Free
<1>4. Len(waiting) = 1 /\ waiting[1] = "start" /\ Due = 0 /\ ~Stopped
  BY <1>1, <1>3 DEF Due, Stops, Stopped
<1>5. Constructible BY <1>1, <1>3, <1>4 DEF Constructible
<1>6. QED BY <1>2, <1>5 DEF Bounds

(* Type correctness of the session, the processes, the documents and the    *)
(* diagnostics; that no more processes are constructed than commands ask    *)
(* for is part of it (EditorSession.mts: start, restart, stop).             *)
THEOREM Typing == Spec => []TypeOK
<1>1. Inv /\ Bounds => TypeOK
  <2> SUFFICES ASSUME Inv, Bounds PROVE TypeOK OBVIOUS
  <2>1. SessionTypes /\ PanelTypes /\ PullsAreOfTheVersion BY DEF Inv, Types, DiagnosticsInv
  <2>2. Text = DocState /\ AnyReport = Reports BY DEF Text, DocState, AnyReport, Reports
  <2>3. nextGeneration \in Generations BY <2>1, GenerationsAreBounded
  <2>4. /\ document \in [Doc -> DocState] /\ ledger \in [Doc -> DocState]
        /\ unsent \in [Doc -> Seq([kind : {"open", "change", "close"}, of : DocState])]
        /\ editorVersions \in [Doc -> 0 .. MaxVersion]
        /\ waiting \in Seq({"start", "restart", "stop"})
        /\ process \in [Generation -> {"none", "running", "wedged", "dead"}]
    BY <2>1, <2>2 DEF SessionTypes, Notes
  <2>5. command \in
          [kind : {"none", "start", "restart", "stop"}, failed : BOOLEAN,
           expected : [Doc -> 0 .. MaxVersion],
           at : {"idle", "constructing", "client", "asking", "waiting", "stopping", "terminating"}]
    BY <2>1 DEF SessionTypes, Commands, Kinds, Points
  <2>6. inflight \in [Doc -> {None} \cup [version : 1 .. MaxVersion,
                                         previous : {None} \cup Reports]]
    <3>1. SUFFICES ASSUME NEW d \in Doc, inflight[d] # None
                   PROVE  inflight[d] \in
                            [version : 1 .. MaxVersion, previous : {None} \cup Reports]
      BY <2>1 DEF PanelTypes
    <3>2. inflight[d] \in AnyPull /\ inflight[d].version # 0
      BY <2>1, <3>1 DEF PanelTypes, PullsAreOfTheVersion, IsOfTheVersion
    <3>3. QED BY <2>2, <3>2 DEF AnyPull
  <2>7. /\ resultId \in [Doc -> {None} \cup Reports] /\ shown \in [Doc -> {None} \cup Reports]
        /\ revision \in 0 .. MaxRevision /\ numbered \in Nat
    BY <2>1, <2>2 DEF PanelTypes
  <2>8. converting \in [Doc -> Seq([version : 1 .. MaxVersion, report : Reports])]
    <3>1. Conversions \subseteq [version : 1 .. MaxVersion, report : Reports]
      BY <2>2 DEF Conversions
    <3>2. ASSUME NEW d \in Doc
          PROVE  converting[d] \in Seq([version : 1 .. MaxVersion, report : Reports])
      <4>1. converting[d] \in Seq(Conversions) BY <2>1 DEF PanelTypes
      <4>2. QED BY <3>1, <4>1, SeqMonotonic
    <3>3. QED BY <2>1, <3>2 DEF PanelTypes
  <2>9. QED BY <2>3, <2>4, <2>5, <2>6, <2>7, <2>8 DEF TypeOK, Bounds, Registers, Generations
<1>2. Inv /\ Bounds /\ [Next]_vars => Bounds'
  BY ConstructibleNext, RegistersNext DEF Inv, Types, Bounds
<1>3. QED BY <1>1, <1>2, InvInit, InvNext, BoundsInit, PTL DEF Spec
=============================================================================
