--------------------------- MODULE EditorSession ---------------------------
(***************************************************************************)
(* The editor extension's session: the commands that start, restart and    *)
(* stop the language server, one at a time, the server process each of     *)
(* them owns, and the documents of the editor, which the language client   *)
(* tells the server about.                                                 *)
(***************************************************************************)
EXTENDS Integers, Sequences

CONSTANTS
    Doc,
    MaxRestarts,    \* bound: restart commands the user gives
    MaxOpenings,    \* bound: how often a document is opened
    MaxVersion,     \* bound: the versions of one opening
    MaxFaults,      \* bound: faults of server processes
    Faults          \* which of AllFaults may happen

AllFaults == {"crash", "wedge", "wedgedStart", "refuse"}

ASSUME EditorAssumption ==
    /\ MaxRestarts \in Nat /\ MaxOpenings \in Nat /\ MaxFaults \in Nat
    /\ MaxVersion \in Nat \ {0}
    /\ Faults \subseteq AllFaults

VARIABLES
    document,       \* the editor's documents; version 0 is closed
    unsent,         \* notifications the language client is sending
    ledger,         \* what the server of this generation has accepted
    status,         \* status._tag
    generation,     \* the generation status names, 0 if it names none
    nextGeneration,
    editorVersions, \* the versions the diagnostic gate accepts, 0 for none
    process,        \* the server process of each generation
    exited,         \* generations whose exit the extension has observed
    connected,      \* whether the client of this generation has started
    signal,         \* the sliding queue of capacity one
    command,        \* the command that holds the permit
    waiting,        \* the commands that wait for it
    restarts,       \* how many restarts were commanded
    faults          \* how many faults happened

sessionVars == <<document, unsent, ledger, status, generation, nextGeneration, editorVersions,
                 process, exited, connected, signal, command, waiting, restarts, faults>>
lifeVars == <<status, generation, nextGeneration, process, exited, connected, signal, command,
              waiting, restarts, faults>>

Generation == 1 .. MaxRestarts + 1
Closed(n) == [opening |-> n, version |-> 0]
Versions == [d \in Doc |-> document[d].version]
OpenDocs == {d \in Doc : document[d].version # 0}
Note(kind, d) == [kind |-> kind, of |-> document[d]]

NoVersions == [d \in Doc |-> 0]
NoNotes == [d \in Doc |-> <<>>]
NoLedger == [d \in Doc |-> Closed(0)]

Free == [kind |-> "none", at |-> "idle", failed |-> FALSE, expected |-> NoVersions]
At(point) == [command EXCEPT !.at = point]

-----------------------------------------------------------------------------
SessionInit ==
    /\ document \in [Doc -> {Closed(0), [opening |-> 1, version |-> 1]}]
    /\ editorVersions = Versions
    /\ unsent = NoNotes /\ ledger = NoLedger
    /\ status = "Absent" /\ generation = 0 /\ nextGeneration = 0
    /\ process = [g \in Generation |-> "none"] /\ exited = {}
    /\ connected = FALSE /\ signal = FALSE
    /\ command = Free /\ waiting = <<"start">>
    /\ restarts = 0 /\ faults = 0

(* The gate of the generation that g's diagnostics were constructed with. *)
IsCurrent(g, d, version) ==
    /\ status \in {"Starting", "Ready"} /\ generation = g
    /\ editorVersions[d] = version

-----------------------------------------------------------------------------
(* The editor's documents.  The session is told of changes and closes, the *)
(* language client of every event, once it has started.                    *)
Told(d, kind) ==
    unsent' = IF connected THEN [unsent EXCEPT ![d] = Append(@, Note(kind, d)')] ELSE unsent

OpenDoc(d) ==
    /\ document[d].version = 0 /\ document[d].opening < MaxOpenings
    /\ document' = [document EXCEPT ![d] = [opening |-> @.opening + 1, version |-> 1]]
    /\ Told(d, "open")
    /\ UNCHANGED <<ledger, editorVersions, lifeVars>>

DocumentChanged(d) ==
    /\ document[d].version \in 1 .. MaxVersion - 1
    /\ document' = [document EXCEPT ![d].version = @ + 1]
    /\ editorVersions' = [editorVersions EXCEPT ![d] = document[d].version + 1]
    /\ Told(d, "change")
    /\ UNCHANGED <<ledger, lifeVars>>

DocumentClosed(d) ==
    /\ document[d].version # 0
    /\ document' = [document EXCEPT ![d].version = 0]
    /\ editorVersions' = [editorVersions EXCEPT ![d] = 0]
    /\ Told(d, "close")
    /\ UNCHANGED <<ledger, lifeVars>>

(* A notification reaches the server, and the observer signals it. *)
Send(d) ==
    /\ connected /\ process[generation] = "running"
    /\ unsent[d] # <<>>
    /\ ledger' = [ledger EXCEPT ![d] = Head(unsent[d]).of]
    /\ unsent' = [unsent EXCEPT ![d] = Tail(@)]
    /\ signal' = TRUE
    /\ UNCHANGED <<document, editorVersions, status, generation, nextGeneration, process, exited,
                   connected, command, waiting, restarts, faults>>

-----------------------------------------------------------------------------
(* startUnlocked up to the construction of a client and its process. *)
Construct(kind) ==
    /\ nextGeneration' = nextGeneration + 1
    /\ command' = [Free EXCEPT !.kind = kind, !.at = "constructing"]

(* retire, up to the race of a clean exit with the deadline. *)
Retire(kind, failed) ==
    /\ status' = "Retiring"
    /\ connected' = FALSE /\ unsent' = NoNotes /\ ledger' = NoLedger
    /\ command' = [Free EXCEPT !.kind = kind, !.at = "stopping", !.failed = failed]

(* The permit goes to the command that waited longest. *)
Begin ==
    LET kind == Head(waiting) IN
    /\ command = Free /\ waiting # <<>>
    /\ waiting' = Tail(waiting)
    /\ \/ /\ kind = "start" /\ status \in {"Starting", "Ready"}
          /\ UNCHANGED <<status, generation, nextGeneration, connected, unsent, ledger, command>>
       \/ /\ kind = "start" /\ status \notin {"Starting", "Ready"}
          /\ Construct(kind)
          /\ UNCHANGED <<status, generation, connected, unsent, ledger>>
       \/ /\ kind # "start" /\ generation # 0
          /\ Retire(kind, FALSE)
          /\ UNCHANGED <<generation, nextGeneration>>
       \/ /\ kind = "restart" /\ generation = 0
          /\ status' = "Absent"
          /\ Construct(kind)
          /\ UNCHANGED <<generation, connected, unsent, ledger>>
       \/ /\ kind = "stop" /\ generation = 0
          /\ status' = "Absent"
          /\ UNCHANGED <<generation, nextGeneration, connected, unsent, ledger, command>>
    /\ UNCHANGED <<document, editorVersions, process, exited, signal, restarts, faults>>

Constructed ==
    /\ command.at = "constructing"
    /\ process' = [process EXCEPT ![nextGeneration] = "running"]
    /\ status' = "Starting" /\ generation' = nextGeneration
    /\ signal' = FALSE
    /\ command' = At("client")
    /\ UNCHANGED <<document, unsent, ledger, nextGeneration, editorVersions, exited, connected,
                   waiting, restarts, faults>>

ConstructRefused ==
    /\ command.at = "constructing"
    /\ "refuse" \in Faults /\ faults < MaxFaults
    /\ faults' = faults + 1
    /\ command' = Free
    /\ UNCHANGED <<document, unsent, ledger, status, generation, nextGeneration, editorVersions,
                   process, exited, connected, signal, waiting, restarts>>

(* One round of synchronize up to the answer of the acceptance request. *)
Ask ==
    /\ editorVersions' = Versions
    /\ command' = [At("asking") EXCEPT !.expected = Versions]

(* The client starts and sends every open document. *)
ClientStarted ==
    /\ command.at = "client" /\ process[generation] = "running"
    /\ connected' = TRUE
    /\ unsent' = [d \in Doc |-> IF d \in OpenDocs THEN <<Note("open", d)>> ELSE <<>>]
    /\ Ask
    /\ UNCHANGED <<document, ledger, status, generation, nextGeneration, process, exited, signal,
                   waiting, restarts, faults>>

(* The answer of the server, which has read what was sent before it. *)
Answered ==
    LET accepted == \A d \in Doc : command.expected[d] # 0 => ledger[d].version = command.expected[d]
        unchanged == Versions = command.expected
    IN
    /\ command.at = "asking" /\ process[generation] = "running"
    /\ \/ /\ accepted /\ unchanged
          /\ status' = "Ready" /\ command' = Free
          /\ UNCHANGED editorVersions
       \/ /\ ~unchanged
          /\ Ask
          /\ UNCHANGED status
       \/ /\ unchanged /\ ~accepted
          /\ command' = At("waiting")
          /\ UNCHANGED <<status, editorVersions>>
    /\ UNCHANGED <<document, unsent, ledger, generation, nextGeneration, process, exited,
                   connected, signal, waiting, restarts, faults>>

Woken ==
    /\ command.at = "waiting" /\ signal
    /\ signal' = FALSE
    /\ Ask
    /\ UNCHANGED <<document, unsent, ledger, status, generation, nextGeneration, process, exited,
                   connected, waiting, restarts, faults>>

\* Faulty variant of StartFails: synchronize has no deadline.
StartFailsIfDead ==
    /\ command.at \in {"client", "asking"} /\ process[generation] = "dead"
    /\ Retire(command.kind, TRUE)
    /\ UNCHANGED <<document, generation, nextGeneration, editorVersions, process, exited, signal,
                   waiting, restarts, faults>>

(* The client cannot start or is not answered, because its process ended, *)
(* or the deadline of synchronize passes.                                 *)
StartFails ==
    /\ \/ command.at \in {"client", "asking"} /\ process[generation] = "dead"
       \/ command.at \in {"asking", "waiting"}
    /\ Retire(command.kind, TRUE)
    /\ UNCHANGED <<document, generation, nextGeneration, editorVersions, process, exited, signal,
                   waiting, restarts, faults>>

-----------------------------------------------------------------------------
(* The end of retire, and of the command unless it goes on to construct. *)
Retired ==
    /\ generation' = 0
    /\ status' = IF command.failed THEN "Unavailable" ELSE "Absent"
    /\ IF command.kind = "restart" /\ ~command.failed
       THEN Construct("restart")
       ELSE command' = Free /\ UNCHANGED nextGeneration

ExitAcknowledged ==
    /\ command.at \in {"stopping", "terminating"} /\ generation \in exited
    /\ Retired
    /\ UNCHANGED <<document, unsent, ledger, editorVersions, process, exited, connected, signal,
                   waiting, restarts, faults>>

\* Faulty variant of Terminate: at the deadline the process is left behind.
TerminateByForgetting ==
    /\ command.at = "stopping" /\ generation \notin exited
    /\ Retired
    /\ UNCHANGED <<document, unsent, ledger, editorVersions, process, exited, connected, signal,
                   waiting, restarts, faults>>

(* The retirement deadline passes first: the process is killed, once. *)
Terminate ==
    /\ command.at = "stopping" /\ generation \notin exited
    /\ process' = [process EXCEPT ![generation] = "dead"]
    /\ command' = At("terminating")
    /\ UNCHANGED <<document, unsent, ledger, status, generation, nextGeneration, editorVersions,
                   exited, connected, signal, waiting, restarts, faults>>

-----------------------------------------------------------------------------
(* Server processes: a clean exit is asked for by the client that stops. *)
Quits ==
    /\ command.at = "stopping" /\ process[generation] = "running"
    /\ process' = [process EXCEPT ![generation] = "dead"]
    /\ UNCHANGED <<document, unsent, ledger, status, generation, nextGeneration, editorVersions,
                   exited, connected, signal, command, waiting, restarts, faults>>

Faulty(g) ==
    /\ process[g] = "running" /\ faults < MaxFaults
    /\ faults' = faults + 1
    /\ \/ "crash" \in Faults /\ process' = [process EXCEPT ![g] = "dead"]
       \/ /\ IF command.at = "client" THEN "wedgedStart" \in Faults ELSE "wedge" \in Faults
          /\ process' = [process EXCEPT ![g] = "wedged"]
    /\ UNCHANGED <<document, unsent, ledger, status, generation, nextGeneration, editorVersions,
                   exited, connected, signal, command, waiting, restarts>>

ExitEvent(g) ==
    /\ process[g] = "dead" /\ g \notin exited
    /\ exited' = exited \cup {g}
    /\ UNCHANGED <<document, unsent, ledger, status, generation, nextGeneration, editorVersions,
                   process, connected, signal, command, waiting, restarts, faults>>

(* The user restarts the server; the editor stops the extension, and no *)
(* command follows that.                                                *)
Command(kind) ==
    /\ \/ kind = "restart" /\ restarts < MaxRestarts /\ restarts' = restarts + 1
       \/ kind = "stop" /\ restarts <= MaxRestarts /\ restarts' = MaxRestarts + 1
    /\ waiting' = Append(waiting, kind)
    /\ UNCHANGED <<document, unsent, ledger, status, generation, nextGeneration, editorVersions,
                   process, exited, connected, signal, command, faults>>
=============================================================================
