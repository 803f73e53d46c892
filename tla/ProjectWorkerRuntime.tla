------------------------ MODULE ProjectWorkerRuntime ------------------------
(***************************************************************************)
(* One compiler worker under an arbitrary host.  The host follows the only *)
(* discipline WorkspaceEngine keeps towards a worker: the generations it   *)
(* asks to analyse increase, and a request identifier is used once.        *)
(* Otherwise it may supersede, query and cancel what it likes, in any      *)
(* order, so what holds here holds in every composition with a host.       *)
(*                                                                         *)
(* `emitted' is the log of the messages the worker has posted: the channel *)
(* to the host as the host would read it, never consumed.                  *)
(***************************************************************************)
EXTENDS WorkerRuntime

CONSTANTS Sources,        \* the document sets a host may ask to analyse
          MaxGeneration,  \* bound: analyses the host asks for
          MaxInbox,       \* bound: messages waiting for the worker
          MaxDisk,        \* bound: changes of the closed files on disk
          MaxSupersedes   \* bound: supersede messages of the host

ASSUME SourcesAssumption == Sources \subseteq Snapshot /\ Sources # {}
ASSUME BoundsAssumption ==
  /\ MaxGeneration \in Nat /\ MaxInbox \in Nat
  /\ MaxDisk \in Nat /\ MaxSupersedes \in Nat

VARIABLES runtime,     \* the worker's state
          stopped,     \* TRUE once the worker has accepted Shutdown
          inbox,       \* messages posted by the host, oldest first
          emitted,     \* every message the worker has posted, oldest first
          history,     \* history[g]: what the host sent for generation g
          asked,       \* the request identifiers the host has used
          supersedes,  \* how many supersede messages the host has sent
          disk         \* stamp of the closed files on disk

workerVars == <<runtime, stopped, emitted>>
hostVars == <<history, asked, supersedes>>
vars == <<runtime, stopped, inbox, emitted, history, asked, supersedes, disk>>

Init ==
  /\ runtime = Fresh
  /\ stopped = FALSE
  /\ inbox = <<Initialize>>
  /\ emitted = <<>>
  /\ history = <<>>
  /\ asked = {}
  /\ supersedes = 0
  /\ disk = 1

-----------------------------------------------------------------------------
\* The host.

Post(m) ==
  /\ Len(inbox) < MaxInbox
  /\ inbox' = Append(inbox, m)
  /\ UNCHANGED <<workerVars, disk>>

HostAnalyze ==
  /\ Len(history) < MaxGeneration
  /\ \E sources \in Sources, reread \in BOOLEAN :
       /\ Post(Analyze(Len(history) + 1, sources, reread))
       /\ history' = Append(history, sources)
  /\ UNCHANGED <<asked, supersedes>>

HostSupersede ==
  /\ supersedes < MaxSupersedes
  /\ \E g \in 1..Len(history) : Post(SupersedeAnalysis(g))
  /\ supersedes' = supersedes + 1
  /\ UNCHANGED <<history, asked>>

HostQuery ==
  \E r \in Requests \ asked, g \in 1..Len(history), d \in Docs :
    /\ Post(Query(g, r, d))
    /\ asked' = asked \cup {r}
    /\ UNCHANGED <<history, supersedes>>

HostCancel ==
  \E r \in asked :
    /\ Post(CancelQuery(r))
    /\ UNCHANGED hostVars

HostShutdown == Post(Shutdown) /\ UNCHANGED hostVars

FileSystemChanges ==
  /\ disk < MaxDisk
  /\ disk' = disk + 1
  /\ UNCHANGED <<workerVars, hostVars, inbox>>

-----------------------------------------------------------------------------
\* The worker.

Take(step) ==
  /\ runtime' = step.state
  /\ emitted' = emitted \o step.replies

Accept ==
  /\ ~stopped
  /\ inbox # <<>>
  /\ Take(Accepted(runtime, Head(inbox), disk))
  /\ stopped' = (Head(inbox).tag = "Shutdown")
  /\ inbox' = Tail(inbox)
  /\ UNCHANGED <<hostVars, disk>>

CompleteAnalysis ==
  /\ ~stopped
  /\ runtime.active.gen # 0
  /\ Take(Completed(runtime))
  /\ UNCHANGED <<stopped, inbox, hostVars, disk>>

DefectAnalysis ==
  /\ ~stopped
  /\ runtime.active.gen # 0
  /\ Take(Defected(runtime))
  /\ UNCHANGED <<stopped, inbox, hostVars, disk>>

CompleteQuery ==
  /\ ~stopped
  /\ \E q \in runtime.queries : Take(Answered(runtime, q))
  /\ UNCHANGED <<stopped, inbox, hostVars, disk>>

DefectQuery ==
  /\ ~stopped
  /\ \E q \in runtime.queries : Take(QueryDefected(runtime, q))
  /\ UNCHANGED <<stopped, inbox, hostVars, disk>>

Next ==
  \/ HostAnalyze \/ HostSupersede \/ HostQuery \/ HostCancel \/ HostShutdown
  \/ FileSystemChanges
  \/ Accept \/ CompleteAnalysis \/ DefectAnalysis \/ CompleteQuery \/ DefectQuery

Spec == Init /\ [][Next]_vars

\* The worker thread keeps running: the inbox is drained, and an analysis or a
\* query that was started ends.  The host owes the worker nothing.
Fairness ==
  /\ WF_vars(Accept)
  /\ WF_vars(CompleteAnalysis \/ DefectAnalysis)
  /\ WF_vars(CompleteQuery \/ DefectQuery)

FairSpec == Spec /\ Fairness

-----------------------------------------------------------------------------
\* Properties.

\* Every variable keeps its type.
TypeOK ==
  /\ runtime \in RuntimeState
  /\ stopped \in BOOLEAN
  /\ inbox \in Seq(HostMessage)
  /\ emitted \in Seq(WorkerMessage)
  /\ history \in Seq(Sources)
  /\ asked \in SUBSET Requests
  /\ supersedes \in Nat
  /\ disk \in Nat

Emitted == 1..Len(emitted)
IsVerdict(m) == m.tag \in {"Commit", "Failure"}

\* Once the worker has said that a generation is superseded, committed or
\* failed, it never commits or fails that generation afterwards: the host may
\* forget the generation the moment it reads the first of the three.
VerdictsAreFinal ==
  \A i, j \in Emitted :
    /\ i < j
    /\ IsVerdict(emitted[j])
    /\ emitted[i].tag = "Superseded" \/ IsVerdict(emitted[i])
    => emitted[i].gen # emitted[j].gen

\* No document set other than a complete one ever becomes the basis of later
\* analyses: the basis is what the host sent for the generation the worker
\* reported committed last, whatever was superseded or failed since.
BasisIsLastCommit ==
  LET commits == {i \in Emitted : emitted[i].tag = "Commit"}
  IN IF runtime.committed.gen = 0
     THEN commits = {}
     ELSE /\ runtime.committed.gen \in 1..Len(history)
          /\ runtime.committed.sources = history[runtime.committed.gen]
          /\ \E i \in commits :
               /\ emitted[i].gen = runtime.committed.gen
               /\ \A j \in commits : j <= i

\* A query answered with a result was answered from the text the host sent for
\* the very generation the query names, and only after that generation was
\* reported committed.
AnswersReadTheirGeneration ==
  \A i \in Emitted :
    emitted[i].tag = "Result" /\ emitted[i].text # NoText =>
      /\ emitted[i].gen \in 1..Len(history)
      /\ emitted[i].text = history[emitted[i].gen][emitted[i].doc]
      /\ \E j \in Emitted : j < i /\ emitted[j] = Commit(emitted[i].gen)

\* A request identifier gets at most one result, however often it is cancelled
\* and however its generation ends.
OneAnswerPerRequest ==
  \A i, j \in Emitted :
    /\ emitted[i].tag = "Result"
    /\ emitted[j].tag = "Result"
    /\ emitted[i].req = emitted[j].req
    => i = j

\* Every generation the host asks for is eventually reported committed, failed
\* or superseded, unless the worker is stopped first.
EveryGenerationEnds ==
  \A g \in 1..MaxGeneration :
    Len(history) >= g ~>
      \/ stopped
      \/ \E i \in Emitted : /\ emitted[i].tag \in {"Superseded", "Commit", "Failure"}
                            /\ emitted[i].gen = g
=============================================================================
