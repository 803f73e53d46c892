--------------------- MODULE ProjectWorkerRuntimeProofs ---------------------
(***************************************************************************)
(* Proofs about ProjectWorkerRuntime, for any documents, requests and      *)
(* bounds.                                                                 *)
(***************************************************************************)
EXTENDS ProjectWorkerRuntime, WorkerRuntimeProofs

-----------------------------------------------------------------------------
\* Types.

\* Posting a message keeps the inbox an inbox.
LEMMA PostType ==
  ASSUME TypeOK, NEW m \in HostMessage, Post(m)
  PROVE  /\ inbox' \in Seq(HostMessage)
         /\ UNCHANGED <<runtime, stopped, emitted, disk>>
  BY DEF TypeOK, Post, workerVars

\* Replies of the worker keep the log a log.
LEMMA TakeType ==
  ASSUME TypeOK, NEW step, Take(step), step.state \in RuntimeState,
         step.replies = <<>> \/ \E reply \in WorkerMessage : step.replies = <<reply>>
  PROVE  runtime' \in RuntimeState /\ emitted' \in Seq(WorkerMessage)
<1>1. CASE step.replies = <<>>
  BY <1>1, PostNothing DEF Take, TypeOK
<1>2. ASSUME NEW reply \in WorkerMessage, step.replies = <<reply>>
      PROVE  emitted' \in Seq(WorkerMessage)
  BY <1>2, PostOne DEF Take, TypeOK
<1> QED BY <1>1, <1>2 DEF Take

\* The source sets of a host are snapshots, and what it asks for is numbered.
LEMMA AnalyzeType ==
  ASSUME NEW g \in Nat, NEW sources \in Sources, NEW reread \in BOOLEAN
  PROVE  Analyze(g, sources, reread) \in HostMessage
  BY SourcesAssumption DEF Analyze, HostMessage

\* Every variable keeps its type.
THEOREM Typing == Spec => []TypeOK
<1>1. Init => TypeOK
  <2> SUFFICES ASSUME Init PROVE TypeOK
    OBVIOUS
  <2>1. NoAnalysis \in AnalysisRecord
    BY DEF NoAnalysis, AnalysisRecord, NoSources, NoText, Snapshot
  <2>2. runtime \in RuntimeState
    BY <2>1 DEF Init, Fresh, RuntimeState
  <2>3. inbox \in Seq(HostMessage)
    BY DEF Init, Initialize, HostMessage
  <2>4. stopped \in BOOLEAN
    BY DEF Init
  <2>5. emitted \in Seq(WorkerMessage) /\ history \in Seq(Sources)
    BY DEF Init
  <2>6. asked \in SUBSET Requests /\ supersedes \in Nat /\ disk \in Nat
    BY DEF Init
  <2> QED BY <2>2, <2>3, <2>4, <2>5, <2>6 DEF TypeOK
<1>2. TypeOK /\ [Next]_vars => TypeOK'
  <2> SUFFICES ASSUME TypeOK, [Next]_vars PROVE TypeOK'
    OBVIOUS
  <2>1. CASE HostAnalyze
    <3>1. PICK sources \in Sources, reread \in BOOLEAN :
            /\ Post(Analyze(Len(history) + 1, sources, reread))
            /\ history' = Append(history, sources)
      BY <2>1 DEF HostAnalyze
    <3>2. Analyze(Len(history) + 1, sources, reread) \in HostMessage
      BY AnalyzeType DEF TypeOK
    <3> QED BY <2>1, <3>1, <3>2, PostType DEF HostAnalyze, TypeOK
  <2>2. CASE HostSupersede
    <3>1. PICK g \in 1..Len(history) : Post(SupersedeAnalysis(g))
      BY <2>2 DEF HostSupersede
    <3>2. SupersedeAnalysis(g) \in HostMessage
      BY DEF SupersedeAnalysis, HostMessage, TypeOK
    <3> QED BY <2>2, <3>1, <3>2, PostType DEF HostSupersede, TypeOK
  <2>3. CASE HostQuery
    <3>1. PICK r \in Requests \ asked, g \in 1..Len(history), d \in Docs :
            /\ Post(Query(g, r, d))
            /\ asked' = asked \cup {r}
            /\ UNCHANGED <<history, supersedes>>
      BY <2>3 DEF HostQuery
    <3>2. Query(g, r, d) \in HostMessage
      BY DEF Query, HostMessage, TypeOK
    <3> QED BY <3>1, <3>2, PostType DEF TypeOK
  <2>4. CASE HostCancel
    <3>1. PICK r \in asked : Post(CancelQuery(r)) /\ UNCHANGED hostVars
      BY <2>4 DEF HostCancel
    <3>2. CancelQuery(r) \in HostMessage
      BY DEF CancelQuery, HostMessage, TypeOK
    <3> QED BY <3>1, <3>2, PostType DEF TypeOK, hostVars
  <2>5. CASE HostShutdown
    <3>1. Shutdown \in HostMessage
      BY DEF Shutdown, HostMessage
    <3> QED BY <2>5, <3>1, PostType DEF HostShutdown, TypeOK, hostVars
  <2>6. CASE FileSystemChanges
    BY <2>6 DEF FileSystemChanges, TypeOK, workerVars, hostVars
  <2>7. CASE Accept
    <3>1. Head(inbox) \in HostMessage /\ Tail(inbox) \in Seq(HostMessage)
      BY <2>7, TailFacts DEF Accept, TypeOK
    <3>2. runtime' \in RuntimeState /\ emitted' \in Seq(WorkerMessage)
      BY <2>7, <3>1, AcceptedType, TakeType DEF Accept, TypeOK
    <3> QED BY <2>7, <3>1, <3>2 DEF Accept, TypeOK, hostVars
  <2>8. CASE CompleteAnalysis
    <3>1. runtime' \in RuntimeState /\ emitted' \in Seq(WorkerMessage)
      BY <2>8, EndedType, TakeType DEF CompleteAnalysis, TypeOK
    <3> QED BY <2>8, <3>1 DEF CompleteAnalysis, TypeOK, hostVars
  <2>9. CASE DefectAnalysis
    <3>1. runtime' \in RuntimeState /\ emitted' \in Seq(WorkerMessage)
      BY <2>9, EndedType, TakeType DEF DefectAnalysis, TypeOK
    <3> QED BY <2>9, <3>1 DEF DefectAnalysis, TypeOK, hostVars
  <2>10. CASE CompleteQuery
    <3>1. runtime' \in RuntimeState /\ emitted' \in Seq(WorkerMessage)
      BY <2>10, AnsweredType, TakeType DEF CompleteQuery, TypeOK
    <3> QED BY <2>10, <3>1 DEF CompleteQuery, TypeOK, hostVars
  <2>11. CASE DefectQuery
    <3>1. runtime' \in RuntimeState /\ emitted' \in Seq(WorkerMessage)
      BY <2>11, AnsweredType, TakeType DEF DefectQuery, TypeOK
    <3> QED BY <2>11, <3>1 DEF DefectQuery, TypeOK, hostVars
  <2>12. CASE UNCHANGED vars
    BY <2>12 DEF vars, workerVars, hostVars, TypeOK
  <2> QED BY <2>1, <2>2, <2>3, <2>4, <2>5, <2>6, <2>7, <2>8, <2>9, <2>10, <2>11, <2>12 DEF Next
<1> QED BY <1>1, <1>2, PTL DEF Spec
-----------------------------------------------------------------------------
\* What the worker does with a message, in terms of what the invariants mention:
\* the analysis that runs, the queries that run, and the log.

Says(m) == emitted' = Append(emitted, m)
Silently == emitted' = emitted
Others(r) == {q \in runtime.queries : q.req # r}

LEMMA AcceptCases ==
  ASSUME TypeOK, Accept
  PROVE
  LET m == Head(inbox)
      keepActive == runtime'.active = runtime.active
      keepQueries == runtime'.queries \subseteq runtime.queries
      starts == runtime'.active.gen = m.gen /\ runtime'.active.sources = m.sources
      read == [gen |-> m.gen, req |-> m.req, doc |-> m.doc,
               text |-> runtime.committed.sources[m.doc]]
  IN /\ runtime'.committed = runtime.committed
     /\ \/ m.tag = "Initialize" /\ keepActive /\ keepQueries /\ Says(Ready)
        \/ m.tag = "Analyze" /\ runtime.active.gen = 0 /\ starts /\ keepQueries /\ Silently
        \/ m.tag = "Analyze" /\ runtime.active.gen # 0 /\ starts /\ keepQueries
             /\ Says(Superseded(runtime.active.gen))
        \/ m.tag = "SupersedeAnalysis" /\ keepQueries /\ Says(Superseded(m.gen))
             /\ (runtime'.active = NoAnalysis \/ (keepActive /\ runtime.active.gen # m.gen))
        \/ m.tag = "Query" /\ keepActive /\ Says(Unavailable(m))
             /\ runtime'.queries = Others(m.req)
        \/ m.tag = "Query" /\ keepActive /\ Silently
             /\ runtime.committed.gen = m.gen /\ read.text # NoText
             /\ runtime'.queries = Others(m.req) \cup {read}
        \/ m.tag = "CancelQuery" /\ keepActive /\ keepQueries /\ Silently
        \/ m.tag = "Shutdown" /\ runtime'.active = NoAnalysis /\ runtime'.queries = {}
             /\ Says(Stopped)
<1> DEFINE m == Head(inbox)
<1> DEFINE step == Accepted(runtime, m, disk)
<1>1. m \in HostMessage
  BY TailFacts DEF Accept, TypeOK
<1>2. /\ runtime \in RuntimeState
      /\ runtime' = step.state
      /\ step.replies = <<>> => Silently
      /\ \A reply : step.replies = <<reply>> => Says(reply)
  BY PostNothing, PostOne DEF Accept, Take, TypeOK, Says, Silently
<1>3. CASE m.tag = "Initialize"
  BY <1>2, <1>3 DEF Accepted, Step
<1>4. CASE m.tag = "Analyze"
  <2>1. step = StartAnalysis(runtime, m, disk)
    BY <1>4 DEF Accepted
  <2>2. CASE runtime.active.gen = 0
    BY <1>2, <1>4, <2>1, <2>2 DEF StartAnalysis, Step, Analysing, RuntimeState
  <2>3. CASE runtime.active.gen # 0
    <3>1. /\ runtime' = Analysing(WithoutGeneration(runtime, runtime.active.gen), m, disk)
          /\ Says(Superseded(runtime.active.gen))
      BY <1>2, <2>1, <2>3 DEF StartAnalysis, Step
    <3>2. /\ runtime'.active.gen = m.gen /\ runtime'.active.sources = m.sources
          /\ runtime'.committed = runtime.committed
          /\ runtime'.queries = {q \in runtime.queries : q.gen # runtime.active.gen}
      BY <1>2, <3>1, WithoutGenerationFacts DEF Analysing, RuntimeState
    <3> HIDE DEF step
    <3> QED BY <1>4, <2>3, <3>1, <3>2
  <2> QED BY <2>2, <2>3
<1>5. CASE m.tag = "SupersedeAnalysis"
  BY <1>2, <1>5, WithoutGenerationFacts DEF Accepted, Step
<1>6. CASE m.tag = "Query"
  <2>1. step = StartQuery(runtime, m)
    BY <1>6 DEF Accepted
  <2>2. CASE runtime.committed.gen = m.gen /\ runtime.committed.sources[m.doc] # NoText
    <3> DEFINE read == [gen |-> m.gen, req |-> m.req, doc |-> m.doc,
                        text |-> runtime.committed.sources[m.doc]]
    <3>1. /\ Silently
          /\ runtime' = [WithoutQuery(runtime, m.req) EXCEPT !.queries = @ \cup {read}]
      BY <1>2, <2>1, <2>2 DEF StartQuery, Step
    <3>2. /\ runtime'.active = runtime.active /\ runtime'.committed = runtime.committed
          /\ runtime'.queries = Others(m.req) \cup {read}
      BY <1>2, <3>1 DEF WithoutQuery, RuntimeState, Others
    <3>3. read.text # NoText
      BY <2>2
    <3> HIDE DEF step
    <3> QED BY <1>6, <2>2, <3>1, <3>2, <3>3
  <2>3. CASE ~(runtime.committed.gen = m.gen /\ runtime.committed.sources[m.doc] # NoText)
    BY <1>2, <1>6, <2>1, <2>3 DEF StartQuery, Step, WithoutQuery, RuntimeState, Others
  <2> QED BY <2>2, <2>3
<1>7. CASE m.tag = "CancelQuery"
  BY <1>2, <1>7 DEF Accepted, Step, WithoutQuery, RuntimeState
<1>8. CASE m.tag = "Shutdown"
  BY <1>2, <1>8 DEF Accepted, Step, RuntimeState
<1> HIDE DEF m, step
<1>9. m.tag \in {"Initialize", "Analyze", "SupersedeAnalysis", "Query", "CancelQuery", "Shutdown"}
  BY <1>1 DEF HostMessage
<1> QED BY <1>3, <1>4, <1>5, <1>6, <1>7, <1>8, <1>9
-----------------------------------------------------------------------------
\* The inductive invariant about generations.

Issued == 1..Len(history)
Ends(m) == m.tag \in {"Superseded", "Commit", "Failure"}

\* Generation g is older than every analysis that waits in the inbox.
OlderThanInbox(g) ==
  \A i \in 1..Len(inbox) : inbox[i].tag = "Analyze" => g < inbox[i].gen

\* The inbox speaks of generations the host issued, with the sources it issued.
InboxIssued ==
  \A i \in 1..Len(inbox) :
    /\ inbox[i].tag \in {"Analyze", "SupersedeAnalysis"} => inbox[i].gen \in Issued
    /\ inbox[i].tag = "Analyze" => inbox[i].sources = history[inbox[i].gen]

\* Analyses wait in the order of their generations, and a supersede waits before
\* the analyses that are newer than what it supersedes.
InboxOrdered ==
  \A i, j \in 1..Len(inbox) :
    /\ i < j
    /\ inbox[i].tag \in {"Analyze", "SupersedeAnalysis"}
    /\ inbox[j].tag = "Analyze"
    => inbox[i].gen < inbox[j].gen

\* A generation that was reported ended is older than what waits.
EndedAreOlder ==
  \A i \in Emitted :
    Ends(emitted[i]) => emitted[i].gen \in Issued /\ OlderThanInbox(emitted[i].gen)

\* The generation that runs was issued, is older than what waits, and was not
\* reported ended.
ActiveIsOpen ==
  runtime.active.gen # 0 =>
    /\ runtime.active.gen \in Issued
    /\ runtime.active.sources = history[runtime.active.gen]
    /\ OlderThanInbox(runtime.active.gen)
    /\ \A i \in Emitted : Ends(emitted[i]) => emitted[i].gen # runtime.active.gen

GenerationInv ==
  /\ InboxIssued
  /\ InboxOrdered
  /\ EndedAreOlder
  /\ ActiveIsOpen
  /\ VerdictsAreFinal
  /\ BasisIsLastCommit

-----------------------------------------------------------------------------
\* The inductive invariant about queries.

\* A running query read the text that was issued for the generation it names,
\* and that generation was reported committed.
QueriesRead ==
  \A q \in runtime.queries :
    /\ q.gen \in Issued
    /\ q.text = history[q.gen][q.doc]
    /\ \E i \in Emitted : emitted[i] = Commit(q.gen)

\* A request is asked once: it waits in the inbox, or runs, or was answered.
InboxAsked ==
  \A i \in 1..Len(inbox) : inbox[i].tag = "Query" =>
    /\ inbox[i].req \in asked /\ inbox[i].gen \in Issued
    /\ \A j \in 1..Len(inbox) : inbox[j].tag = "Query" /\ inbox[j].req = inbox[i].req => j = i
    /\ \A q \in runtime.queries : q.req # inbox[i].req
    /\ \A k \in Emitted : emitted[k].tag = "Result" => emitted[k].req # inbox[i].req

QueriesAsked ==
  \A q \in runtime.queries :
    /\ q.req \in asked
    /\ \A p \in runtime.queries : p.req = q.req => p = q
    /\ \A k \in Emitted : emitted[k].tag = "Result" => emitted[k].req # q.req

ResultsAsked == \A k \in Emitted : emitted[k].tag = "Result" => emitted[k].req \in asked

RequestInv ==
  /\ QueriesRead
  /\ AnswersReadTheirGeneration
  /\ InboxAsked
  /\ QueriesAsked
  /\ ResultsAsked
  /\ OneAnswerPerRequest
-----------------------------------------------------------------------------
\* How the parts of GenerationInv survive a step.

\* The host appends a message to the inbox, and numbers the analyses it asks for.
LEMMA PostKeepsGenerations ==
  ASSUME TypeOK, GenerationInv, NEW m \in HostMessage,
         inbox' = Append(inbox, m), UNCHANGED <<runtime, emitted>>,
         \/ /\ m.tag # "Analyze"
            /\ history' = history
            /\ m.tag = "SupersedeAnalysis" => m.gen \in Issued
         \/ /\ m.tag = "Analyze"
            /\ m.gen = Len(history) + 1
            /\ history' = Append(history, m.sources) /\ m.sources \in Sources
  PROVE  GenerationInv'
<1>1. /\ Len(inbox') = Len(inbox) + 1 /\ Len(inbox) \in Nat
      /\ inbox'[Len(inbox) + 1] = m
      /\ \A i \in 1..Len(inbox) : inbox'[i] = inbox[i]
  BY AppendFacts DEF TypeOK
<1>2. /\ Len(history) \in Nat /\ Len(history') \in Nat /\ Len(history) <= Len(history')
      /\ Issued \subseteq Issued'
      /\ \A g \in Issued : history'[g] = history[g]
      /\ m.tag = "Analyze" => m.gen \in Issued' /\ m.sources = history'[m.gen]
  <2>1. Len(history) \in Nat
    BY DEF TypeOK
  <2>2. CASE m.tag = "Analyze"
    <3>1. /\ Len(history') = Len(history) + 1
          /\ history'[Len(history) + 1] = m.sources
          /\ \A g \in 1..Len(history) : history'[g] = history[g]
      BY <2>2, AppendFacts DEF TypeOK
    <3> QED BY <2>1, <2>2, <3>1 DEF Issued
  <2>3. CASE m.tag # "Analyze"
    BY <2>1, <2>3 DEF Issued
  <2> QED BY <2>2, <2>3
<1>3. \A g \in Issued : OlderThanInbox(g) => OlderThanInbox(g)'
  BY <1>1, <1>2 DEF OlderThanInbox, Issued
<1>4. InboxIssued'
  <2> SUFFICES ASSUME NEW i \in 1..Len(inbox')
               PROVE  /\ inbox'[i].tag \in {"Analyze", "SupersedeAnalysis"} =>
                           inbox'[i].gen \in Issued'
                      /\ inbox'[i].tag = "Analyze" => inbox'[i].sources = history'[inbox'[i].gen]
    BY DEF InboxIssued, Issued
  <2>1. CASE i \in 1..Len(inbox)
    BY <1>1, <1>2, <2>1 DEF GenerationInv, InboxIssued
  <2>2. CASE i = Len(inbox) + 1
    BY <1>1, <1>2, <2>2
  <2> QED BY <1>1, <2>1, <2>2
<1>5. InboxOrdered'
  <2> SUFFICES ASSUME NEW i \in 1..Len(inbox'), NEW j \in 1..Len(inbox'), i < j,
                      inbox'[i].tag \in {"Analyze", "SupersedeAnalysis"},
                      inbox'[j].tag = "Analyze"
               PROVE  inbox'[i].gen < inbox'[j].gen
    BY DEF InboxOrdered
  <2>1. i \in 1..Len(inbox) /\ inbox[i].gen \in Issued
    BY <1>1 DEF GenerationInv, InboxIssued
  <2>2. CASE j \in 1..Len(inbox)
    BY <1>1, <2>1, <2>2 DEF GenerationInv, InboxOrdered
  <2>3. CASE j = Len(inbox) + 1
    BY <1>1, <1>2, <2>1, <2>3 DEF Issued
  <2> QED BY <1>1, <2>2, <2>3
<1>6. EndedAreOlder'
  BY <1>2, <1>3 DEF GenerationInv, EndedAreOlder, Emitted
<1>7. ActiveIsOpen'
  BY <1>2, <1>3 DEF GenerationInv, ActiveIsOpen, Emitted
<1>8. VerdictsAreFinal'
  BY DEF GenerationInv, VerdictsAreFinal, Emitted
<1>9. BasisIsLastCommit'
  BY <1>2 DEF GenerationInv, BasisIsLastCommit, Emitted, Issued
<1> QED BY <1>4, <1>5, <1>6, <1>7, <1>8, <1>9 DEF GenerationInv

\* The worker takes the oldest message: what waits behind it is still in order.
LEMMA TailKeepsGenerations ==
  ASSUME TypeOK, GenerationInv, inbox # <<>>, inbox' = Tail(inbox), history' = history
  PROVE  /\ InboxIssued' /\ InboxOrdered'
         /\ \A g : OlderThanInbox(g) => OlderThanInbox(g)'
         /\ \A i \in 1..Len(inbox') :
              Head(inbox).tag \in {"Analyze", "SupersedeAnalysis"} /\ inbox'[i].tag = "Analyze" =>
                Head(inbox).gen < inbox'[i].gen
         /\ Head(inbox).tag = "Analyze" => Head(inbox).sources = history[Head(inbox).gen]
         /\ Head(inbox).tag \in {"Analyze", "SupersedeAnalysis"} => Head(inbox).gen \in Issued
<1>1. /\ Head(inbox) = inbox[1] /\ 1 \in 1..Len(inbox)
      /\ Len(inbox) \in Nat
      /\ Len(inbox') = Len(inbox) - 1
      /\ \A i \in 1..Len(inbox') : i + 1 \in 1..Len(inbox) /\ inbox'[i] = inbox[i + 1]
  BY TailFacts DEF TypeOK
<1>2. InboxIssued'
  BY <1>1 DEF GenerationInv, InboxIssued, Issued
<1>3. InboxOrdered'
  <2> SUFFICES ASSUME NEW i \in 1..Len(inbox'), NEW j \in 1..Len(inbox'), i < j,
                      inbox'[i].tag \in {"Analyze", "SupersedeAnalysis"},
                      inbox'[j].tag = "Analyze"
               PROVE  inbox'[i].gen < inbox'[j].gen
    BY DEF InboxOrdered
  <2> QED BY <1>1 DEF GenerationInv, InboxOrdered
<1>4. \A g : OlderThanInbox(g) => OlderThanInbox(g)'
  BY <1>1 DEF OlderThanInbox
<1>5. ASSUME NEW i \in 1..Len(inbox'), inbox'[i].tag = "Analyze",
             Head(inbox).tag \in {"Analyze", "SupersedeAnalysis"}
      PROVE  Head(inbox).gen < inbox'[i].gen
  <2>1. 1 < i + 1
    BY <1>1
  <2> QED BY <1>1, <1>5, <2>1 DEF GenerationInv, InboxOrdered
<1> QED BY <1>1, <1>2, <1>3, <1>4, <1>5 DEF GenerationInv, InboxIssued
\* A message is added to the log.  If it reports the end of a generation, that
\* generation is older than what waits; if it is a verdict, the generation was
\* not reported ended before.
LEMMA SayingKeepsGenerations ==
  ASSUME TypeOK, GenerationInv, NEW m \in WorkerMessage, Says(m), history' = history,
         \A g : OlderThanInbox(g) => OlderThanInbox(g)',
         Ends(m) =>
           /\ m.gen \in Issued
           /\ \A i \in 1..Len(inbox') : inbox'[i].tag = "Analyze" => m.gen < inbox'[i].gen,
         IsVerdict(m) => \A i \in Emitted : Ends(emitted[i]) => emitted[i].gen # m.gen
  PROVE  EndedAreOlder' /\ VerdictsAreFinal'
<1>1. /\ Len(emitted') = Len(emitted) + 1 /\ Len(emitted) \in Nat
      /\ emitted'[Len(emitted) + 1] = m
      /\ \A i \in 1..Len(emitted) : emitted'[i] = emitted[i]
  BY AppendFacts DEF TypeOK, Says
<1>2. EndedAreOlder'
  <2> SUFFICES ASSUME NEW i \in 1..Len(emitted'), Ends(emitted'[i])
               PROVE  /\ emitted'[i].gen \in Issued'
                      /\ \A k \in 1..Len(inbox') :
                           inbox'[k].tag = "Analyze" => emitted'[i].gen < inbox'[k].gen
    BY DEF EndedAreOlder, Emitted, OlderThanInbox, Ends
  <2>1. CASE i \in 1..Len(emitted)
    BY <1>1, <2>1 DEF GenerationInv, EndedAreOlder, Emitted, OlderThanInbox, Issued
  <2>2. CASE i = Len(emitted) + 1
    BY <1>1, <2>2 DEF Issued
  <2> QED BY <1>1, <2>1, <2>2
<1>3. VerdictsAreFinal'
  <2> SUFFICES ASSUME NEW i \in 1..Len(emitted'), NEW j \in 1..Len(emitted'), i < j,
                      IsVerdict(emitted'[j]), Ends(emitted'[i])
               PROVE  emitted'[i].gen # emitted'[j].gen
    BY DEF VerdictsAreFinal, Emitted, IsVerdict, Ends
  <2>1. i \in 1..Len(emitted)
    BY <1>1
  <2>2. CASE j \in 1..Len(emitted)
    BY <1>1, <2>1, <2>2 DEF GenerationInv, VerdictsAreFinal, Emitted, IsVerdict, Ends
  <2>3. CASE j = Len(emitted) + 1
    BY <1>1, <2>1, <2>3 DEF Emitted
  <2> QED BY <1>1, <2>2, <2>3
<1> QED BY <1>2, <1>3

\* Nothing is added to the log.
LEMMA SilenceKeepsGenerations ==
  ASSUME GenerationInv, Silently, history' = history,
         \A g : OlderThanInbox(g) => OlderThanInbox(g)'
  PROVE  EndedAreOlder' /\ VerdictsAreFinal'
  BY DEF GenerationInv, EndedAreOlder, VerdictsAreFinal, Emitted, Silently, Issued

\* The basis changes only when a commit is reported.
LEMMA BasisKept ==
  ASSUME TypeOK, GenerationInv, runtime'.committed = runtime.committed, history' = history,
         Silently \/ \E m \in WorkerMessage : Says(m) /\ m.tag # "Commit"
  PROVE  BasisIsLastCommit'
<1>1. CASE Silently
  BY <1>1 DEF GenerationInv, BasisIsLastCommit, Emitted, Silently
<1>2. ASSUME NEW m \in WorkerMessage, Says(m), m.tag # "Commit"
      PROVE  BasisIsLastCommit'
  <2>1. /\ Len(emitted') = Len(emitted) + 1 /\ Len(emitted) \in Nat
        /\ emitted'[Len(emitted) + 1] = m
        /\ \A i \in 1..Len(emitted) : emitted'[i] = emitted[i]
    BY <1>2, AppendFacts DEF TypeOK, Says
  <2>2. {i \in 1..Len(emitted') : emitted'[i].tag = "Commit"}
          = {i \in 1..Len(emitted) : emitted[i].tag = "Commit"}
    BY <1>2, <2>1
  <2> QED BY <2>1, <2>2 DEF GenerationInv, BasisIsLastCommit, Emitted
<1> QED BY <1>1, <1>2
\* The analysis that runs runs on, and is not what is reported ended.
LEMMA ActiveRunsOn ==
  ASSUME TypeOK, GenerationInv, runtime'.active = runtime.active, history' = history,
         \A g : OlderThanInbox(g) => OlderThanInbox(g)',
         \/ Silently
         \/ \E m \in WorkerMessage : Says(m) /\ (Ends(m) => m.gen # runtime.active.gen)
  PROVE  ActiveIsOpen'
<1> SUFFICES ASSUME runtime.active.gen # 0
             PROVE  \A i \in 1..Len(emitted') :
                      Ends(emitted'[i]) => emitted'[i].gen # runtime.active.gen
  BY DEF GenerationInv, ActiveIsOpen, Emitted, OlderThanInbox, Ends, Issued
<1>1. CASE Silently
  BY <1>1 DEF GenerationInv, ActiveIsOpen, Emitted, Silently
<1>2. ASSUME NEW m \in WorkerMessage, Says(m), Ends(m) => m.gen # runtime.active.gen,
             NEW i \in 1..Len(emitted'), Ends(emitted'[i])
      PROVE  emitted'[i].gen # runtime.active.gen
  <2>1. /\ Len(emitted') = Len(emitted) + 1 /\ Len(emitted) \in Nat
        /\ emitted'[Len(emitted) + 1] = m
        /\ \A k \in 1..Len(emitted) : emitted'[k] = emitted[k]
    BY <1>2, AppendFacts DEF TypeOK, Says
  <2>2. CASE i \in 1..Len(emitted)
    BY <1>2, <2>1, <2>2 DEF GenerationInv, ActiveIsOpen, Emitted
  <2>3. CASE i = Len(emitted) + 1
    BY <1>2, <2>1, <2>3
  <2> QED BY <2>1, <2>2, <2>3
<1> QED BY <1>1, <1>2

LEMMA NothingRuns ==
  ASSUME runtime'.active = NoAnalysis
  PROVE  ActiveIsOpen'
  BY DEF ActiveIsOpen, NoAnalysis

\* The six kinds of messages.
LEMMA AcceptKeepsGenerations ==
  ASSUME TypeOK, GenerationInv, Accept
  PROVE  GenerationInv'
<1> DEFINE m == Head(inbox)
<1>1. /\ inbox # <<>> /\ inbox' = Tail(inbox) /\ history' = history
      /\ m \in HostMessage
      /\ runtime'.committed = runtime.committed
  BY AcceptCases, TailFacts DEF Accept, hostVars, TypeOK
<1>2. /\ InboxIssued' /\ InboxOrdered'
      /\ \A g : OlderThanInbox(g) => OlderThanInbox(g)'
      /\ \A i \in 1..Len(inbox') :
           m.tag \in {"Analyze", "SupersedeAnalysis"} /\ inbox'[i].tag = "Analyze" =>
             m.gen < inbox'[i].gen
      /\ m.tag = "Analyze" => m.sources = history[m.gen]
      /\ m.tag \in {"Analyze", "SupersedeAnalysis"} => m.gen \in Issued
  BY <1>1, TailKeepsGenerations
<1>3. ASSUME NEW reply \in WorkerMessage, Says(reply), ~Ends(reply)
      PROVE  EndedAreOlder' /\ VerdictsAreFinal' /\ BasisIsLastCommit'
  <2>1. EndedAreOlder' /\ VerdictsAreFinal'
    BY <1>1, <1>2, <1>3, SayingKeepsGenerations DEF IsVerdict, Ends
  <2> QED BY <1>1, <1>3, <2>1, BasisKept DEF Ends
<1>4. ASSUME Silently
      PROVE  EndedAreOlder' /\ VerdictsAreFinal' /\ BasisIsLastCommit'
  BY <1>1, <1>2, <1>4, SilenceKeepsGenerations, BasisKept
<1>5. ASSUME NEW g \in Issued, Says(Superseded(g)),
             \A i \in 1..Len(inbox') : inbox'[i].tag = "Analyze" => g < inbox'[i].gen
      PROVE  EndedAreOlder' /\ VerdictsAreFinal' /\ BasisIsLastCommit'
  <2>1. Superseded(g) \in WorkerMessage
    BY DEF Superseded, WorkerMessage, Issued, TypeOK
  <2>2. ~IsVerdict(Superseded(g)) /\ Superseded(g).gen = g /\ Superseded(g).tag # "Commit"
    BY DEF Superseded, IsVerdict
  <2>3. EndedAreOlder' /\ VerdictsAreFinal'
    BY <1>1, <1>2, <1>5, <2>1, <2>2, SayingKeepsGenerations
  <2> QED BY <1>1, <1>5, <2>1, <2>2, <2>3, BasisKept
<1>6. ASSUME runtime'.active.gen = m.gen, runtime'.active.sources = m.sources, m.tag = "Analyze",
             EndedAreOlder',
             \/ Silently
             \/ runtime.active.gen # 0 /\ Says(Superseded(runtime.active.gen))
      PROVE  ActiveIsOpen'
  <2>1. \A i \in Emitted : Ends(emitted[i]) => emitted[i].gen # m.gen
    <3> SUFFICES ASSUME NEW i \in Emitted, Ends(emitted[i])
                 PROVE  emitted[i].gen < m.gen /\ emitted[i].gen \in Nat
      BY DEF Issued
    <3> QED BY <1>1, <1>6, TailFacts DEF GenerationInv, EndedAreOlder, OlderThanInbox, Issued,
                TypeOK
  <2>2. runtime.active.gen # 0 => runtime.active.gen \in Nat /\ runtime.active.gen < m.gen
    BY <1>1, <1>6, TailFacts DEF GenerationInv, ActiveIsOpen, OlderThanInbox, Issued, TypeOK
  <2>3. \A i \in 1..Len(emitted') : Ends(emitted'[i]) => emitted'[i].gen # m.gen
    <3>1. CASE Silently
      BY <2>1, <3>1 DEF Silently, Emitted
    <3>2. CASE runtime.active.gen # 0 /\ Says(Superseded(runtime.active.gen))
      <4>1. /\ Len(emitted') = Len(emitted) + 1 /\ Len(emitted) \in Nat
            /\ emitted'[Len(emitted) + 1] = Superseded(runtime.active.gen)
            /\ \A i \in 1..Len(emitted) : emitted'[i] = emitted[i]
        BY <3>2, AppendFacts DEF TypeOK, Says
      <4>2. Superseded(runtime.active.gen).gen # m.gen
        BY <2>2, <3>2 DEF Superseded
      <4> QED BY <2>1, <4>1, <4>2 DEF Emitted
    <3> QED BY <1>6, <3>1, <3>2
  <2> QED BY <1>1, <1>2, <1>6, <2>3 DEF ActiveIsOpen, Emitted, OlderThanInbox, Issued
<1>7. /\ Ready \in WorkerMessage /\ ~Ends(Ready)
      /\ Stopped \in WorkerMessage /\ ~Ends(Stopped)
      /\ m.tag = "Query" => Unavailable(m) \in WorkerMessage /\ ~Ends(Unavailable(m))
  BY <1>1 DEF Ready, Stopped, Unavailable, WorkerMessage, HostMessage, Ends, NoText
<1>8. CASE m.tag = "Initialize"
  <2>1. Says(Ready) /\ runtime'.active = runtime.active
    BY <1>8, AcceptCases
  <2> QED BY <1>1, <1>2, <1>3, <1>7, <2>1, ActiveRunsOn DEF GenerationInv
<1>9. CASE m.tag = "Analyze"
  <2>1. runtime'.active.gen = m.gen /\ runtime'.active.sources = m.sources
    BY <1>9, AcceptCases
  <2>2. \/ Silently
        \/ runtime.active.gen # 0 /\ Says(Superseded(runtime.active.gen))
    BY <1>9, AcceptCases
  <2>3. EndedAreOlder' /\ VerdictsAreFinal' /\ BasisIsLastCommit'
    <3>1. CASE Silently
      BY <1>4, <3>1
    <3>2. CASE runtime.active.gen # 0 /\ Says(Superseded(runtime.active.gen))
      <4>1. runtime.active.gen \in Issued /\ OlderThanInbox(runtime.active.gen)
        BY <3>2 DEF GenerationInv, ActiveIsOpen
      <4>2. \A i \in 1..Len(inbox') :
              inbox'[i].tag = "Analyze" => runtime.active.gen < inbox'[i].gen
        BY <1>2, <4>1 DEF OlderThanInbox
      <4> QED BY <1>5, <3>2, <4>1, <4>2
    <3> QED BY <2>2, <3>1, <3>2
  <2> QED BY <1>2, <1>6, <1>9, <2>1, <2>2, <2>3 DEF GenerationInv
<1>10. CASE m.tag = "SupersedeAnalysis"
  <2>1. /\ Says(Superseded(m.gen))
        /\ \/ runtime'.active = NoAnalysis
           \/ runtime'.active = runtime.active /\ runtime.active.gen # m.gen
    BY <1>10, AcceptCases
  <2>2. EndedAreOlder' /\ VerdictsAreFinal' /\ BasisIsLastCommit'
    BY <1>2, <1>5, <1>10, <2>1
  <2>3. Superseded(m.gen) \in WorkerMessage /\ Superseded(m.gen).gen = m.gen
    BY <1>2, <1>10 DEF Superseded, WorkerMessage, Issued, TypeOK
  <2>4. ActiveIsOpen'
    BY <1>1, <1>2, <2>1, <2>3, ActiveRunsOn, NothingRuns
  <2> QED BY <1>2, <2>2, <2>4 DEF GenerationInv
<1>11. CASE m.tag = "Query"
  <2>1. runtime'.active = runtime.active /\ (Says(Unavailable(m)) \/ Silently)
    BY <1>11, AcceptCases
  <2>2. EndedAreOlder' /\ VerdictsAreFinal' /\ BasisIsLastCommit'
    BY <1>3, <1>4, <1>7, <1>11, <2>1
  <2>3. ActiveIsOpen'
    BY <1>1, <1>2, <1>7, <1>11, <2>1, ActiveRunsOn
  <2> QED BY <1>2, <2>2, <2>3 DEF GenerationInv
<1>12. CASE m.tag = "CancelQuery"
  <2>1. Silently /\ runtime'.active = runtime.active
    BY <1>12, AcceptCases
  <2> QED BY <1>1, <1>2, <1>4, <2>1, ActiveRunsOn DEF GenerationInv
<1>13. CASE m.tag = "Shutdown"
  <2>1. Says(Stopped) /\ runtime'.active = NoAnalysis
    BY <1>13, AcceptCases
  <2> QED BY <1>2, <1>3, <1>7, <2>1, NothingRuns DEF GenerationInv
<1> HIDE DEF m
<1> QED BY <1>1, <1>8, <1>9, <1>10, <1>11, <1>12, <1>13 DEF HostMessage
\* A step that leaves the inbox and the history alone.
LEMMA InboxUntouched ==
  ASSUME GenerationInv, inbox' = inbox, history' = history
  PROVE  /\ InboxIssued' /\ InboxOrdered'
         /\ \A g : OlderThanInbox(g) => OlderThanInbox(g)'
  BY DEF GenerationInv, InboxIssued, InboxOrdered, OlderThanInbox, Issued

\* What the ends of the running analysis and of a query do.
LEMMA EndCases ==
  ASSUME TypeOK
  PROVE  /\ CompleteAnalysis =>
              /\ runtime.active.gen # 0 /\ runtime'.active = NoAnalysis
              /\ runtime'.committed = runtime.active /\ runtime'.queries = runtime.queries
              /\ Says(Commit(runtime.active.gen)) /\ UNCHANGED <<inbox, hostVars>>
         /\ DefectAnalysis =>
              /\ runtime.active.gen # 0 /\ runtime'.active = NoAnalysis
              /\ runtime'.committed = runtime.committed /\ runtime'.queries = runtime.queries
              /\ Says(Failure(runtime.active.gen)) /\ UNCHANGED <<inbox, hostVars>>
         /\ CompleteQuery => \E q \in runtime.queries :
              /\ runtime'.active = runtime.active /\ runtime'.committed = runtime.committed
              /\ runtime'.queries = runtime.queries \ {q}
              /\ Says(Answer(q)) /\ UNCHANGED <<inbox, hostVars>>
  BY PostOne DEF CompleteAnalysis, Completed, DefectAnalysis, Defected, CompleteQuery, Answered,
                 Step, Take, TypeOK, RuntimeState, Says

\* What the defect of a query does.
LEMMA QueryDefectCase ==
  ASSUME TypeOK, DefectQuery
  PROVE  /\ runtime'.active = runtime.active /\ runtime'.committed = runtime.committed
         /\ runtime'.queries \subseteq runtime.queries
         /\ Silently /\ UNCHANGED <<inbox, hostVars>>
  BY PostNothing DEF DefectQuery, QueryDefected, Step, Take, TypeOK, RuntimeState, Silently

\* An analysis completes: it becomes the basis and is reported committed.
LEMMA CompletionKeepsGenerations ==
  ASSUME TypeOK, GenerationInv, CompleteAnalysis
  PROVE  GenerationInv'
<1>1. /\ runtime.active.gen # 0 /\ runtime'.active = NoAnalysis
      /\ runtime'.committed = runtime.active
      /\ Says(Commit(runtime.active.gen)) /\ inbox' = inbox /\ history' = history
  BY EndCases DEF hostVars
<1>2. /\ runtime.active.gen \in Issued /\ OlderThanInbox(runtime.active.gen)
      /\ runtime.active.sources = history[runtime.active.gen]
      /\ \A i \in Emitted : Ends(emitted[i]) => emitted[i].gen # runtime.active.gen
  BY <1>1 DEF GenerationInv, ActiveIsOpen
<1>3. Commit(runtime.active.gen) \in WorkerMessage
  BY <1>2 DEF Commit, WorkerMessage, Issued, TypeOK
<1>4. /\ Commit(runtime.active.gen).tag = "Commit"
      /\ Commit(runtime.active.gen).gen = runtime.active.gen
  BY DEF Commit
<1>5. /\ InboxIssued' /\ InboxOrdered'
      /\ \A g : OlderThanInbox(g) => OlderThanInbox(g)'
  BY <1>1, InboxUntouched
<1>6. EndedAreOlder' /\ VerdictsAreFinal'
  BY <1>1, <1>2, <1>3, <1>4, <1>5, SayingKeepsGenerations DEF OlderThanInbox
<1>7. /\ Len(emitted') = Len(emitted) + 1 /\ Len(emitted) \in Nat
      /\ emitted'[Len(emitted) + 1] = Commit(runtime.active.gen)
  BY <1>1, AppendFacts DEF TypeOK, Says
<1>8. BasisIsLastCommit'
  <2>1. /\ Len(emitted) + 1 \in {i \in 1..Len(emitted') : emitted'[i].tag = "Commit"}
        /\ emitted'[Len(emitted) + 1].gen = runtime'.committed.gen
        /\ \A j \in 1..Len(emitted') : j <= Len(emitted) + 1
    BY <1>1, <1>4, <1>7
  <2> QED BY <1>1, <1>2, <2>1 DEF BasisIsLastCommit, Emitted, Issued
<1> QED BY <1>1, <1>5, <1>6, <1>8, NothingRuns DEF GenerationInv

\* An analysis ends in a defect: it is reported failed and leaves nothing behind.
LEMMA DefectKeepsGenerations ==
  ASSUME TypeOK, GenerationInv, DefectAnalysis
  PROVE  GenerationInv'
<1>1. /\ runtime.active.gen # 0 /\ runtime'.active = NoAnalysis
      /\ runtime'.committed = runtime.committed
      /\ Says(Failure(runtime.active.gen)) /\ inbox' = inbox /\ history' = history
  BY EndCases DEF hostVars
<1>2. /\ runtime.active.gen \in Issued /\ OlderThanInbox(runtime.active.gen)
      /\ \A i \in Emitted : Ends(emitted[i]) => emitted[i].gen # runtime.active.gen
  BY <1>1 DEF GenerationInv, ActiveIsOpen
<1>3. /\ Failure(runtime.active.gen) \in WorkerMessage
      /\ Failure(runtime.active.gen).tag # "Commit"
      /\ Failure(runtime.active.gen).gen = runtime.active.gen
  BY <1>2 DEF Failure, WorkerMessage, Issued, TypeOK
<1>4. /\ InboxIssued' /\ InboxOrdered'
      /\ \A g : OlderThanInbox(g) => OlderThanInbox(g)'
  BY <1>1, InboxUntouched
<1>5. EndedAreOlder' /\ VerdictsAreFinal'
  BY <1>1, <1>2, <1>3, <1>4, SayingKeepsGenerations DEF OlderThanInbox
<1> QED BY <1>1, <1>3, <1>4, <1>5, BasisKept, NothingRuns DEF GenerationInv

\* A query ends: generations are not concerned.
LEMMA AnswerKeepsGenerations ==
  ASSUME TypeOK, GenerationInv, CompleteQuery
  PROVE  GenerationInv'
<1>1. PICK q \in runtime.queries :
        /\ runtime'.active = runtime.active /\ runtime'.committed = runtime.committed
        /\ Says(Answer(q)) /\ inbox' = inbox /\ history' = history
  BY EndCases DEF hostVars
<1>2. q \in QueryRecord
  BY DEF TypeOK, RuntimeState
<1>3. Answer(q) \in WorkerMessage /\ Answer(q).tag = "Result"
  BY <1>2 DEF Answer, WorkerMessage, QueryRecord
<1>4. ~Ends(Answer(q)) /\ ~IsVerdict(Answer(q))
  BY <1>3 DEF Ends, IsVerdict
<1>5. /\ InboxIssued' /\ InboxOrdered'
      /\ \A g : OlderThanInbox(g) => OlderThanInbox(g)'
  BY <1>1, InboxUntouched
<1>6. EndedAreOlder' /\ VerdictsAreFinal'
  BY <1>1, <1>3, <1>4, <1>5, SayingKeepsGenerations
<1> QED BY <1>1, <1>3, <1>4, <1>5, <1>6, BasisKept, ActiveRunsOn DEF GenerationInv

\* A query ends in a defect: nothing is said of it.
LEMMA QueryDefectKeepsGenerations ==
  ASSUME TypeOK, GenerationInv, DefectQuery
  PROVE  GenerationInv'
<1>1. /\ runtime'.active = runtime.active /\ runtime'.committed = runtime.committed
      /\ Silently /\ inbox' = inbox /\ history' = history
  BY QueryDefectCase DEF hostVars
<1>2. /\ InboxIssued' /\ InboxOrdered'
      /\ \A g : OlderThanInbox(g) => OlderThanInbox(g)'
  BY <1>1, InboxUntouched
<1>3. EndedAreOlder' /\ VerdictsAreFinal'
  BY <1>1, <1>2, SilenceKeepsGenerations
<1> QED BY <1>1, <1>2, <1>3, BasisKept, ActiveRunsOn DEF GenerationInv

\* What the host posts.
LEMMA HostKeepsGenerations ==
  ASSUME TypeOK, GenerationInv,
         HostAnalyze \/ HostSupersede \/ HostQuery \/ HostCancel \/ HostShutdown
  PROVE  GenerationInv'
<1> USE DEF Post, workerVars, hostVars
<1>1. CASE HostAnalyze
  <2>1. PICK sources \in Sources, reread \in BOOLEAN :
          /\ Post(Analyze(Len(history) + 1, sources, reread))
          /\ history' = Append(history, sources)
    BY <1>1 DEF HostAnalyze
  <2>2. /\ Analyze(Len(history) + 1, sources, reread) \in HostMessage
        /\ Analyze(Len(history) + 1, sources, reread).tag = "Analyze"
        /\ Analyze(Len(history) + 1, sources, reread).gen = Len(history) + 1
        /\ Analyze(Len(history) + 1, sources, reread).sources = sources
    BY AnalyzeType DEF TypeOK, Analyze
  <2> QED BY <2>1, <2>2, PostKeepsGenerations
<1>2. CASE HostSupersede
  <2>1. PICK g \in Issued : Post(SupersedeAnalysis(g))
    BY <1>2 DEF HostSupersede, Issued
  <2>2. /\ SupersedeAnalysis(g) \in HostMessage
        /\ SupersedeAnalysis(g).tag = "SupersedeAnalysis" /\ SupersedeAnalysis(g).gen = g
    BY DEF TypeOK, SupersedeAnalysis, HostMessage, Issued
  <2> QED BY <1>2, <2>1, <2>2, PostKeepsGenerations DEF HostSupersede
<1>3. CASE HostQuery
  <2>1. PICK r \in Requests \ asked, g \in Issued, d \in Docs :
          Post(Query(g, r, d)) /\ history' = history
    BY <1>3 DEF HostQuery, Issued
  <2>2. Query(g, r, d) \in HostMessage /\ Query(g, r, d).tag = "Query"
    BY DEF TypeOK, Query, HostMessage, Issued
  <2> QED BY <2>1, <2>2, PostKeepsGenerations
<1>4. CASE HostCancel
  <2>1. PICK r \in asked : Post(CancelQuery(r)) /\ history' = history
    BY <1>4 DEF HostCancel
  <2>2. CancelQuery(r) \in HostMessage /\ CancelQuery(r).tag = "CancelQuery"
    BY DEF TypeOK, CancelQuery, HostMessage
  <2> QED BY <2>1, <2>2, PostKeepsGenerations
<1>5. CASE HostShutdown
  <2>1. Shutdown \in HostMessage /\ Shutdown.tag = "Shutdown"
    BY DEF Shutdown, HostMessage
  <2> QED BY <1>5, <2>1, PostKeepsGenerations DEF HostShutdown
<1> QED BY <1>1, <1>2, <1>3, <1>4, <1>5

\* A step that changes nothing the invariant speaks of.
LEMMA StutterKeepsGenerations ==
  ASSUME GenerationInv, UNCHANGED <<runtime, inbox, emitted, history>>
  PROVE  GenerationInv'
  BY DEF GenerationInv, InboxIssued, InboxOrdered, EndedAreOlder, ActiveIsOpen, OlderThanInbox,
         VerdictsAreFinal, BasisIsLastCommit, Emitted, Issued

\* The invariant holds in every reachable state, for any host that keeps the
\* discipline of ProjectWorkerRuntime.
LEMMA Generations == Spec => []GenerationInv
<1>1. Init => GenerationInv
  <2> SUFFICES ASSUME Init PROVE GenerationInv
    OBVIOUS
  <2>1. /\ Len(inbox) = 1 /\ inbox[1].tag = "Initialize"
        /\ Len(emitted) = 0 /\ runtime.active.gen = 0 /\ runtime.committed.gen = 0
    BY DEF Init, Fresh, NoAnalysis, Initialize
  <2>2. InboxIssued /\ InboxOrdered
    BY <2>1 DEF InboxIssued, InboxOrdered
  <2>3. EndedAreOlder /\ ActiveIsOpen /\ VerdictsAreFinal /\ BasisIsLastCommit
    BY <2>1 DEF EndedAreOlder, ActiveIsOpen, VerdictsAreFinal, BasisIsLastCommit, Emitted
  <2> QED BY <2>2, <2>3 DEF GenerationInv
<1>2. TypeOK /\ GenerationInv /\ [Next]_vars => GenerationInv'
  <2> SUFFICES ASSUME TypeOK, GenerationInv, [Next]_vars PROVE GenerationInv'
    OBVIOUS
  <2>1. CASE FileSystemChanges \/ UNCHANGED vars
    BY <2>1, StutterKeepsGenerations DEF FileSystemChanges, vars, workerVars, hostVars
  <2> QED BY <2>1, HostKeepsGenerations, AcceptKeepsGenerations, CompletionKeepsGenerations,
             DefectKeepsGenerations, AnswerKeepsGenerations, QueryDefectKeepsGenerations DEF Next
<1> QED BY Typing, <1>1, <1>2, PTL DEF Spec

\* The host may forget a generation the moment it reads that the generation was
\* superseded, committed or failed: supersede interrupts the fiber of the
\* analysis before it posts Superseded, and a completed fiber is unregistered.
THEOREM Finality == Spec => []VerdictsAreFinal
  BY Generations, PTL DEF GenerationInv

\* What later analyses reuse is the last complete analysis, whatever was
\* superseded or failed since: workspace.analyzeProject installs its result only
\* when it is complete.
THEOREM Basis == Spec => []BasisIsLastCommit
  BY Generations, PTL DEF GenerationInv
-----------------------------------------------------------------------------
\* How the parts of RequestInv survive a step.

\* The log as far as requests are concerned: what was posted stays, and a new
\* result is `news'.
LogGrowsBy(news) ==
  /\ Len(emitted') \in Nat /\ Len(emitted) <= Len(emitted')
  /\ \A k \in 1..Len(emitted) : emitted'[k] = emitted[k]
  /\ \A k \in 1..Len(emitted') :
       k > Len(emitted) /\ emitted'[k].tag = "Result" =>
         k = Len(emitted) + 1 /\ emitted'[k] \in news

LEMMA LogFacts ==
  ASSUME TypeOK
  PROVE  /\ Silently => LogGrowsBy({})
         /\ \A m : Says(m) /\ m.tag # "Result" => LogGrowsBy({})
         /\ \A m : Says(m) => LogGrowsBy({m})
<1>1. Len(emitted) \in Nat
  BY DEF TypeOK
<1>2. ASSUME Silently PROVE LogGrowsBy({})
  BY <1>1, <1>2 DEF Silently, LogGrowsBy
<1>3. ASSUME NEW m, Says(m)
      PROVE  /\ Len(emitted') = Len(emitted) + 1
             /\ emitted'[Len(emitted) + 1] = m
             /\ \A k \in 1..Len(emitted) : emitted'[k] = emitted[k]
  BY <1>3, AppendFacts DEF TypeOK, Says
<1>4. ASSUME NEW m, Says(m) PROVE LogGrowsBy({m})
  BY <1>1, <1>3, <1>4 DEF LogGrowsBy
<1>5. ASSUME NEW m, Says(m), m.tag # "Result" PROVE LogGrowsBy({})
  BY <1>1, <1>3, <1>5 DEF LogGrowsBy
<1> QED BY <1>2, <1>4, <1>5

\* The oldest `taken' messages are gone from the inbox.
InboxLoses(taken) ==
  /\ Len(inbox') = Len(inbox) - taken
  /\ \A i \in 1..Len(inbox') : i + taken \in 1..Len(inbox) /\ inbox'[i] = inbox[i + taken]

LEMMA InboxFacts ==
  ASSUME TypeOK
  PROVE  /\ inbox' = inbox => InboxLoses(0)
         /\ inbox # <<>> /\ inbox' = Tail(inbox) => InboxLoses(1)
<1>1. Len(inbox) \in Nat
  BY DEF TypeOK
<1>2. ASSUME inbox' = inbox PROVE InboxLoses(0)
  BY <1>1, <1>2 DEF InboxLoses
<1>3. ASSUME inbox # <<>>, inbox' = Tail(inbox) PROVE InboxLoses(1)
  BY <1>3, TailFacts DEF TypeOK, InboxLoses
<1> QED BY <1>2, <1>3

\* No request is answered, and no query begins.
LEMMA NoAnswerKeepsRequests ==
  ASSUME TypeOK, RequestInv, UNCHANGED <<history, asked>>,
         NEW taken \in {0, 1}, InboxLoses(taken), LogGrowsBy({}),
         runtime'.queries \subseteq runtime.queries
  PROVE  RequestInv'
<1>1. \A k \in 1..Len(emitted') : emitted'[k].tag = "Result" =>
        k \in 1..Len(emitted) /\ emitted'[k] = emitted[k]
  BY DEF LogGrowsBy, TypeOK
<1>2. \A k \in 1..Len(emitted) : k \in 1..Len(emitted') /\ emitted'[k] = emitted[k]
  BY DEF LogGrowsBy, TypeOK
<1>3. QueriesRead'
  BY <1>2 DEF RequestInv, QueriesRead, Emitted, Issued
<1>4. AnswersReadTheirGeneration'
  BY <1>1, <1>2 DEF RequestInv, AnswersReadTheirGeneration, Emitted
<1>5. InboxAsked'
  <2> SUFFICES ASSUME NEW i \in 1..Len(inbox'), inbox'[i].tag = "Query"
               PROVE  /\ inbox'[i].req \in asked /\ inbox'[i].gen \in Issued
                      /\ \A j \in 1..Len(inbox') :
                           inbox'[j].tag = "Query" /\ inbox'[j].req = inbox'[i].req => j = i
                      /\ \A q \in runtime.queries : q.req # inbox'[i].req
                      /\ \A k \in 1..Len(emitted') :
                           emitted'[k].tag = "Result" => emitted'[k].req # inbox'[i].req
    BY DEF InboxAsked, Emitted, Issued
  <2>1. i + taken \in 1..Len(inbox) /\ inbox'[i] = inbox[i + taken]
    BY DEF InboxLoses
  <2>2. ASSUME NEW j \in 1..Len(inbox'), inbox'[j].tag = "Query", inbox'[j].req = inbox'[i].req
        PROVE  j = i
    <3>1. j + taken \in 1..Len(inbox) /\ inbox'[j] = inbox[j + taken]
      BY DEF InboxLoses
    <3>2. j + taken = i + taken
      BY <2>1, <2>2, <3>1 DEF RequestInv, InboxAsked
    <3> QED BY <3>2
  <2> QED BY <1>1, <2>1, <2>2 DEF RequestInv, InboxAsked, Emitted
<1>6. QueriesAsked' /\ ResultsAsked'
  BY <1>1 DEF RequestInv, QueriesAsked, ResultsAsked, Emitted
<1>7. OneAnswerPerRequest'
  BY <1>1 DEF RequestInv, OneAnswerPerRequest, Emitted
<1> QED BY <1>3, <1>4, <1>5, <1>6, <1>7 DEF RequestInv

\* A request is answered: nobody asked it again, and nothing of it is left.
LEMMA AnswerKeepsRequests ==
  ASSUME TypeOK, RequestInv, UNCHANGED <<history, asked>>,
         NEW taken \in {0, 1}, InboxLoses(taken),
         NEW m, LogGrowsBy({m}), m.req \in asked,
         m.text = NoText \/
           (/\ m.gen \in Issued /\ m.text = history[m.gen][m.doc]
            /\ \E j \in Emitted : emitted[j] = Commit(m.gen)),
         runtime'.queries \subseteq runtime.queries,
         \A q \in runtime'.queries : q.req # m.req,
         \A i \in 1..Len(inbox') : inbox'[i].tag = "Query" => inbox'[i].req # m.req,
         \A k \in Emitted : emitted[k].tag = "Result" => emitted[k].req # m.req
  PROVE  RequestInv'
<1>1. \A k \in 1..Len(emitted') : emitted'[k].tag = "Result" =>
        \/ k \in 1..Len(emitted) /\ emitted'[k] = emitted[k]
        \/ k = Len(emitted) + 1 /\ emitted'[k] = m
  BY DEF LogGrowsBy, TypeOK
<1>2. \A k \in 1..Len(emitted) : k \in 1..Len(emitted') /\ emitted'[k] = emitted[k]
  BY DEF LogGrowsBy, TypeOK
<1>3. QueriesRead'
  BY <1>2 DEF RequestInv, QueriesRead, Emitted, Issued
<1>4. AnswersReadTheirGeneration'
  <2> SUFFICES ASSUME NEW i \in 1..Len(emitted'), emitted'[i].tag = "Result",
                      emitted'[i].text # NoText
               PROVE  /\ emitted'[i].gen \in Issued
                      /\ emitted'[i].text = history[emitted'[i].gen][emitted'[i].doc]
                      /\ \E j \in 1..Len(emitted') : j < i /\ emitted'[j] = Commit(emitted'[i].gen)
    BY DEF AnswersReadTheirGeneration, Emitted, Issued
  <2>1. CASE i \in 1..Len(emitted) /\ emitted'[i] = emitted[i]
    BY <1>2, <2>1 DEF RequestInv, AnswersReadTheirGeneration, Emitted, Issued
  <2>2. CASE i = Len(emitted) + 1 /\ emitted'[i] = m
    BY <1>2, <2>2 DEF Emitted
  <2> QED BY <1>1, <2>1, <2>2
<1>5. InboxAsked'
  <2> SUFFICES ASSUME NEW i \in 1..Len(inbox'), inbox'[i].tag = "Query"
               PROVE  /\ inbox'[i].req \in asked /\ inbox'[i].gen \in Issued
                      /\ \A j \in 1..Len(inbox') :
                           inbox'[j].tag = "Query" /\ inbox'[j].req = inbox'[i].req => j = i
                      /\ \A q \in runtime.queries : q.req # inbox'[i].req
                      /\ \A k \in 1..Len(emitted') :
                           emitted'[k].tag = "Result" => emitted'[k].req # inbox'[i].req
    BY DEF InboxAsked, Emitted, Issued
  <2>1. i + taken \in 1..Len(inbox) /\ inbox'[i] = inbox[i + taken]
    BY DEF InboxLoses
  <2>2. ASSUME NEW j \in 1..Len(inbox'), inbox'[j].tag = "Query", inbox'[j].req = inbox'[i].req
        PROVE  j = i
    <3>1. j + taken \in 1..Len(inbox) /\ inbox'[j] = inbox[j + taken]
      BY DEF InboxLoses
    <3>2. j + taken = i + taken
      BY <2>1, <2>2, <3>1 DEF RequestInv, InboxAsked
    <3> QED BY <3>2
  <2> QED BY <1>1, <2>1, <2>2 DEF RequestInv, InboxAsked, Emitted
<1>6. QueriesAsked' /\ ResultsAsked'
  BY <1>1 DEF RequestInv, QueriesAsked, ResultsAsked, Emitted
<1>7. OneAnswerPerRequest'
  BY <1>1 DEF RequestInv, OneAnswerPerRequest, Emitted
<1> QED BY <1>3, <1>4, <1>5, <1>6, <1>7 DEF RequestInv
\* The text a query reads is the one issued for the committed generation, which
\* was reported committed.
LEMMA ReadFacts ==
  ASSUME TypeOK, GenerationInv, runtime.committed.gen \in Issued
  PROVE  /\ runtime.committed.sources = history[runtime.committed.gen]
         /\ \E i \in Emitted : emitted[i] = Commit(runtime.committed.gen)
<1>1. runtime.committed.gen # 0
  BY DEF Issued
<1>2. /\ runtime.committed.sources = history[runtime.committed.gen]
      /\ \E i \in Emitted : emitted[i].tag = "Commit" /\ emitted[i].gen = runtime.committed.gen
  BY <1>1 DEF GenerationInv, BasisIsLastCommit
<1>3. PICK i \in Emitted : emitted[i].tag = "Commit" /\ emitted[i].gen = runtime.committed.gen
  BY <1>2
<1>4. emitted[i] \in WorkerMessage
  BY DEF TypeOK, Emitted
<1>5. emitted[i] \in [tag : {"Superseded", "Commit", "Failure"}, gen : Nat]
  BY <1>3, <1>4 DEF WorkerMessage
<1>6. emitted[i] = Commit(runtime.committed.gen)
  BY <1>3, <1>5 DEF Commit
<1> QED BY <1>2, <1>6

\* A query begins: its request was asked once, and waited in the inbox until now.
LEMMA ReadKeepsRequests ==
  ASSUME TypeOK, RequestInv, UNCHANGED <<history, asked>>, InboxLoses(1), LogGrowsBy({}),
         NEW read, runtime'.queries \subseteq runtime.queries \cup {read},
         \A q \in runtime'.queries : q.req = read.req => q = read,
         read.req \in asked,
         read.gen \in Issued, read.text = history[read.gen][read.doc],
         \E j \in Emitted : emitted[j] = Commit(read.gen),
         \A i \in 1..Len(inbox') : inbox'[i].tag = "Query" => inbox'[i].req # read.req,
         \A k \in Emitted : emitted[k].tag = "Result" => emitted[k].req # read.req
  PROVE  RequestInv'
<1>1. \A k \in 1..Len(emitted') : emitted'[k].tag = "Result" =>
        k \in 1..Len(emitted) /\ emitted'[k] = emitted[k]
  BY DEF LogGrowsBy, TypeOK
<1>2. \A k \in 1..Len(emitted) : k \in 1..Len(emitted') /\ emitted'[k] = emitted[k]
  BY DEF LogGrowsBy, TypeOK
<1>3. QueriesRead'
  BY <1>2 DEF RequestInv, QueriesRead, Emitted, Issued
<1>4. AnswersReadTheirGeneration'
  BY <1>1, <1>2 DEF RequestInv, AnswersReadTheirGeneration, Emitted
<1>5. InboxAsked'
  <2> SUFFICES ASSUME NEW i \in 1..Len(inbox'), inbox'[i].tag = "Query"
               PROVE  /\ inbox'[i].req \in asked /\ inbox'[i].gen \in Issued
                      /\ \A j \in 1..Len(inbox') :
                           inbox'[j].tag = "Query" /\ inbox'[j].req = inbox'[i].req => j = i
                      /\ \A q \in runtime'.queries : q.req # inbox'[i].req
                      /\ \A k \in 1..Len(emitted') :
                           emitted'[k].tag = "Result" => emitted'[k].req # inbox'[i].req
    BY DEF InboxAsked, Emitted, Issued
  <2>1. i + 1 \in 1..Len(inbox) /\ inbox'[i] = inbox[i + 1]
    BY DEF InboxLoses
  <2>2. ASSUME NEW j \in 1..Len(inbox'), inbox'[j].tag = "Query", inbox'[j].req = inbox'[i].req
        PROVE  j = i
    <3>1. j + 1 \in 1..Len(inbox) /\ inbox'[j] = inbox[j + 1]
      BY DEF InboxLoses
    <3>2. j + 1 = i + 1
      BY <2>1, <2>2, <3>1 DEF RequestInv, InboxAsked
    <3> QED BY <3>2
  <2>3. \A q \in runtime.queries : q.req # inbox'[i].req
    BY <2>1 DEF RequestInv, InboxAsked
  <2>4. \A q \in runtime'.queries : q.req # inbox'[i].req
    BY <2>3
  <2>5. \A k \in 1..Len(emitted') : emitted'[k].tag = "Result" => emitted'[k].req # inbox'[i].req
    BY <1>1, <2>1 DEF RequestInv, InboxAsked, Emitted
  <2>6. inbox'[i].req \in asked /\ inbox'[i].gen \in Issued
    BY <2>1 DEF RequestInv, InboxAsked
  <2> QED BY <2>2, <2>4, <2>5, <2>6
<1>6. QueriesAsked' /\ ResultsAsked'
  BY <1>1 DEF RequestInv, QueriesAsked, ResultsAsked, Emitted
<1>7. OneAnswerPerRequest'
  BY <1>1 DEF RequestInv, OneAnswerPerRequest, Emitted
<1> QED BY <1>3, <1>4, <1>5, <1>6, <1>7 DEF RequestInv

\* The six kinds of messages.
LEMMA AcceptKeepsRequests ==
  ASSUME TypeOK, GenerationInv, RequestInv, Accept
  PROVE  RequestInv'
<1> DEFINE m == Head(inbox)
<1>1. /\ inbox # <<>> /\ inbox' = Tail(inbox) /\ UNCHANGED <<history, asked>>
      /\ m \in HostMessage /\ m = inbox[1] /\ 1 \in 1..Len(inbox)
  BY TailFacts DEF Accept, hostVars, TypeOK
<1>2. InboxLoses(1)
  BY <1>1, InboxFacts
<1>3. ASSUME runtime'.queries \subseteq runtime.queries, LogGrowsBy({})
      PROVE  RequestInv'
  BY <1>1, <1>2, <1>3, NoAnswerKeepsRequests
<1>4. CASE m.tag # "Query"
  <2>1. runtime'.queries \subseteq runtime.queries
    BY <1>4, AcceptCases
  <2>2. Silently \/ Says(Ready) \/ Says(Stopped) \/ \E g : Says(Superseded(g))
    BY <1>4, AcceptCases
  <2>3. LogGrowsBy({})
    BY <2>2, LogFacts DEF Ready, Stopped, Superseded
  <2> QED BY <1>3, <2>1, <2>3
<1>5. CASE m.tag = "Query"
  <2>1. /\ m.req \in asked /\ m.gen \in Issued
        /\ \A j \in 1..Len(inbox) : inbox[j].tag = "Query" /\ inbox[j].req = m.req => j = 1
        /\ \A q \in runtime.queries : q.req # m.req
        /\ \A k \in Emitted : emitted[k].tag = "Result" => emitted[k].req # m.req
    BY <1>1, <1>5 DEF RequestInv, InboxAsked
  <2>2. \A i \in 1..Len(inbox') : inbox'[i].tag = "Query" => inbox'[i].req # m.req
    <3>1. \A i \in 1..Len(inbox') : i + 1 # 1
      OBVIOUS
    <3> QED BY <1>2, <2>1, <3>1 DEF InboxLoses
  <2>3. CASE Says(Unavailable(m)) /\ runtime'.queries = Others(m.req)
    <3> DEFINE reply == Unavailable(m)
    <3>1. LogGrowsBy({reply})
      BY <2>3, LogFacts
    <3>2. reply.req = m.req /\ reply.text = NoText
      BY DEF Unavailable
    <3>3. /\ runtime'.queries \subseteq runtime.queries
          /\ \A q \in runtime'.queries : q.req # m.req
      BY <2>3 DEF Others
    <3> HIDE DEF m, reply
    <3>4. /\ reply.req \in asked
          /\ \A q \in runtime'.queries : q.req # reply.req
          /\ \A i \in 1..Len(inbox') : inbox'[i].tag = "Query" => inbox'[i].req # reply.req
          /\ \A k \in Emitted : emitted[k].tag = "Result" => emitted[k].req # reply.req
      BY <2>1, <2>2, <3>2, <3>3
    <3>5. UNCHANGED <<history, asked>> /\ 1 \in {0, 1}
      BY <1>1
    <3> QED BY <1>2, <3>1, <3>2, <3>3, <3>4, <3>5, AnswerKeepsRequests, Zenon
  <2>4. ASSUME Silently, runtime.committed.gen = m.gen,
               runtime'.queries = Others(m.req) \cup
                 {[gen |-> m.gen, req |-> m.req, doc |-> m.doc,
                   text |-> runtime.committed.sources[m.doc]]}
        PROVE  RequestInv'
    <3> DEFINE read == [gen |-> m.gen, req |-> m.req, doc |-> m.doc,
                        text |-> runtime.committed.sources[m.doc]]
    <3>1. /\ read.req = m.req /\ read.gen = m.gen /\ read.doc = m.doc
          /\ read.text = runtime.committed.sources[m.doc]
          /\ runtime'.queries = Others(m.req) \cup {read}
      BY <2>4
    <3> HIDE DEF read
    <3>2. /\ runtime.committed.sources = history[m.gen]
          /\ \E j \in Emitted : emitted[j] = Commit(m.gen)
      BY <2>1, <2>4, ReadFacts
    <3>3. /\ runtime'.queries \subseteq runtime.queries \cup {read}
          /\ \A q \in runtime'.queries : q.req = read.req => q = read
      BY <3>1 DEF Others
    <3>4. LogGrowsBy({})
      BY <2>4, LogFacts
    <3>5. read.text = history[read.gen][read.doc]
      BY <3>1, <3>2
    <3> QED BY <1>1, <1>2, <2>1, <2>2, <3>1, <3>2, <3>3, <3>4, <3>5, ReadKeepsRequests
  <2> QED BY <1>5, <2>3, <2>4, AcceptCases
<1> QED BY <1>4, <1>5
\* A query ends: its request gets its only answer.
LEMMA CompleteQueryKeepsRequests ==
  ASSUME TypeOK, RequestInv, CompleteQuery
  PROVE  RequestInv'
<1>1. PICK q \in runtime.queries :
        /\ runtime'.queries = runtime.queries \ {q}
        /\ Says(Answer(q)) /\ UNCHANGED <<inbox, hostVars>>
  BY EndCases
<1> DEFINE reply == Answer(q)
<1>2. /\ reply.req = q.req /\ reply.gen = q.gen /\ reply.doc = q.doc /\ reply.text = q.text
      /\ LogGrowsBy({reply})
  BY <1>1, LogFacts DEF Answer
<1> HIDE DEF reply
<1>3. /\ q.req \in asked /\ q.gen \in Issued /\ q.text = history[q.gen][q.doc]
      /\ \E j \in Emitted : emitted[j] = Commit(q.gen)
      /\ \A p \in runtime.queries : p.req = q.req => p = q
      /\ \A k \in Emitted : emitted[k].tag = "Result" => emitted[k].req # q.req
  BY DEF RequestInv, QueriesAsked, QueriesRead
<1>4. \A i \in 1..Len(inbox) : inbox[i].tag = "Query" => inbox[i].req # q.req
  BY DEF RequestInv, InboxAsked
<1>5. inbox' = inbox /\ UNCHANGED <<history, asked>> /\ 0 \in {0, 1} /\ InboxLoses(0)
  BY <1>1, InboxFacts DEF hostVars
<1>6. /\ runtime'.queries \subseteq runtime.queries
      /\ \A p \in runtime'.queries : p.req # reply.req
  BY <1>1, <1>2, <1>3
<1>7. /\ reply.req \in asked /\ reply.gen \in Issued
      /\ reply.text = history[reply.gen][reply.doc]
      /\ \E j \in Emitted : emitted[j] = Commit(reply.gen)
      /\ \A i \in 1..Len(inbox') : inbox'[i].tag = "Query" => inbox'[i].req # reply.req
      /\ \A k \in Emitted : emitted[k].tag = "Result" => emitted[k].req # reply.req
  BY <1>2, <1>3, <1>4, <1>5
<1> QED BY <1>2, <1>5, <1>6, <1>7, AnswerKeepsRequests, Zenon

\* An analysis ends: requests are not concerned.
LEMMA EndKeepsRequests ==
  ASSUME TypeOK, RequestInv, CompleteAnalysis \/ DefectAnalysis
  PROVE  RequestInv'
<1>1. /\ runtime'.queries = runtime.queries /\ UNCHANGED <<inbox, hostVars>>
      /\ Says(Commit(runtime.active.gen)) \/ Says(Failure(runtime.active.gen))
  BY EndCases
<1>2. LogGrowsBy({})
  BY <1>1, LogFacts DEF Commit, Failure
<1>3. InboxLoses(0)
  BY <1>1, InboxFacts
<1> QED BY <1>1, <1>2, <1>3, NoAnswerKeepsRequests DEF hostVars

\* A query ends in a defect: its request is not answered.
LEMMA QueryDefectKeepsRequests ==
  ASSUME TypeOK, RequestInv, DefectQuery
  PROVE  RequestInv'
<1>1. /\ runtime'.queries \subseteq runtime.queries
      /\ Silently /\ UNCHANGED <<inbox, hostVars>>
  BY QueryDefectCase
<1>2. LogGrowsBy({}) /\ InboxLoses(0) /\ UNCHANGED <<history, asked>>
  BY <1>1, LogFacts, InboxFacts DEF hostVars
<1> QED BY <1>1, <1>2, NoAnswerKeepsRequests

\* The host posts a message; if it is a query, its request is a new one.
LEMMA PostKeepsRequests ==
  ASSUME TypeOK, RequestInv, NEW m \in HostMessage, Post(m),
         \/ history' = history
         \/ \E sources \in Sources : history' = Append(history, sources),
         asked \subseteq asked',
         m.tag = "Query" => m.req \in asked' \ asked /\ m.gen \in Issued
  PROVE  RequestInv'
<1>1. /\ Len(inbox') = Len(inbox) + 1 /\ Len(inbox) \in Nat
      /\ inbox'[Len(inbox) + 1] = m
      /\ \A i \in 1..Len(inbox) : inbox'[i] = inbox[i]
      /\ UNCHANGED <<runtime, emitted>>
  BY AppendFacts DEF TypeOK, Post, workerVars
<1>2. Issued \subseteq Issued' /\ \A g \in Issued : history'[g] = history[g]
  <2>1. Len(history) \in Nat
    BY DEF TypeOK
  <2>2. ASSUME NEW sources \in Sources, history' = Append(history, sources)
        PROVE  /\ Len(history') = Len(history) + 1
               /\ \A g \in 1..Len(history) : history'[g] = history[g]
    BY <2>2, AppendFacts DEF TypeOK
  <2> QED BY <2>1, <2>2 DEF Issued
<1>3. QueriesRead' /\ AnswersReadTheirGeneration'
  BY <1>1, <1>2 DEF RequestInv, QueriesRead, AnswersReadTheirGeneration, Emitted, Issued
<1>4. QueriesAsked' /\ ResultsAsked' /\ OneAnswerPerRequest'
  BY <1>1 DEF RequestInv, QueriesAsked, ResultsAsked, OneAnswerPerRequest, Emitted
<1>5. InboxAsked'
  <2> SUFFICES ASSUME NEW i \in 1..Len(inbox'), inbox'[i].tag = "Query"
               PROVE  /\ inbox'[i].req \in asked' /\ inbox'[i].gen \in Issued'
                      /\ \A j \in 1..Len(inbox') :
                           inbox'[j].tag = "Query" /\ inbox'[j].req = inbox'[i].req => j = i
                      /\ \A q \in runtime'.queries : q.req # inbox'[i].req
                      /\ \A k \in 1..Len(emitted') :
                           emitted'[k].tag = "Result" => emitted'[k].req # inbox'[i].req
    BY DEF InboxAsked, Emitted
  <2>1. \A j \in 1..Len(inbox') : j \in 1..Len(inbox) \/ j = Len(inbox) + 1
    BY <1>1
  <2>2. CASE i \in 1..Len(inbox)
    <3>1. inbox'[i].req \in asked /\ inbox'[i].gen \in Issued
      BY <1>1, <2>2 DEF RequestInv, InboxAsked
    <3>2. ASSUME NEW j \in 1..Len(inbox'), inbox'[j].tag = "Query", inbox'[j].req = inbox'[i].req
          PROVE  j = i
      BY <1>1, <2>1, <2>2, <3>1, <3>2 DEF RequestInv, InboxAsked
    <3> QED BY <1>1, <1>2, <2>2, <3>1, <3>2 DEF RequestInv, InboxAsked, Emitted
  <2>3. CASE i = Len(inbox) + 1
    <3>1. m.tag = "Query" /\ inbox'[i] = m
      BY <1>1, <2>3
    <3>2. ASSUME NEW j \in 1..Len(inbox'), inbox'[j].tag = "Query", inbox'[j].req = inbox'[i].req
          PROVE  j = i
      BY <1>1, <2>1, <2>3, <3>1, <3>2 DEF RequestInv, InboxAsked
    <3> QED BY <1>1, <1>2, <3>1, <3>2 DEF RequestInv, QueriesAsked, ResultsAsked, Emitted
  <2> QED BY <2>1, <2>2, <2>3
<1> QED BY <1>3, <1>4, <1>5 DEF RequestInv

LEMMA HostKeepsRequests ==
  ASSUME TypeOK, RequestInv,
         HostAnalyze \/ HostSupersede \/ HostQuery \/ HostCancel \/ HostShutdown
  PROVE  RequestInv'
<1>1. CASE HostAnalyze
  <2>1. PICK sources \in Sources, reread \in BOOLEAN :
          /\ Post(Analyze(Len(history) + 1, sources, reread))
          /\ history' = Append(history, sources) /\ asked' = asked
    BY <1>1 DEF HostAnalyze
  <2>2. /\ Analyze(Len(history) + 1, sources, reread) \in HostMessage
        /\ Analyze(Len(history) + 1, sources, reread).tag = "Analyze"
    BY AnalyzeType DEF TypeOK, Analyze
  <2> QED BY <2>1, <2>2, PostKeepsRequests
<1>2. CASE HostSupersede
  <2>1. PICK g \in Issued : Post(SupersedeAnalysis(g)) /\ UNCHANGED <<history, asked>>
    BY <1>2 DEF HostSupersede, Issued
  <2>2. /\ SupersedeAnalysis(g) \in HostMessage
        /\ SupersedeAnalysis(g).tag = "SupersedeAnalysis"
    BY DEF TypeOK, SupersedeAnalysis, HostMessage, Issued
  <2> QED BY <2>1, <2>2, PostKeepsRequests
<1>3. CASE HostQuery
  <2>1. PICK r \in Requests \ asked, g \in Issued, d \in Docs :
          Post(Query(g, r, d)) /\ history' = history /\ asked' = asked \cup {r}
    BY <1>3 DEF HostQuery, Issued
  <2>2. /\ Query(g, r, d) \in HostMessage
        /\ Query(g, r, d).req = r /\ Query(g, r, d).gen = g
    BY DEF TypeOK, Query, HostMessage, Issued
  <2> QED BY <2>1, <2>2, PostKeepsRequests
<1>4. CASE HostCancel
  <2>1. PICK r \in asked : Post(CancelQuery(r)) /\ UNCHANGED <<history, asked>>
    BY <1>4 DEF HostCancel, hostVars
  <2>2. CancelQuery(r) \in HostMessage /\ CancelQuery(r).tag = "CancelQuery"
    BY DEF TypeOK, CancelQuery, HostMessage
  <2> QED BY <2>1, <2>2, PostKeepsRequests
<1>5. CASE HostShutdown
  <2>1. Shutdown \in HostMessage /\ Shutdown.tag = "Shutdown"
    BY DEF Shutdown, HostMessage
  <2> QED BY <1>5, <2>1, PostKeepsRequests DEF HostShutdown, hostVars
<1> QED BY <1>1, <1>2, <1>3, <1>4, <1>5

LEMMA StutterKeepsRequests ==
  ASSUME RequestInv, UNCHANGED <<runtime, inbox, emitted, history, asked>>
  PROVE  RequestInv'
<1>1. QueriesRead' /\ AnswersReadTheirGeneration'
  BY DEF RequestInv, QueriesRead, AnswersReadTheirGeneration, Emitted, Issued
<1>2. InboxAsked'
  BY DEF RequestInv, InboxAsked, Emitted, Issued
<1>3. QueriesAsked' /\ ResultsAsked' /\ OneAnswerPerRequest'
  BY DEF RequestInv, QueriesAsked, ResultsAsked, OneAnswerPerRequest, Emitted
<1> QED BY <1>1, <1>2, <1>3 DEF RequestInv

\* The invariant holds in every reachable state.
LEMMA RequestsAreKept == Spec => []RequestInv
<1>1. Init => RequestInv
  <2> SUFFICES ASSUME Init PROVE RequestInv
    OBVIOUS
  <2>1. /\ Len(inbox) = 1 /\ inbox[1].tag = "Initialize"
        /\ Len(emitted) = 0 /\ runtime.queries = {}
    BY DEF Init, Fresh, Initialize
  <2> QED BY <2>1 DEF RequestInv, QueriesRead, AnswersReadTheirGeneration, InboxAsked,
             QueriesAsked, ResultsAsked, OneAnswerPerRequest, Emitted
<1>2. TypeOK /\ GenerationInv /\ RequestInv /\ [Next]_vars => RequestInv'
  <2> SUFFICES ASSUME TypeOK, GenerationInv, RequestInv, [Next]_vars PROVE RequestInv'
    OBVIOUS
  <2>1. CASE FileSystemChanges \/ UNCHANGED vars
    BY <2>1, StutterKeepsRequests DEF FileSystemChanges, vars, workerVars, hostVars
  <2> QED BY <2>1, HostKeepsRequests, AcceptKeepsRequests, EndKeepsRequests,
             CompleteQueryKeepsRequests, QueryDefectKeepsRequests DEF Next
<1> QED BY Typing, Generations, <1>1, <1>2, PTL DEF Spec

\* A query is answered from the generation it names and no other: startQuery
\* compares the committed generation and keeps the snapshot it found.
THEOREM GenerationReads == Spec => []AnswersReadTheirGeneration
  BY RequestsAreKept, PTL DEF RequestInv

\* A request gets at most one result: queries are unregistered when they end,
\* are superseded or are cancelled.
THEOREM SingleAnswers == Spec => []OneAnswerPerRequest
  BY RequestsAreKept, PTL DEF RequestInv
=============================================================================
