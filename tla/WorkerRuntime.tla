---------------------------- MODULE WorkerRuntime ----------------------------
(***************************************************************************)
(* The transitions of one compiler worker of the language server           *)
(* (packages/lsp/src/ProjectWorkerRuntime.ts), as functions on the worker's *)
(* state.  A transition yields the next state and the replies the worker   *)
(* posts, in order.  ProjectWorkerRuntime makes a specification of them and *)
(* WorkspaceEngine runs one such state per worker thread.                   *)
(*                                                                         *)
(* A document's bytes are a natural number, the stamp of the edit that     *)
(* produced them; 0 stands for "no document".  What a worker knows of the  *)
(* closed files on disk (its inventory) is the stamp of the file system    *)
(* state it was read from.  Generation 0 is never analysed, so it serves   *)
(* as "none".                                                              *)
(***************************************************************************)
EXTENDS Naturals, Sequences

CONSTANTS Docs,      \* document URIs
          Requests   \* request identifiers

NoText == 0
Snapshot == [Docs -> Nat]
NoSources == [d \in Docs |-> NoText]

-----------------------------------------------------------------------------
\* Messages from the host to a worker.

Initialize == [tag |-> "Initialize"]
Analyze(g, sources, reread) ==
  [tag |-> "Analyze", gen |-> g, sources |-> sources, reread |-> reread]
SupersedeAnalysis(g) == [tag |-> "SupersedeAnalysis", gen |-> g]
Query(g, r, d) == [tag |-> "Query", gen |-> g, req |-> r, doc |-> d]
CancelQuery(r) == [tag |-> "CancelQuery", req |-> r]
Shutdown == [tag |-> "Shutdown"]

HostMessage ==
  [tag : {"Initialize", "Shutdown"}]
    \cup [tag : {"Analyze"}, gen : Nat, sources : Snapshot, reread : BOOLEAN]
    \cup [tag : {"SupersedeAnalysis"}, gen : Nat]
    \cup [tag : {"Query"}, gen : Nat, req : Requests, doc : Docs]
    \cup [tag : {"CancelQuery"}, req : Requests]

\* Messages from a worker to the host.

Ready == [tag |-> "Ready"]
Superseded(g) == [tag |-> "Superseded", gen |-> g]
Commit(g) == [tag |-> "Commit", gen |-> g]
Failure(g) == [tag |-> "Failure", gen |-> g]
Answer(q) == [tag |-> "Result", gen |-> q.gen, req |-> q.req, doc |-> q.doc, text |-> q.text]
Unavailable(m) == [tag |-> "Result", gen |-> m.gen, req |-> m.req, doc |-> m.doc, text |-> NoText]
Stopped == [tag |-> "Stopped"]

WorkerMessage ==
  [tag : {"Ready", "Stopped"}]
    \cup [tag : {"Superseded", "Commit", "Failure"}, gen : Nat]
    \cup [tag : {"Result"}, gen : Nat, req : Requests, doc : Docs, text : Nat]

-----------------------------------------------------------------------------
\* The state of a worker: the analysis that is running, the last complete
\* analysis (the basis every later one reuses), and the running queries.

AnalysisRecord == [gen : Nat, sources : Snapshot, disk : Nat]
QueryRecord == [gen : Nat, req : Requests, doc : Docs, text : Nat]
RuntimeState == [active : AnalysisRecord, committed : AnalysisRecord, queries : SUBSET QueryRecord]

NoAnalysis == [gen |-> 0, sources |-> NoSources, disk |-> 0]
Fresh == [active |-> NoAnalysis, committed |-> NoAnalysis, queries |-> {}]

Step(s, replies) == [state |-> s, replies |-> replies]

\* The running query of a request, whatever generation it reads, is interrupted.
WithoutQuery(s, r) == [s EXCEPT !.queries = {q \in @ : q.req # r}]

\* Faulty variant of WithoutGeneration: the analysis is not interrupted.
WithoutGenerationQueriesOnly(s, g) == [s EXCEPT !.queries = {q \in @ : q.gen # g}]

\* supersede: interrupts the analysis of generation g if that is the one that
\* runs, and every query of that generation.
WithoutGeneration(s, g) ==
  [s EXCEPT !.active = IF @.gen = g THEN NoAnalysis ELSE @,
            !.queries = {q \in @ : q.gen # g}]

\* The inventory of closed files is read again for a first analysis and for an
\* analysis whose message names dirty paths or asks for rediscovery; otherwise
\* it is the one of the basis.
InventoryOf(s, m, disk) ==
  IF s.committed.gen = 0 \/ m.reread THEN disk ELSE s.committed.disk

Analysing(s, m, disk) ==
  [s EXCEPT !.active = [gen |-> m.gen, sources |-> m.sources, disk |-> InventoryOf(s, m, disk)]]

\* Faulty variant of StartAnalysis: the analysis it displaces is never reported.
StartAnalysisSilently(s, m, disk) == Step(Analysing(s, m, disk), <<>>)

\* startAnalysis: an analysis that still runs is superseded first.
StartAnalysis(s, m, disk) ==
  IF s.active.gen = 0
  THEN Step(Analysing(s, m, disk), <<>>)
  ELSE Step(Analysing(WithoutGeneration(s, s.active.gen), m, disk), <<Superseded(s.active.gen)>>)

\* Faulty variant of StartQuery: it reads whatever generation is committed.
StartQueryAnyGeneration(s, m) ==
  LET text == s.committed.sources[m.doc]
  IN IF text # NoText
     THEN Step([WithoutQuery(s, m.req) EXCEPT !.queries =
                  @ \cup {[gen |-> m.gen, req |-> m.req, doc |-> m.doc, text |-> text]}], <<>>)
     ELSE Step(WithoutQuery(s, m.req), <<Unavailable(m)>>)

\* startQuery: only the generation that is committed can be read; the query
\* keeps the snapshot it found.
StartQuery(s, m) ==
  LET text == s.committed.sources[m.doc]
      cancelled == WithoutQuery(s, m.req)
  IN IF s.committed.gen = m.gen /\ text # NoText
     THEN Step([cancelled EXCEPT !.queries =
                  @ \cup {[gen |-> m.gen, req |-> m.req, doc |-> m.doc, text |-> text]}], <<>>)
     ELSE Step(cancelled, <<Unavailable(m)>>)

\* accept: one message of the inbox.
Accepted(s, m, disk) ==
  CASE m.tag = "Initialize" -> Step(s, <<Ready>>)
    [] m.tag = "Analyze" -> StartAnalysis(s, m, disk)
    [] m.tag = "SupersedeAnalysis" -> Step(WithoutGeneration(s, m.gen), <<Superseded(m.gen)>>)
    [] m.tag = "Query" -> StartQuery(s, m)
    [] m.tag = "CancelQuery" -> Step(WithoutQuery(s, m.req), <<>>)
    [] m.tag = "Shutdown" ->
         Step([s EXCEPT !.active = NoAnalysis, !.queries = {}], <<Stopped>>)

\* Faulty variant of Completed: the commit does not name its generation.
CompletedUnnumbered(s) ==
  Step([s EXCEPT !.active = NoAnalysis, !.committed = s.active], <<[tag |-> "Commit"]>>)

\* The running analysis completes: its result replaces the basis in one step.
Completed(s) ==
  Step([s EXCEPT !.active = NoAnalysis, !.committed = s.active], <<Commit(s.active.gen)>>)

\* Faulty variant of Defected: the failed work becomes the basis.
DefectedKeepingPartialWork(s) ==
  Step([s EXCEPT !.active = NoAnalysis, !.committed = s.active], <<Failure(s.active.gen)>>)

\* The running analysis ends in a defect: the basis stays what it was.
Defected(s) == Step([s EXCEPT !.active = NoAnalysis], <<Failure(s.active.gen)>>)

\* Faulty variant of Answered: the query stays registered.
AnsweredStillRunning(s, q) == Step(s, <<Answer(q)>>)

\* A running query completes on the snapshot it was started with.
Answered(s, q) == Step([s EXCEPT !.queries = @ \ {q}], <<Answer(q)>>)

\* A running query ends in a defect: nothing is posted about it.
QueryDefected(s, q) == Step([s EXCEPT !.queries = @ \ {q}], <<>>)

=============================================================================
