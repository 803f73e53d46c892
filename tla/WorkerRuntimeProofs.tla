------------------------ MODULE WorkerRuntimeProofs ------------------------
(***************************************************************************)
(* Lemmas about the transitions of a worker and about the sequences that   *)
(* carry its messages, for the proofs about every specification that is    *)
(* built from WorkerRuntime.                                               *)
(***************************************************************************)
EXTENDS WorkerRuntime, TLAPS

-----------------------------------------------------------------------------
\* Sequences.

\* What a step that posts no message, or one message, does to the log.
LEMMA PostNothing ==
  ASSUME NEW S, NEW s \in Seq(S)
  PROVE  s \o <<>> = s
  OBVIOUS

LEMMA PostOne ==
  ASSUME NEW S, NEW s \in Seq(S), NEW m
  PROVE  s \o <<m>> = Append(s, m)
  OBVIOUS

\* What is at which place of a log to which a message was appended.
LEMMA AppendFacts ==
  ASSUME NEW S, NEW s \in Seq(S), NEW m
  PROVE  /\ Len(Append(s, m)) = Len(s) + 1
         /\ Append(s, m)[Len(s) + 1] = m
         /\ \A i \in 1..Len(s) : Append(s, m)[i] = s[i]
  OBVIOUS

\* What is at which place of an inbox whose oldest message was taken.
LEMMA TailFacts ==
  ASSUME NEW S, NEW s \in Seq(S), s # <<>>
  PROVE  /\ Head(s) \in S /\ Head(s) = s[1]
         /\ 1 \in 1..Len(s)
         /\ Tail(s) \in Seq(S)
         /\ Len(Tail(s)) = Len(s) - 1
         /\ \A i \in 1..Len(Tail(s)) : i + 1 \in 1..Len(s) /\ Tail(s)[i] = s[i + 1]
  OBVIOUS

-----------------------------------------------------------------------------
\* Types.

LEMMA WithoutGenerationFacts ==
  ASSUME NEW s \in RuntimeState, NEW g
  PROVE  LET w == WithoutGeneration(s, g)
         IN /\ w \in RuntimeState
            /\ w.active = IF s.active.gen = g THEN NoAnalysis ELSE s.active
            /\ w.committed = s.committed
            /\ w.queries = {q \in s.queries : q.gen # g}
<1>1. NoAnalysis \in AnalysisRecord
  BY DEF NoAnalysis, AnalysisRecord, NoSources, NoText, Snapshot
<1> QED BY <1>1 DEF WithoutGeneration, RuntimeState

\* The worker's transitions keep the type of its state and of what it posts.
LEMMA AcceptedType ==
  ASSUME NEW s \in RuntimeState, NEW m \in HostMessage, NEW now \in Nat
  PROVE  /\ Accepted(s, m, now).state \in RuntimeState
         /\ \/ Accepted(s, m, now).replies = <<>>
            \/ \E reply \in WorkerMessage : Accepted(s, m, now).replies = <<reply>>
<1> USE DEF Accepted, Step
<1>1. CASE m.tag = "Initialize"
  BY <1>1 DEF Ready, WorkerMessage
<1>2. CASE m.tag = "Analyze"
  <2>1. m \in [tag : {"Analyze"}, gen : Nat, sources : Snapshot, reread : BOOLEAN]
    BY <1>2 DEF HostMessage
  <2>2. InventoryOf(s, m, now) \in Nat
    BY <2>1 DEF InventoryOf, RuntimeState, AnalysisRecord
  <2>3. ASSUME NEW t \in RuntimeState
        PROVE  Analysing(t, m, now) \in RuntimeState
    <3>1. InventoryOf(t, m, now) \in Nat
      BY <2>1 DEF InventoryOf, RuntimeState, AnalysisRecord
    <3> QED BY <2>1, <3>1 DEF Analysing, RuntimeState, AnalysisRecord
  <2>4. WithoutGeneration(s, s.active.gen) \in RuntimeState
    BY WithoutGenerationFacts
  <2>5. Superseded(s.active.gen) \in WorkerMessage
    BY DEF Superseded, WorkerMessage, RuntimeState, AnalysisRecord
  <2> QED BY <1>2, <2>3, <2>4, <2>5 DEF StartAnalysis
<1>3. CASE m.tag = "SupersedeAnalysis"
  <2>1. m.gen \in Nat
    BY <1>3 DEF HostMessage
  <2>2. WithoutGeneration(s, m.gen) \in RuntimeState
    BY WithoutGenerationFacts
  <2> QED BY <1>3, <2>1, <2>2 DEF Superseded, WorkerMessage
<1>4. CASE m.tag = "Query"
  <2>1. m \in [tag : {"Query"}, gen : Nat, req : Requests, doc : Docs]
    BY <1>4 DEF HostMessage
  <2>2. WithoutQuery(s, m.req) \in RuntimeState
    BY DEF WithoutQuery, RuntimeState
  <2>3. s.committed.sources[m.doc] \in Nat
    BY <2>1 DEF RuntimeState, AnalysisRecord, Snapshot
  <2>4. Unavailable(m) \in WorkerMessage
    BY <2>1 DEF Unavailable, WorkerMessage, NoText
  <2>5. [gen |-> m.gen, req |-> m.req, doc |-> m.doc, text |-> s.committed.sources[m.doc]]
          \in QueryRecord
    BY <2>1, <2>3 DEF QueryRecord
  <2> QED BY <1>4, <2>2, <2>4, <2>5 DEF StartQuery, RuntimeState
<1>5. CASE m.tag = "CancelQuery"
  BY <1>5 DEF WithoutQuery, RuntimeState
<1>6. CASE m.tag = "Shutdown"
  BY <1>6 DEF Stopped, WorkerMessage, RuntimeState, AnalysisRecord, NoAnalysis, NoSources,
               NoText, Snapshot
<1> QED BY <1>1, <1>2, <1>3, <1>4, <1>5, <1>6 DEF HostMessage

\* The ends of an analysis and of a query keep the type of the state and post
\* one message at most.
LEMMA EndedType ==
  ASSUME NEW s \in RuntimeState
  PROVE  /\ Completed(s).state \in RuntimeState /\ Defected(s).state \in RuntimeState
         /\ \E reply \in WorkerMessage : Completed(s).replies = <<reply>>
         /\ \E reply \in WorkerMessage : Defected(s).replies = <<reply>>
<1>1. NoAnalysis \in AnalysisRecord
  BY DEF NoAnalysis, AnalysisRecord, NoSources, NoText, Snapshot
<1>2. Commit(s.active.gen) \in WorkerMessage /\ Failure(s.active.gen) \in WorkerMessage
  BY DEF Commit, Failure, WorkerMessage, RuntimeState, AnalysisRecord
<1>3. Completed(s).state \in RuntimeState /\ Defected(s).state \in RuntimeState
  BY <1>1 DEF Completed, Defected, Step, RuntimeState
<1>4. /\ Completed(s).replies = <<Commit(s.active.gen)>>
      /\ Defected(s).replies = <<Failure(s.active.gen)>>
  BY DEF Completed, Defected, Step
<1> QED BY <1>2, <1>3, <1>4

LEMMA AnsweredType ==
  ASSUME NEW s \in RuntimeState, NEW q \in s.queries
  PROVE  /\ Answered(s, q).state \in RuntimeState /\ QueryDefected(s, q).state \in RuntimeState
         /\ \E reply \in WorkerMessage : Answered(s, q).replies = <<reply>>
         /\ QueryDefected(s, q).replies = <<>>
<1>1. q \in QueryRecord
  BY DEF RuntimeState
<1>2. Answer(q) \in WorkerMessage
  BY <1>1 DEF Answer, WorkerMessage, QueryRecord
<1>3. Answered(s, q).replies = <<Answer(q)>> /\ QueryDefected(s, q).replies = <<>>
  BY DEF Answered, QueryDefected, Step
<1>4. Answered(s, q).state \in RuntimeState /\ QueryDefected(s, q).state \in RuntimeState
  BY DEF Answered, QueryDefected, Step, RuntimeState
<1> QED BY <1>2, <1>3, <1>4

=============================================================================
