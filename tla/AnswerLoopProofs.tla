--------------------------- MODULE AnswerLoopProofs ---------------------------
(***************************************************************************)
(* Theorems about AnswerLoop, for every query, planner, judge and set of   *)
(* candidates, and whichever database call or node fails, proved with      *)
(* TLAPS.                                                                  *)
(***************************************************************************)
EXTENDS AnswerLoop, FiniteSetTheorems, WellFoundedInduction, TLAPS

Before == {"resolve_generator", "resolve_judge", "start"}
Ending == {"flush", "end", "returned"}
Failing == {"flush_error", "end_error"}
Spans ==
  [node : Nodes, iteration : Nat, refined : Rewrites \cup {Query, None},
   status : {"ok", "error"}]

TypeOK ==
  /\ pc \in Before \cup Nodes \cup Ending \cup Failing \cup {"raised"}
  /\ request \in [Components -> Candidates \cup {None}]
  /\ winner \in [Components -> Candidates \cup {None}]
  /\ chosen \in [Components -> Candidates \cup {None}]
  /\ subQueries \in SubQueries \cup {<<>>, <<Query>>}
  /\ iteration \in 0 .. Cap /\ refined \in Rewrites \cup {Query, None}
  /\ confidence \in Int /\ reason \in {"none", "unavailable", "parse_failed", "scored"}
  /\ parsed \in {"none", "failed", "abstains", "empty", "answers"}
  /\ final \in [answered : BOOLEAN, iterations : Nat]
  /\ spans \in Seq(Spans) /\ stored \in Seq(Spans)
  /\ trace \in [status : {"absent", "running", "completed", "error"},
                iterations : Nat, answered : BOOLEAN]

LastSpan == spans[Len(spans)]

\* The question the judge asked last is in the state exactly while it is being
\* searched, and in the snapshot of the span that searched it.
Asking ==
  /\ pc \in Before \cup {"plan"} => iteration = 0 /\ refined = None
  /\ pc \in {"retrieve", "rerank", "verify"} => (iteration = 0 <=> refined = None)
  /\ pc = "rerank" => retrieved = Searches /\ LastSpan.refined = refined

Retrievals == Cardinality(Executions(spans, "retrieve"))
AllOk == \A i \in DOMAIN spans : spans[i].status = "ok"

\* How the spans so far lead to where the call is.
Story ==
  /\ pc \in Before \cup {"plan"} => spans = <<>>
  /\ pc \in Nodes \ {"plan"} =>
       /\ spans # <<>> /\ AllOk
       /\ <<LastSpan.node, pc>> \in Edges
       /\ iteration = LastSpan.iteration
                      + IF pc = "retrieve" /\ LastSpan.node = "verify" THEN 1 ELSE 0
       /\ Retrievals = iteration + IF pc = "retrieve" THEN 0 ELSE 1
  /\ pc \in Ending =>
       /\ spans # <<>> /\ AllOk /\ LastSpan.node = "cite" /\ LastSpan.iteration = iteration
       /\ Retrievals = iteration + 1 /\ final.iterations = iteration
  /\ pc \in Failing => spans # <<>> /\ LastSpan.status = "error"

\* What the tables hold at each call.
Tables ==
  /\ pc \in Before => trace.status = "absent"
  /\ pc \in Nodes \cup {"flush", "end"} \cup Failing => trace.status = "running"
  /\ pc \in {"end", "end_error"} => stored = spans

IInv ==
  /\ TypeOK /\ Asking /\ Story /\ Tables
  /\ SpansTellThePath /\ EvidenceIsCurrent /\ TraceMatchesSpans

-----------------------------------------------------------------------------
\* The span buffer.

\* A span is added at the end.
LEMMA AppendIs ==
  ASSUME NEW S, NEW s \in Seq(S), NEW x \in S
  PROVE  /\ Append(s, x) \in Seq(S) /\ Len(s) \in Nat /\ DOMAIN s = 1 .. Len(s)
         /\ Len(Append(s, x)) = Len(s) + 1 /\ DOMAIN Append(s, x) = 1 .. Len(s) + 1
         /\ Append(s, x)[Len(s) + 1] = x
         /\ \A i \in 1 .. Len(s) : Append(s, x)[i] = s[i]
         /\ Append(s, x) # <<>> /\ (Len(s) = 0 <=> s = <<>>)
<1>1. /\ Append(s, x) \in Seq(S) /\ Len(s) \in Nat /\ DOMAIN s = 1 .. Len(s)
      /\ Len(Append(s, x)) = Len(s) + 1 /\ DOMAIN Append(s, x) = 1 .. Len(s) + 1
      /\ Append(s, x)[Len(s) + 1] = x
      /\ \A i \in 1 .. Len(s) : Append(s, x)[i] = s[i]
  OBVIOUS
<1>2. Append(s, x) # <<>> /\ (Len(s) = 0 <=> s = <<>>)
  BY <1>1
<1> QED
  BY <1>1, <1>2

\* It adds one execution of its node.
LEMMA ExecutionsGrow ==
  ASSUME NEW s \in Seq(Spans), NEW x \in Spans, NEW node
  PROVE  /\ Cardinality(Executions(s, node)) \in Nat
         /\ Cardinality(Executions(Append(s, x), node)) =
              Cardinality(Executions(s, node)) + IF x.node = node THEN 1 ELSE 0
<1> DEFINE E == Executions(s, node)
           n == Len(s) + 1
<1>1. /\ Len(s) \in Nat /\ DOMAIN s = 1 .. Len(s) /\ DOMAIN Append(s, x) = 1 .. n
      /\ Append(s, x)[n] = x /\ \A i \in 1 .. Len(s) : Append(s, x)[i] = s[i]
  BY AppendIs
<1>2. E \in SUBSET (1 .. Len(s)) /\ IsFiniteSet(1 .. Len(s))
  BY <1>1, FS_Interval DEF Executions
<1>3. IsFiniteSet(E)
  BY <1>2, FS_Subset
<1>4. Cardinality(E) \in Nat
  BY <1>3, FS_CardinalityType
<1>5. n \notin E /\ n \notin 1 .. Len(s)
  BY <1>1, <1>2
<1>6. CASE x.node = node
  <2>1. Executions(Append(s, x), node) = E \cup {n}
    BY <1>1, <1>6 DEF Executions
  <2>2. Cardinality(E \cup {n}) = Cardinality(E) + 1
    <3> HIDE DEF E, n
    <3> QED
      BY <1>3, <1>5, FS_AddElement
  <2> QED
    BY <1>4, <1>6, <2>1, <2>2
<1>7. CASE x.node # node
  <2>1. Executions(Append(s, x), node) = E
    BY <1>1, <1>7 DEF Executions
  <2> QED
    BY <1>4, <1>7, <2>1
<1> QED
  BY <1>6, <1>7

\* A node that runs, or raises, continues the path.
LEMMA SpanAdded ==
  ASSUME IInv, pc \in Nodes, NEW st \in {"ok", "error"}, spans' = Span(pc, st)
  PROVE  /\ spans' \in Seq(Spans) /\ spans' # <<>> /\ SpansTellThePath'
         /\ LastSpan' = [node |-> pc, iteration |-> iteration, refined |-> refined,
                      status |-> st]
         /\ st = "ok" => AllOk'
         /\ Retrievals' = IF pc = "plan" THEN 0 ELSE iteration + 1
<1> DEFINE x == [node |-> pc, iteration |-> iteration, refined |-> refined,
                      status |-> st]
           n == Len(spans) + 1
<1>1. x \in Spans /\ spans \in Seq(Spans) /\ spans' = Append(spans, x)
  BY DEF IInv, TypeOK, Spans, Span, Cap
<1>2. /\ spans' \in Seq(Spans) /\ Len(spans) \in Nat /\ DOMAIN spans = 1 .. Len(spans)
      /\ Len(spans') = n /\ DOMAIN spans' = 1 .. n /\ spans'[n] = x
      /\ \A i \in 1 .. Len(spans) : spans'[i] = spans[i]
      /\ spans' # <<>> /\ (Len(spans) = 0 <=> spans = <<>>)
  BY <1>1, AppendIs
<1>3. LastSpan' = x
  BY <1>2 DEF LastSpan
<1>4. iteration \in Nat
  BY DEF IInv, TypeOK, Cap
<1>5. pc = "plan" => Len(spans) = 0 /\ iteration = 0
  BY <1>2 DEF IInv, Story, Asking
<1>6. pc # "plan" =>
        /\ Len(spans) > 0 /\ AllOk
        /\ <<spans[Len(spans)].node, pc>> \in Edges
        /\ iteration = spans[Len(spans)].iteration
             + IF pc = "retrieve" /\ spans[Len(spans)].node = "verify" THEN 1 ELSE 0
        /\ Retrievals = iteration + IF pc = "retrieve" THEN 0 ELSE 1
  BY <1>2 DEF IInv, Story, LastSpan
<1>7. AllOk /\ (st = "ok" => AllOk')
  <2>1. AllOk
    BY <1>2, <1>5, <1>6 DEF AllOk
  <2>2. ASSUME st = "ok", NEW i \in DOMAIN spans'  PROVE spans'[i].status = "ok"
    <3>1. i \in 1 .. Len(spans) \/ i = n
      BY <1>2
    <3> QED
      BY <1>2, <2>1, <2>2, <3>1 DEF AllOk
  <2> QED
    BY <2>1, <2>2 DEF AllOk
<1>8. SpansTellThePath'
  <2>1. spans'[1].node = "plan" /\ spans'[1].iteration = 0
    <3>1. CASE pc = "plan"
      BY <1>2, <1>5, <3>1
    <3>2. CASE pc # "plan"
      <4>1. 1 \in 1 .. Len(spans) /\ spans # <<>>
        BY <1>2, <1>6, <3>2
      <4>2. spans'[1] = spans[1]
        BY <1>2, <4>1
      <4> QED
        BY <4>1, <4>2 DEF IInv, SpansTellThePath
    <3> QED
      BY <3>1, <3>2
  <2>2. ASSUME NEW i \in 1 .. Len(spans') - 1
        PROVE  /\ spans'[i].status = "ok"
               /\ <<spans'[i].node, spans'[i + 1].node>> \in Edges
               /\ spans'[i + 1].iteration = spans'[i].iteration +
                    IF spans'[i + 1].node = "retrieve" /\ spans'[i].node = "verify"
                    THEN 1 ELSE 0
    <3>1. i \in 1 .. Len(spans) /\ spans'[i] = spans[i] /\ i \in DOMAIN spans
      BY <1>2
    <3>2. spans[i].status = "ok"
      BY <1>7, <3>1 DEF AllOk
    <3>3. CASE i = Len(spans)
      <4>1. spans'[i + 1] = x /\ pc # "plan"
        BY <1>2, <1>5, <3>1, <3>3
      <4>2. x.node = pc /\ x.iteration = iteration
        OBVIOUS
      <4> HIDE DEF x
      <4> QED
        BY <1>6, <3>1, <3>2, <3>3, <4>1, <4>2
    <3>4. CASE i # Len(spans)
      <4>1. i \in 1 .. Len(spans) - 1 /\ i + 1 \in 1 .. Len(spans)
        BY <1>2, <3>1, <3>4
      <4>2. spans'[i + 1] = spans[i + 1]
        BY <1>2, <4>1
      <4>3. /\ <<spans[i].node, spans[i + 1].node>> \in Edges
            /\ spans[i + 1].iteration = spans[i].iteration +
                 IF spans[i + 1].node = "retrieve" /\ spans[i].node = "verify" THEN 1 ELSE 0
        BY <4>1 DEF IInv, SpansTellThePath
      <4> QED
        BY <3>1, <3>2, <4>2, <4>3
    <3> QED
      BY <3>3, <3>4
  <2> QED
    BY <2>1, <2>2 DEF SpansTellThePath
<1>9. Retrievals' = IF pc = "plan" THEN 0 ELSE iteration + 1
  <2>1. Retrievals' = Retrievals + IF pc = "retrieve" THEN 1 ELSE 0
    BY <1>1, ExecutionsGrow DEF Retrievals
  <2>2. CASE pc = "plan"
    <3>1. Executions(spans, "retrieve") = {}
      BY <1>2, <1>5, <2>2 DEF Executions
    <3>2. Retrievals = 0
      BY <3>1, FS_EmptySet DEF Retrievals
    <3> QED
      BY <2>1, <2>2, <3>2
  <2>3. CASE pc # "plan"
    BY <1>4, <1>6, <2>1, <2>3
  <2> QED
    BY <2>2, <2>3
<1> QED
  BY <1>2, <1>3, <1>7, <1>8, <1>9

\* The evidence stays that of its retrieve span while later nodes run.
LEMMA EvidenceStays ==
  ASSUME IInv, pc \in {"verify", "generate", "cite"}, spans' = Span(pc, "ok"),
         UNCHANGED <<iteration, reranked, subQueries>>
  PROVE  EvidenceIsCurrent'
<1> DEFINE x == [node |-> pc, iteration |-> iteration, refined |-> refined, status |-> "ok"]
<1>1. PICK i \in DOMAIN spans : EvidenceOf(i)
  BY DEF IInv, EvidenceIsCurrent
<1>2. x \in Spans /\ spans \in Seq(Spans) /\ spans' = Append(spans, x)
  BY DEF IInv, TypeOK, Spans, Span, Cap, Nodes
<1>3. i \in DOMAIN spans' /\ spans'[i] = spans[i]
  BY <1>2, AppendIs
<1>4. Planned' = Planned
  BY DEF Planned
<1>5. EvidenceOf(i)'
  BY <1>1, <1>3, <1>4 DEF EvidenceOf
<1> QED
  BY <1>3, <1>5 DEF EvidenceIsCurrent

-----------------------------------------------------------------------------
\* Resolution, and the row of the trace.

\* No candidate is chosen and no winner locked once the trace has begun.
LEMMA ResolutionKeeps ==
  ASSUME IInv,
         \/ Resolve("generator", "resolve_generator", "resolve_judge")
         \/ Resolve("judge", "resolve_judge", "start")
         \/ \E c \in Components, candidate \in Candidates : Lock(c, candidate)
  PROVE  IInv'
<1>1. /\ pc \in Before /\ pc' \in Before \cup {"raised"}
      /\ UNCHANGED <<agent, spans, tables>> /\ UNCHANGED request
  BY DEF Resolve, Lock, Before, resolution
<1>2. UNCHANGED <<subQueries, retrieved, reranked, iteration, refined, confidence, reason,
                  parsed, final, trace, stored>>
  BY <1>1 DEF agent, evidence, verdict, tables
<1>3. chosen' \in [Components -> Candidates \cup {None}]
      /\ winner' \in [Components -> Candidates \cup {None}]
  BY DEF IInv, TypeOK, Resolve, Lock, Resolved, Components, resolution
<1>4. TypeOK'
  BY <1>1, <1>2, <1>3 DEF IInv, TypeOK
<1>5. spans = <<>> /\ trace.status = "absent" /\ iteration = 0 /\ refined = None
  BY <1>1 DEF IInv, Story, Tables, Asking
<1>6. Asking' /\ Story' /\ Tables' /\ EvidenceIsCurrent'
  BY <1>1, <1>2, <1>5
     DEF Asking, Story, Tables, EvidenceIsCurrent, Before, Nodes, Ending, Failing
<1>7. SpansTellThePath'
  BY <1>1 DEF IInv, SpansTellThePath
<1>8. TraceMatchesSpans'
  BY <1>1, <1>2, <1>5 DEF TraceMatchesSpans, Before
<1> QED
  BY <1>4, <1>6, <1>7, <1>8 DEF IInv

\* start_trace, or the refusal of a generator judged by its own family, keeps the
\* invariant: the row is opened before the first node.
LEMMA StartTraceKeeps ==
  ASSUME IInv, StartTrace  PROVE IInv'
<1>1. /\ pc = "start" /\ UNCHANGED <<resolution, winner, agent, spans, stored>>
      /\ \/ ~SameFamily /\ trace' = [trace EXCEPT !.status = "running"] /\ pc' = "plan"
         \/ pc' = "raised" /\ UNCHANGED trace
         \/ ~SameFamily /\ pc' = "raised" /\ trace' = [trace EXCEPT !.status = "running"]
  BY DEF StartTrace
<1>2. UNCHANGED <<subQueries, retrieved, reranked, iteration, refined, confidence, reason,
                  parsed, final, request, chosen>>
  BY <1>1 DEF agent, evidence, verdict, resolution
<1>3. TypeOK'
  BY <1>1, <1>2 DEF IInv, TypeOK, Nodes
<1>4. spans = <<>> /\ trace.status = "absent" /\ iteration = 0 /\ refined = None
  BY <1>1 DEF IInv, Story, Tables, Asking, Before
<1>5. /\ trace'.status \in {"absent", "running"}
      /\ trace'.status = "running" => ~SameFamily
      /\ pc' = "plan" => trace'.status = "running"
  BY <1>1, <1>4 DEF IInv, TypeOK
<1>6. Asking' /\ Story' /\ Tables' /\ EvidenceIsCurrent'
  BY <1>1, <1>2, <1>4, <1>5
     DEF Asking, Story, Tables, EvidenceIsCurrent, Before, Nodes, Ending, Failing
<1>7. SpansTellThePath'
  BY <1>1 DEF IInv, SpansTellThePath
<1>8. TraceMatchesSpans'
  BY <1>1, <1>2, <1>5 DEF TraceMatchesSpans, SameFamily
<1> QED
  BY <1>3, <1>6, <1>7, <1>8 DEF IInv

-----------------------------------------------------------------------------
\* The nodes.

\* What a node leaves alone, whichever it is.
LEMMA NodeKeeps ==
  ASSUME IInv, NEW node \in Nodes, NEW to \in (Nodes \ {"plan"}) \cup {"flush"}, Runs(node, to)
  PROVE  /\ pc = node /\ pc' = to /\ trace' = trace /\ chosen' = chosen /\ stored' = stored
         /\ request' = request /\ winner' = winner
         /\ spans' \in Seq(Spans) /\ spans' # <<>> /\ SpansTellThePath' /\ AllOk'
         /\ LastSpan' = [node |-> node, iteration |-> iteration, refined |-> refined,
                      status |-> "ok"]
         /\ Retrievals' = IF node = "plan" THEN 0 ELSE iteration + 1
         /\ Tables' /\ TraceMatchesSpans'
<1>1. /\ pc = node /\ pc' = to /\ spans' = Span(pc, "ok")
      /\ UNCHANGED <<request, chosen, winner, trace, stored>>
  BY DEF Runs, resolution, tables
<1>2. /\ spans' \in Seq(Spans) /\ spans' # <<>> /\ SpansTellThePath' /\ AllOk'
      /\ LastSpan' = [node |-> node, iteration |-> iteration, refined |-> refined,
                      status |-> "ok"]
      /\ Retrievals' = IF node = "plan" THEN 0 ELSE iteration + 1
  BY <1>1, SpanAdded
<1>3. trace.status = "running"
  BY <1>1 DEF IInv, Tables
<1>4. Tables'
  BY <1>1, <1>3 DEF Tables, Before, Nodes, Failing
<1>5. TraceMatchesSpans'
  BY <1>1, <1>3 DEF IInv, TraceMatchesSpans, Nodes
<1> QED
  BY <1>1, <1>2, <1>4, <1>5

\* plan keeps the invariant: it runs first, so its span is the only one.
LEMMA PlanKeeps ==
  ASSUME IInv, Plan  PROVE IInv'
<1>1. /\ Runs("plan", "retrieve") /\ subQueries' \in SubQueries \cup {<<Query>>}
      /\ UNCHANGED <<retrieved, reranked, iteration, refined, confidence, reason, parsed, final>>
  BY DEF Plan, verdict
<1>2. /\ pc = "plan" /\ pc' = "retrieve" /\ trace' = trace /\ chosen' = chosen
      /\ stored' = stored /\ request' = request /\ winner' = winner
      /\ spans' \in Seq(Spans) /\ spans' # <<>> /\ SpansTellThePath' /\ AllOk'
      /\ LastSpan' = [node |-> "plan", iteration |-> iteration, refined |-> refined,
                      status |-> "ok"]
      /\ Retrievals' = 0 /\ Tables' /\ TraceMatchesSpans'
  BY <1>1, NodeKeeps DEF Nodes
<1>3. TypeOK'
  BY <1>1, <1>2 DEF IInv, TypeOK, Nodes
<1>4. iteration = 0 /\ refined = None
  BY <1>2 DEF IInv, Asking
<1>5. Asking' /\ EvidenceIsCurrent'
  BY <1>1, <1>2, <1>4 DEF Asking, EvidenceIsCurrent, Before
<1>6. Story'
  BY <1>1, <1>2, <1>4 DEF Story, Before, Nodes, Ending, Failing, Edges
<1> QED
  BY <1>2, <1>3, <1>5, <1>6 DEF IInv

\* retrieve keeps the invariant: the searches are those of the question in the state.
LEMMA RetrieveKeeps ==
  ASSUME IInv, Retrieve  PROVE IInv'
<1>1. /\ Runs("retrieve", "rerank") /\ retrieved' = Searches
      /\ UNCHANGED <<subQueries, reranked, iteration, refined, confidence, reason, parsed, final>>
  BY DEF Retrieve, verdict
<1>2. /\ pc = "retrieve" /\ pc' = "rerank" /\ trace' = trace /\ chosen' = chosen
      /\ stored' = stored /\ request' = request /\ winner' = winner
      /\ spans' \in Seq(Spans) /\ spans' # <<>> /\ SpansTellThePath' /\ AllOk'
      /\ LastSpan' = [node |-> "retrieve", iteration |-> iteration, refined |-> refined,
                      status |-> "ok"]
      /\ Retrievals' = iteration + 1 /\ Tables' /\ TraceMatchesSpans'
  BY <1>1, NodeKeeps DEF Nodes
<1>3. TypeOK'
  BY <1>1, <1>2 DEF IInv, TypeOK, Nodes
<1>4. Asking' /\ EvidenceIsCurrent'
  BY <1>1, <1>2 DEF IInv, Asking, EvidenceIsCurrent, Before, Searches, Source
<1>5. Story'
  BY <1>1, <1>2 DEF IInv, TypeOK, Story, Before, Nodes, Ending, Failing, Edges, Cap
<1> QED
  BY <1>2, <1>3, <1>4, <1>5 DEF IInv

\* rerank keeps the invariant: what it ranks is what was just retrieved.
LEMMA RerankKeeps ==
  ASSUME IInv, Rerank  PROVE IInv'
<1>1. /\ Runs("rerank", "verify") /\ reranked' = [by |-> Source, over |-> retrieved]
      /\ UNCHANGED <<subQueries, retrieved, iteration, refined, confidence, reason, parsed, final>>
  BY DEF Rerank, verdict
<1>2. /\ pc = "rerank" /\ pc' = "verify" /\ trace' = trace /\ chosen' = chosen
      /\ stored' = stored /\ request' = request /\ winner' = winner
      /\ spans' \in Seq(Spans) /\ spans' # <<>> /\ SpansTellThePath' /\ AllOk'
      /\ LastSpan' = [node |-> "rerank", iteration |-> iteration, refined |-> refined,
                      status |-> "ok"]
      /\ Retrievals' = iteration + 1 /\ Tables' /\ TraceMatchesSpans'
  BY <1>1, NodeKeeps DEF Nodes
<1>3. TypeOK'
  BY <1>1, <1>2 DEF IInv, TypeOK, Nodes
<1>4. Asking'
  BY <1>1, <1>2 DEF IInv, Asking, Before
<1>5. EvidenceIsCurrent'
  <2> PICK n : n = Len(spans)
    OBVIOUS
  <2>1. /\ iteration = 0 <=> refined = None
        /\ retrieved = Searches /\ spans[n].refined = refined
    BY <1>2 DEF IInv, Asking, LastSpan
  <2>2. spans[n].node = "retrieve" /\ spans[n].iteration = iteration
    <3>1. /\ spans # <<>> /\ <<spans[n].node, "rerank">> \in Edges
          /\ iteration = spans[n].iteration + 0
      BY <1>2 DEF IInv, Story, Nodes, LastSpan
    <3>2. spans[n].node = "retrieve"
      BY <3>1 DEF Edges
    <3>3. spans \in Seq(Spans) /\ n \in 1 .. Len(spans)
      BY <3>1 DEF IInv, TypeOK
    <3>4. spans[n].iteration \in Nat
      <4>1. spans[n] \in Spans
        BY <3>3
      <4> QED
        BY <4>1 DEF Spans
    <3> QED
      BY <3>1, <3>2, <3>4
  <2>3. n \in DOMAIN spans' /\ spans'[n] = spans[n]
    <3> DEFINE x == [node |-> pc, iteration |-> iteration, refined |-> refined, status |-> "ok"]
    <3>1. x \in Spans /\ spans \in Seq(Spans) /\ spans' = Append(spans, x) /\ spans # <<>>
      BY <1>1, <1>2 DEF IInv, TypeOK, Story, Spans, Span, Cap, Nodes, Runs
    <3> QED
      BY <3>1, AppendIs
  <2>4. reranked' = IF refined = None THEN [by |-> Query, over |-> Planned]
                    ELSE [by |-> refined, over |-> <<refined>>]
    BY <1>1, <2>1 DEF Searches, Source, Planned
  <2>5. Planned' = Planned
    BY <1>1 DEF Planned
  <2>6. EvidenceOf(n)'
    BY <1>1, <2>1, <2>2, <2>3, <2>4, <2>5 DEF EvidenceOf
  <2> QED
    BY <2>3, <2>6 DEF EvidenceIsCurrent
<1>6. Story'
  BY <1>1, <1>2 DEF IInv, TypeOK, Story, Before, Nodes, Ending, Failing, Edges, Cap
<1> QED
  BY <1>2, <1>3, <1>4, <1>5, <1>6 DEF IInv

\* The judge's refinement is taken up exactly if its loop is counted.
LEMMA VerifyKeeps ==
  ASSUME IInv, Verify  PROVE IInv'
<1>1. PICK j \in Judgements :
        /\ Judged(j) /\ Runs("verify", Route(j.confidence, refined'))
        /\ UNCHANGED <<subQueries, retrieved, reranked, parsed, final>>
  BY DEF Verify, evidence
<1>2. /\ j.kind \in {"unavailable", "parse_failed", "scored"} /\ j.confidence \in Int
      /\ j.rewrite \in Rewrites \cup {None}
  <2>1. CASE j = Unavailable \/ j = ParseFailed
    BY <2>1 DEF Unavailable, ParseFailed, Neutral
  <2>2. CASE j \in Scored
    BY <2>2, ConfidenceAssumption DEF Scored
  <2> QED
    BY <2>1, <2>2 DEF Judgements
<1>3. /\ confidence' = j.confidence /\ reason' = j.kind
      /\ IF MayLoop(j)
         THEN /\ refined' = (IF j.rewrite # None THEN j.rewrite ELSE Query)
              /\ iteration' = iteration + 1
         ELSE refined' = None /\ iteration' = iteration
  BY <1>1 DEF Judged
<1>4. Route(j.confidence, refined') \in {"retrieve", "generate"}
  BY DEF Route
<1>5. /\ pc = "verify" /\ pc' = Route(j.confidence, refined') /\ trace' = trace
      /\ chosen' = chosen
      /\ stored' = stored /\ request' = request /\ winner' = winner
      /\ spans' \in Seq(Spans) /\ spans' # <<>> /\ SpansTellThePath' /\ AllOk'
      /\ LastSpan' = [node |-> "verify", iteration |-> iteration, refined |-> refined,
                      status |-> "ok"]
      /\ Retrievals' = iteration + 1 /\ Tables' /\ TraceMatchesSpans'
  <2>1. Route(j.confidence, refined') \in (Nodes \ {"plan"}) \cup {"flush"}
    BY <1>4 DEF Nodes
  <2>2. "verify" \in Nodes
    BY DEF Nodes
  <2> DEFINE to == Route(j.confidence, refined')
  <2> HIDE DEF to
  <2>3. Runs("verify", to) /\ to \in (Nodes \ {"plan"}) \cup {"flush"}
    BY <1>1, <2>1 DEF to
  <2> QED
    BY <2>2, <2>3, NodeKeeps DEF to
<1>6. iteration \in 0 .. Cap /\ Cap = 2
  BY DEF IInv, TypeOK, Cap
<1>7. CASE MayLoop(j)
  <2>1. /\ j.confidence < Threshold /\ iteration < Cap /\ iteration' = iteration + 1
        /\ refined' = IF j.rewrite # None THEN j.rewrite ELSE Query
    BY <1>3, <1>7 DEF MayLoop
  <2>2. refined' # None /\ refined' \in Rewrites \cup {Query}
    BY <1>2, <2>1, QueryAssumption
  <2>3. pc' = "retrieve"
    BY <1>5, <2>1, <2>2 DEF Route
  <2>4. iteration' \in 0 .. Cap
    BY <1>6, <2>1
  <2>5. TypeOK'
    BY <1>1, <1>2, <1>3, <1>5, <2>2, <2>3, <2>4 DEF IInv, TypeOK, Nodes
  <2>6. Asking' /\ EvidenceIsCurrent'
    BY <1>6, <2>1, <2>2, <2>3 DEF Asking, EvidenceIsCurrent, Before
  <2>7. Story'
    BY <1>5, <1>6, <2>1, <2>3 DEF Story, Before, Nodes, Ending, Failing, Edges
  <2> QED
    BY <1>5, <2>5, <2>6, <2>7 DEF IInv
<1>8. CASE ~MayLoop(j)
  <2>1. refined' = None /\ iteration' = iteration /\ pc' = "generate"
    BY <1>3, <1>5, <1>8 DEF Route
  <2>2. TypeOK'
    BY <1>1, <1>2, <1>3, <1>5, <2>1 DEF IInv, TypeOK, Nodes
  <2>3. Asking'
    BY <2>1 DEF Asking, Before
  <2>4. EvidenceIsCurrent'
    <3>1. spans' = Span(pc, "ok")
      BY <1>1, <1>5 DEF Runs
    <3> QED
      BY <1>1, <1>5, <2>1, <3>1, EvidenceStays
  <2>5. Story'
    BY <1>5, <1>6, <2>1 DEF Story, Before, Nodes, Ending, Failing, Edges
  <2> QED
    BY <1>5, <2>2, <2>3, <2>4, <2>5 DEF IInv
<1> QED
  BY <1>7, <1>8

\* generate keeps the invariant: it reads the ranking and changes none of it.
LEMMA GenerateKeeps ==
  ASSUME IInv, Generate  PROVE IInv'
<1>1. /\ Runs("generate", "cite") /\ parsed' \in {"failed", "abstains", "empty", "answers"}
      /\ UNCHANGED <<subQueries, retrieved, reranked, iteration, refined, confidence, reason, final>>
  BY DEF Generate, verdict, evidence
<1>2. /\ pc = "generate" /\ pc' = "cite" /\ trace' = trace /\ chosen' = chosen
      /\ stored' = stored /\ request' = request /\ winner' = winner
      /\ spans' \in Seq(Spans) /\ spans' # <<>> /\ SpansTellThePath' /\ AllOk'
      /\ LastSpan' = [node |-> "generate", iteration |-> iteration, refined |-> refined,
                      status |-> "ok"]
      /\ Retrievals' = iteration + 1 /\ Tables' /\ TraceMatchesSpans'
  BY <1>1, NodeKeeps DEF Nodes
<1>3. TypeOK'
  BY <1>1, <1>2 DEF IInv, TypeOK, Nodes
<1>4. Asking' /\ EvidenceIsCurrent'
  <2>1. spans' = Span(pc, "ok")
    BY <1>1, <1>2 DEF Runs
  <2>2. EvidenceIsCurrent'
    BY <1>1, <1>2, <2>1, EvidenceStays
  <2> QED
    BY <1>1, <1>2, <2>2 DEF IInv, Asking, Before
<1>5. Story'
  BY <1>1, <1>2 DEF IInv, TypeOK, Story, Before, Nodes, Ending, Failing, Edges, Cap
<1> QED
  BY <1>2, <1>3, <1>4, <1>5 DEF IInv

\* cite keeps the invariant: the result counts the loops that were taken.
LEMMA CiteKeeps ==
  ASSUME IInv, Cite  PROVE IInv'
<1>1. /\ Runs("cite", "flush")
      /\ final' = [answered |-> parsed = "answers", iterations |-> iteration]
      /\ UNCHANGED <<subQueries, retrieved, reranked, iteration, refined, confidence, reason, parsed>>
  BY DEF Cite, verdict, evidence
<1>2. /\ pc = "cite" /\ pc' = "flush" /\ trace' = trace /\ chosen' = chosen
      /\ stored' = stored /\ request' = request /\ winner' = winner
      /\ spans' \in Seq(Spans) /\ spans' # <<>> /\ SpansTellThePath' /\ AllOk'
      /\ LastSpan' = [node |-> "cite", iteration |-> iteration, refined |-> refined,
                      status |-> "ok"]
      /\ Retrievals' = iteration + 1 /\ Tables' /\ TraceMatchesSpans'
  BY <1>1, NodeKeeps DEF Nodes
<1>3. final' \in [answered : BOOLEAN, iterations : Nat] /\ final'.iterations = iteration
  BY <1>1 DEF IInv, TypeOK, Cap
<1>4. TypeOK'
  BY <1>1, <1>2, <1>3 DEF IInv, TypeOK, Ending
<1>5. Asking' /\ EvidenceIsCurrent'
  <2>1. spans' = Span(pc, "ok")
    BY <1>1, <1>2 DEF Runs
  <2>2. EvidenceIsCurrent'
    BY <1>1, <1>2, <2>1, EvidenceStays
  <2> QED
    BY <1>1, <1>2, <2>2 DEF IInv, Asking, Before
<1>6. Story'
  BY <1>1, <1>2, <1>3 DEF IInv, TypeOK, Story, Before, Nodes, Ending, Failing, Cap
<1> QED
  BY <1>2, <1>4, <1>5, <1>6 DEF IInv

\* A node that raises keeps the invariant: its span is the last and an error.
LEMMA RaiseKeeps ==
  ASSUME IInv, Raise  PROVE IInv'
<1>1. /\ pc \in Nodes /\ spans' = Span(pc, "error") /\ pc' = "flush_error"
      /\ UNCHANGED <<request, chosen, winner, trace, stored>>
      /\ UNCHANGED <<subQueries, retrieved, reranked, iteration, refined, confidence, reason,
                     parsed, final>>
  BY DEF Raise, resolution, tables, agent, evidence, verdict
<1>2. /\ spans' \in Seq(Spans) /\ spans' # <<>> /\ SpansTellThePath'
      /\ LastSpan'.status = "error"
  BY <1>1, SpanAdded
<1>3. TypeOK'
  BY <1>1, <1>2 DEF IInv, TypeOK, Failing
<1>4. Asking' /\ EvidenceIsCurrent' /\ Story'
  BY <1>1, <1>2 DEF Asking, EvidenceIsCurrent, Story, Before, Nodes, Ending, Failing
<1>5. trace.status = "running"
  BY <1>1 DEF IInv, Tables
<1>6. Tables'
  BY <1>1, <1>5 DEF Tables, Before
<1>7. TraceMatchesSpans'
  BY <1>1, <1>5 DEF IInv, TraceMatchesSpans, Nodes
<1> QED
  BY <1>2, <1>3, <1>4, <1>6, <1>7 DEF IInv

-----------------------------------------------------------------------------
\* flush_spans and end_trace.

\* flush_spans keeps the invariant, whether the rows are stored or not.
LEMMA FlushKeeps ==
  ASSUME IInv, FlushSpans("flush", "end") \/ FlushSpans("flush_error", "end_error")
  PROVE  IInv'
<1>1. /\ UNCHANGED <<request, chosen, winner, spans, trace>>
      /\ UNCHANGED <<subQueries, retrieved, reranked, iteration, refined, confidence, reason,
                     parsed, final>>
      /\ stored' \in {stored, spans}
      /\ \/ pc = "flush" /\ pc' = "end" /\ stored' = spans
         \/ pc = "flush_error" /\ pc' = "end_error" /\ stored' = spans
         \/ pc \in {"flush", "flush_error"} /\ pc' = "raised"
  BY DEF FlushSpans, resolution, agent, evidence, verdict
<1>2. TypeOK'
  BY <1>1 DEF IInv, TypeOK, Ending, Failing
<1>3. Asking' /\ EvidenceIsCurrent' /\ SpansTellThePath'
  BY <1>1 DEF IInv, Asking, EvidenceIsCurrent, EvidenceOf, Planned, SpansTellThePath, Before
<1>4. Story'
  BY <1>1 DEF IInv, Story, Before, Nodes, Ending, Failing, LastSpan, AllOk, Retrievals
<1>5. trace.status = "running"
  BY <1>1 DEF IInv, Tables, Failing
<1>6. Tables'
  BY <1>1, <1>5 DEF Tables, Before
<1>7. TraceMatchesSpans'
  BY <1>1, <1>5 DEF IInv, TraceMatchesSpans
<1> QED
  BY <1>2, <1>3, <1>4, <1>6, <1>7 DEF IInv

\* end_trace after an answer keeps the invariant, whether it fails or not.
LEMMA EndKeeps ==
  ASSUME IInv, EndTrace("end", Completed, "returned")
  PROVE  IInv'
<1>1. /\ UNCHANGED <<request, chosen, winner, spans, stored>>
      /\ UNCHANGED <<subQueries, retrieved, reranked, iteration, refined, confidence, reason,
                     parsed, final>>
      /\ pc = "end"
      /\ \/ pc' = "returned" /\ trace' = Completed
         \/ pc' = "raised" /\ trace' \in {trace, Completed}
  BY DEF EndTrace, resolution, agent, evidence, verdict
<1>2. Completed \in [status : {"absent", "running", "completed", "error"},
                     iterations : Nat, answered : BOOLEAN]
  BY DEF IInv, TypeOK, Completed, Cap
<1>3. TypeOK'
  BY <1>1, <1>2 DEF IInv, TypeOK, Ending
<1>4. Asking' /\ EvidenceIsCurrent' /\ SpansTellThePath' /\ Tables'
  BY <1>1 DEF IInv, Asking, EvidenceIsCurrent, EvidenceOf, Planned, SpansTellThePath, Tables,
     Before, Nodes, Failing
<1>5. Story'
  BY <1>1 DEF IInv, Story, Before, Nodes, Ending, Failing, LastSpan, AllOk, Retrievals
<1>6. /\ spans # <<>> /\ AllOk /\ LastSpan.node = "cite" /\ LastSpan.iteration = iteration
      /\ Retrievals = iteration + 1 /\ stored = spans /\ trace.status = "running"
  BY <1>1 DEF IInv, Story, Tables, Ending
<1>7. TraceMatchesSpans'
  <2>1. Family[chosen["judge"]] # Family[chosen["generator"]]
    BY <1>6 DEF IInv, TraceMatchesSpans
  <2>2. Completed' = Completed /\ Completed.status = "completed"
        /\ Completed.iterations = iteration
    BY <1>1 DEF Completed
  <2>3. trace'.status = "completed" => trace' = Completed
    BY <1>1, <1>6
  <2>4. trace'.status # "error" /\ (pc' = "returned" => trace' = Completed)
    BY <1>1, <1>6, <2>2
  <2>5. ASSUME trace' = Completed
        PROVE  /\ stored' # <<>> /\ stored'[Len(stored')].node = "cite"
               /\ \A i \in DOMAIN stored' : stored'[i].status = "ok"
               /\ trace'.iterations = stored'[Len(stored')].iteration
               /\ trace'.iterations + 1 = Cardinality(Executions(stored', "retrieve"))
    <3>1. stored' = spans /\ trace'.iterations = iteration
      BY <1>1, <1>6, <2>2, <2>5
    <3> QED
      BY <1>6, <3>1 DEF AllOk, LastSpan, Retrievals
  <2> QED
    BY <1>1, <1>6, <2>1, <2>2, <2>3, <2>4, <2>5 DEF TraceMatchesSpans
<1> QED
  BY <1>3, <1>4, <1>5, <1>7 DEF IInv

\* end_trace after an exception keeps the invariant, whether it fails or not.
LEMMA EndErrorKeeps ==
  ASSUME IInv, EndTrace("end_error", Errored, "raised")
  PROVE  IInv'
<1>1. /\ UNCHANGED <<request, chosen, winner, spans, stored>>
      /\ UNCHANGED <<subQueries, retrieved, reranked, iteration, refined, confidence, reason,
                     parsed, final>>
      /\ pc = "end_error" /\ pc' = "raised" /\ trace' \in {trace, Errored}
  BY DEF EndTrace, resolution, agent, evidence, verdict
<1>2. TypeOK'
  <2>1. Errored \in [status : {"absent", "running", "completed", "error"},
                     iterations : Nat, answered : BOOLEAN]
    BY DEF Errored
  <2> QED
    BY <1>1, <2>1 DEF IInv, TypeOK
<1>3. Asking' /\ EvidenceIsCurrent' /\ SpansTellThePath' /\ Tables' /\ Story'
  BY <1>1 DEF IInv, Asking, EvidenceIsCurrent, SpansTellThePath, Tables, Story, Before, Nodes,
     Ending, Failing
<1>4. /\ spans # <<>> /\ LastSpan.status = "error" /\ stored = spans
      /\ trace.status = "running"
  BY <1>1 DEF IInv, Story, Tables, Failing
<1>5. TraceMatchesSpans'
  BY <1>1, <1>4 DEF IInv, TraceMatchesSpans, LastSpan, Errored
<1> QED
  BY <1>2, <1>3, <1>5 DEF IInv

-----------------------------------------------------------------------------
\* The invariant holds when answer() is called, and every step keeps it.

\* A call that has not begun satisfies the invariant.
LEMMA InitIInv == Init => IInv
<1> SUFFICES ASSUME Init  PROVE IInv
  OBVIOUS
<1>1. TypeOK
  BY DEF Init, TypeOK, Before, NoResult, NoTrace, Cap, Neutral
<1>2. Asking /\ Story /\ Tables /\ EvidenceIsCurrent
  BY DEF Init, Asking, Story, Tables, EvidenceIsCurrent, Before, Nodes, Ending, Failing, NoTrace
<1>3. SpansTellThePath
  BY DEF Init, SpansTellThePath
<1>4. TraceMatchesSpans
  BY DEF Init, TraceMatchesSpans, NoTrace
<1> QED
  BY <1>1, <1>2, <1>3, <1>4 DEF IInv

\* Every step keeps the invariant.
LEMMA NextIInv == IInv /\ [Next]_vars => IInv'
<1> SUFFICES ASSUME IInv, [Next]_vars  PROVE IInv'
  OBVIOUS
<1>1. CASE Step
  BY <1>1, ResolutionKeeps, StartTraceKeeps, PlanKeeps, RetrieveKeeps, RerankKeeps, VerifyKeeps,
     GenerateKeeps, CiteKeeps, RaiseKeeps, FlushKeeps, EndKeeps, EndErrorKeeps DEF Step
<1>2. CASE \E c \in Components, candidate \in Candidates : Lock(c, candidate)
  BY <1>2, ResolutionKeeps
<1>3. CASE UNCHANGED vars
  <2>1. UNCHANGED <<pc, request, chosen, winner, subQueries, retrieved, reranked, iteration,
                    refined, confidence, reason, parsed, final, spans, trace, stored>>
    BY <1>3 DEF vars, resolution, agent, evidence, verdict, tables
  <2>2. TypeOK' /\ Asking' /\ Tables' /\ EvidenceIsCurrent' /\ SpansTellThePath'
    BY <2>1 DEF IInv, TypeOK, Asking, Tables, EvidenceIsCurrent, EvidenceOf, Planned,
       SpansTellThePath, Searches, Source, LastSpan
  <2>3. Story' /\ TraceMatchesSpans'
    BY <2>1 DEF IInv, Story, TraceMatchesSpans, LastSpan, AllOk, Retrievals, Completed
  <2> QED
    BY <2>2, <2>3 DEF IInv
<1> QED
  BY <1>1, <1>2, <1>3 DEF Next, Finished

\* The invariant holds throughout.
LEMMA AlwaysIInv == Spec => []IInv
<1> QED
  BY InitIInv, NextIInv, PTL DEF Spec

-----------------------------------------------------------------------------
\* The agent state, the span buffer and the rows keep their types; in particular
\* verify never loops more than Cap times.
THEOREM TypeCorrect == Spec => []TypeOK
<1>1. IInv => TypeOK
  BY DEF IInv
<1> QED
  BY <1>1, AlwaysIInv, PTL

\* Judge, generator and citation check see what was retrieved and ranked for the
\* refined query in the snapshot of the last retrieve span, or for the plan's
\* searches before the first loop.
THEOREM EvidenceStaysCurrent == Spec => []EvidenceIsCurrent
<1>1. IInv => EvidenceIsCurrent
  BY DEF IInv
<1> QED
  BY <1>1, AlwaysIInv, PTL

\* The span buffer is a path through the graph, with the loops it took.
THEOREM SpansArePaths == Spec => []SpansTellThePath
<1>1. IInv => SpansTellThePath
  BY DEF IInv
<1> QED
  BY <1>1, AlwaysIInv, PTL

\* Whichever of flush_spans and end_trace fails, the two tables agree with what
\* ran, and no trace is of a generator judged by its own family (ADR 004).
THEOREM TablesAgree == Spec => []TraceMatchesSpans
<1>1. IInv => TraceMatchesSpans
  BY DEF IInv
<1> QED
  BY <1>1, AlwaysIInv, PTL
=============================================================================
