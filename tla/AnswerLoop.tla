----------------------------- MODULE AnswerLoop -----------------------------
(***************************************************************************)
(* One call of generate.api.answer: the candidates are resolved, the trace *)
(* row is opened, the graph plan -> retrieve -> rerank -> verify ->        *)
(* (retrieve again | generate -> cite) runs with a span per node, and the  *)
(* spans and the trace row are written.  The connection is in autocommit   *)
(* mode: every database call commits alone and may fail alone, and a       *)
(* bakeoff in another process may lock a new winner between two of them.   *)
(*                                                                         *)
(* A query, a rewrite and a candidate are model values; the candidates     *)
(* retrieved for a list of queries are named by that list; a confidence is *)
(* a number of tenths.                                                     *)
(***************************************************************************)
EXTENDS Integers, Sequences, FiniteSets

CONSTANTS
  Query,           \* the user's query
  Rewrites,        \* refinements the judge may propose
  SubQueries,      \* the lists of sub-queries the planner may return
  None,            \* Python's None
  Candidates,      \* models of model_candidates.yaml
  Family,          \* Family[c]: vendor family of a candidate
  Confidences,     \* confidences the judge may give, in tenths
  Threshold        \* verify_confidence_threshold, in tenths

ASSUME QueryAssumption == None \notin {Query} \cup Rewrites
ASSUME CandidatesAssumption == None \notin Candidates
ASSUME ConfidenceAssumption == Confidences \subseteq Int /\ Threshold \in Int

VARIABLES
  pc,          \* the node or database call that runs next
  request,     \* request[c]: the candidate passed for c, or None
  winner,      \* winner[c]: the locked bakeoff winner for c, or None
  chosen,      \* chosen[c]: the candidate answer() resolved, or None
  \* AgentState
  subQueries, iteration, refined, retrieved, reranked, confidence, reason,
  parsed, final,
  spans,       \* span_buffer
  trace,       \* the row of this call in traces
  stored       \* its rows in trace_spans

resolution == <<request, chosen>>
evidence == <<subQueries, retrieved, reranked>>
verdict == <<iteration, refined, confidence, reason>>
agent == <<evidence, verdict, parsed, final>>
tables == <<trace, stored>>
vars == <<pc, resolution, winner, agent, spans, tables>>

Components == {"generator", "judge"}
Nodes == {"plan", "retrieve", "rerank", "verify", "generate", "cite"}
Edges ==
  {<<"plan", "retrieve">>, <<"retrieve", "rerank">>, <<"rerank", "verify">>,
   <<"verify", "retrieve">>, <<"verify", "generate">>, <<"generate", "cite">>}

\* Verify -> Retrieve loops verify allows.
Cap == 2
\* The confidence of a missing or unreadable judgement.
Neutral == 5

NoTrace == [status |-> "absent", iterations |-> 0, answered |-> FALSE]
NoRanking == [by |-> None, over |-> <<>>]
NoResult == [answered |-> FALSE, iterations |-> 0]

Init ==
  /\ pc = "resolve_generator"
  /\ request \in [Components -> Candidates \cup {None}]
  /\ winner \in [Components -> Candidates \cup {None}]
  /\ chosen = [c \in Components |-> None]
  /\ subQueries = <<>> /\ retrieved = <<>> /\ reranked = NoRanking
  /\ iteration = 0 /\ refined = None /\ confidence = Neutral /\ reason = "none"
  /\ parsed = "none" /\ final = NoResult
  /\ spans = <<>>
  /\ trace = NoTrace /\ stored = <<>>

-----------------------------------------------------------------------------
\* Resolution of the candidates.

Resolved(c) == IF request[c] # None THEN request[c] ELSE winner[c]

\* An explicit candidate, or the locked winner, or BakeoffNotYetRunError; a
\* database error and a candidate no configuration knows raise too.
Resolve(c, at, to) ==
  /\ pc = at
  /\ chosen' = [chosen EXCEPT ![c] = Resolved(c)]
  /\ pc' \in {"raised"} \cup (IF Resolved(c) = None THEN {} ELSE {to})
  /\ UNCHANGED <<request, winner, agent, spans, tables>>

\* Bug: the check compares candidates, not their families.
SameFamilyById == chosen["judge"] = chosen["generator"]

SameFamily == Family[chosen["judge"]] = Family[chosen["generator"]]

\* CrossFamilyViolationError, or start_trace, which may fail.  (A statement
\* that fails for the caller may have committed: the reply was lost.)
StartTrace ==
  /\ pc = "start"
  /\ \/ /\ ~SameFamily
        /\ trace' = [trace EXCEPT !.status = "running"]
        /\ pc' = "plan"
     \/ /\ SameFamily
        /\ pc' = "raised"
        /\ UNCHANGED trace
     \/ /\ ~SameFamily
        /\ pc' = "raised"
        /\ trace' \in {trace, [trace EXCEPT !.status = "running"]}
  /\ UNCHANGED <<resolution, winner, agent, spans, stored>>

-----------------------------------------------------------------------------
\* The nodes.  Each runs inside a span that records the iteration and the
\* refined query it started with (its input snapshot) and whether it raised.

Span(node, status) ==
  Append(spans, [node |-> node, iteration |-> iteration, refined |-> refined,
                 status |-> status])

Runs(node, to) ==
  /\ pc = node
  /\ pc' = to
  /\ spans' = Span(node, "ok")
  /\ UNCHANGED <<resolution, winner, tables>>

\* The deterministic path searches the query itself, the planner's sub-queries
\* replace it.
Plan ==
  /\ Runs("plan", "retrieve")
  /\ subQueries' \in SubQueries \cup {<<Query>>}
  /\ UNCHANGED <<retrieved, reranked, verdict, parsed, final>>

Source == IF refined # None THEN refined ELSE Query

\* Bug: a refinement does not supersede the sub-queries.
SearchesKept == IF subQueries # <<>> THEN subQueries ELSE <<Source>>

\* What retrieve searches: a refinement supersedes the sub-queries.
Searches == IF refined # None \/ subQueries = <<>> THEN <<Source>> ELSE subQueries

\* The five channels and their fusion.
Retrieve ==
  /\ Runs("retrieve", "rerank")
  /\ retrieved' = Searches
  /\ UNCHANGED <<subQueries, reranked, verdict, parsed, final>>

Rerank ==
  /\ Runs("rerank", "verify")
  /\ reranked' = [by |-> Source, over |-> retrieved]
  /\ UNCHANGED <<subQueries, retrieved, verdict, parsed, final>>

Unavailable == [kind |-> "unavailable", confidence |-> Neutral, rewrite |-> None]
ParseFailed == [kind |-> "parse_failed", confidence |-> Neutral, rewrite |-> None]
Scored ==
  [kind : {"scored"}, confidence : Confidences, rewrite : Rewrites \cup {None}]
Judgements == {Unavailable, ParseFailed} \cup Scored

\* The judge answered, is unsure, and the cap is not reached.
MayLoop(j) ==
  j.kind # "unavailable" /\ j.confidence < Threshold /\ iteration < Cap

\* Bug: the loop is counted only when the judge proposed a rewrite.
JudgedUncounted(j) ==
  /\ confidence' = j.confidence
  /\ reason' = j.kind
  /\ IF MayLoop(j)
     THEN /\ refined' = IF j.rewrite # None THEN j.rewrite ELSE Query
          /\ iteration' = IF j.rewrite # None THEN iteration + 1 ELSE iteration
     ELSE /\ refined' = None
          /\ UNCHANGED iteration

\* What verify writes.
Judged(j) ==
  /\ confidence' = j.confidence
  /\ reason' = j.kind
  /\ IF MayLoop(j)
     THEN /\ refined' = IF j.rewrite # None THEN j.rewrite ELSE Query
          /\ iteration' = iteration + 1
     ELSE /\ refined' = None
          /\ UNCHANGED iteration

\* verify_router.
Route(conf, query) ==
  IF conf < Threshold /\ query # None THEN "retrieve" ELSE "generate"

Verify ==
  \E j \in Judgements :
    /\ Judged(j)
    /\ Runs("verify", Route(j.confidence, refined'))
    /\ UNCHANGED <<evidence, parsed, final>>

\* A provider error and a broken answer both give parse_ok = False; "empty" is
\* a reply that neither abstains nor answers.
Generate ==
  /\ Runs("generate", "cite")
  /\ parsed' \in {"failed", "abstains", "empty", "answers"}
  /\ UNCHANGED <<evidence, verdict, final>>

\* Everything but a parsed, non-empty answer is recorded as no answer.
Cite ==
  /\ Runs("cite", "flush")
  /\ final' = [answered |-> parsed = "answers", iterations |-> iteration]
  /\ UNCHANGED <<evidence, verdict, parsed>>

\* Any exception of a node: a database error of a channel or the reranker, a
\* planner reply that is JSON but no object, a completion without text, an
\* interrupt.
Raise ==
  /\ pc \in Nodes
  /\ spans' = Span(pc, "error")
  /\ pc' = "flush_error"
  /\ UNCHANGED <<resolution, winner, agent, tables>>

-----------------------------------------------------------------------------
\* flush_spans and end_trace; a failure of either leaves answer() at once.

FlushSpans(at, to) ==
  /\ pc = at
  /\ \/ stored' = spans /\ pc' = to
     \/ stored' \in {stored, spans} /\ pc' = "raised"
  /\ UNCHANGED <<resolution, winner, agent, spans, trace>>

\* Bug: a failed end_trace starts the persistence over.
EndTraceRetried(at, row, to) ==
  /\ pc = at
  /\ \/ trace' = row /\ pc' = to
     \/ UNCHANGED trace /\ pc' = IF at = "end" THEN "flush" ELSE "flush_error"
  /\ UNCHANGED <<resolution, winner, agent, spans, stored>>

\* Bug: a failed end_trace is swallowed.
EndTraceIgnored(at, row, to) ==
  /\ pc = at
  /\ pc' = to
  /\ trace' \in {row, trace}
  /\ UNCHANGED <<resolution, winner, agent, spans, stored>>

EndTrace(at, row, to) ==
  /\ pc = at
  /\ \/ trace' = row /\ pc' = to
     \/ trace' \in {trace, row} /\ pc' = "raised"
  /\ UNCHANGED <<resolution, winner, agent, spans, stored>>

\* The row of a finished run.
Completed ==
  [status |-> "completed", iterations |-> iteration, answered |-> final.answered]

\* The row of a failed run: the state answer() still holds is the one it
\* passed to graph.invoke, whose iteration is 0.
Errored == [status |-> "error", iterations |-> 0, answered |-> FALSE]

-----------------------------------------------------------------------------
\* A bakeoff in another process locks a winner (after the two reads nothing
\* of this call looks at it).
Lock(c, candidate) ==
  /\ pc \in {"resolve_generator", "resolve_judge"}
  /\ winner' = [winner EXCEPT ![c] = candidate]
  /\ UNCHANGED <<pc, resolution, agent, spans, tables>>

Finished ==
  /\ pc \in {"returned", "raised"}
  /\ UNCHANGED vars

\* A step of the call itself.
Step ==
  \/ Resolve("generator", "resolve_generator", "resolve_judge")
  \/ Resolve("judge", "resolve_judge", "start")
  \/ StartTrace
  \/ Plan \/ Retrieve \/ Rerank \/ Verify \/ Generate \/ Cite \/ Raise
  \/ FlushSpans("flush", "end") \/ EndTrace("end", Completed, "returned")
  \/ FlushSpans("flush_error", "end_error")
  \/ EndTrace("end_error", Errored, "raised")

Next ==
  \/ Step
  \/ \E c \in Components, candidate \in Candidates : Lock(c, candidate)
  \/ Finished

Spec == Init /\ [][Next]_vars

\* The thread of the call keeps running: every node and database call returns
\* or raises (each model call has a timeout and a bounded number of retries).
FairSpec == Spec /\ WF_vars(Step)

-----------------------------------------------------------------------------
Executions(story, node) == {i \in DOMAIN story : story[i].node = node}

\* The spans are a path through the graph from plan on, of which only the last
\* node may have raised, and a span's iteration is the number of loops before
\* it: what the trace shows is what ran.
SpansTellThePath ==
  /\ spans # <<>> => spans[1].node = "plan" /\ spans[1].iteration = 0
  /\ \A i \in 1..Len(spans) - 1 :
       LET here == spans[i]
           after == spans[i + 1]
       IN /\ here.status = "ok"
          /\ <<here.node, after.node>> \in Edges
          /\ after.iteration =
               here.iteration + IF after.node = "retrieve" /\ here.node = "verify"
                                THEN 1 ELSE 0

\* What the plan searches for, before any loop.
Planned == IF subQueries = <<>> THEN <<Query>> ELSE subQueries

\* Span i is the retrieve of the loop the call is in, and the evidence in the
\* state was retrieved and ranked for the refined query in its snapshot, or for
\* the plan's searches and the query itself when there is none.
EvidenceOf(i) ==
  LET asked == spans[i].refined
  IN /\ spans[i].node = "retrieve" /\ spans[i].iteration = iteration
     /\ asked = None <=> iteration = 0
     /\ reranked = IF asked = None THEN [by |-> Query, over |-> Planned]
                   ELSE [by |-> asked, over |-> <<asked>>]

\* Judge, generator and citation check see candidates retrieved and ranked for
\* the refined query verify handed back when it last looped, as the trace shows
\* it: once there has been a loop neither retrieve nor rerank falls back to the
\* sub-queries or the query.  Hazard: refined_query is written by verify, read
\* by retrieve and again by rerank, and cleared by verify, while the sub-queries
\* of the plan stay in the state.
EvidenceIsCurrent ==
  pc \in {"verify", "generate", "cite", "flush", "end", "returned"} =>
    \E i \in DOMAIN spans : EvidenceOf(i)

\* What the tables say agrees with what ran and with what the caller got.  A
\* trace exists for a generator and a judge of two families only (ADR 004),
\* though a bakeoff may lock other winners between the two reads.  A call that
\* returned has all its spans stored, and a completed trace with its
\* answer and loop count.  A completed trace has the whole path up to cite
\* without an error, and counts the loops the spans show; one marked as an
\* error ends in the span of the node that raised.  Hazard: the three writes
\* commit one by one, and each may fail.
TraceMatchesSpans ==
  /\ trace.status # "absent" => Family[chosen["judge"]] # Family[chosen["generator"]]
  /\ pc = "returned" => trace = Completed /\ stored = spans
  /\ trace.status = "completed" =>
       /\ stored # <<>> /\ stored[Len(stored)].node = "cite"
       /\ \A i \in DOMAIN stored : stored[i].status = "ok"
       /\ trace.iterations = stored[Len(stored)].iteration
       /\ trace.iterations + 1 = Cardinality(Executions(stored, "retrieve"))
  /\ trace.status = "error" =>
       stored # <<>> /\ stored[Len(stored)].status = "error"

\* A call always ends.
Terminates == <>(pc \in {"returned", "raised"})
=============================================================================
