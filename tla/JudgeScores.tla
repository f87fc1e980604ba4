----------------------------- MODULE JudgeScores -----------------------------
(***************************************************************************)
(* eval/runners/measure_generation.py: what the judge's reply credits, and *)
(* what a generator's rows add up to; and the minimums of                  *)
(* run_generator_bakeoff.  An assessment is <<index, value>>, the value    *)
(* "true" for the JSON literal only.                                       *)
(***************************************************************************)
EXTENDS Lists, SequencesExt, FiniteSetsExt

\* A fraction is <<part, of>>; what was not measured has none.
NoFraction == <<>>

\* Bug: any truthy value is a credit.
CreditsTruthy(assessments, n) ==
  LET Read(credits, a) ==
        IF a[1] \in 0..(n - 1) THEN [credits EXCEPT ![a[1] + 1] = a[2] # "false"] ELSE credits
  IN FoldLeft(Read, [i \in 1..n |-> FALSE], assessments)

\* What no assessment mentions is not credited; a later one overrides.
Credits(assessments, n) ==
  LET Read(credits, a) ==
        IF a[1] \in 0..(n - 1) THEN [credits EXCEPT ![a[1] + 1] = a[2] = "true"] ELSE credits
  IN FoldLeft(Read, [i \in 1..n |-> FALSE], assessments)

\* _parse_judge_output, of a reply it can loop over (NoContent of QuestionPath
\* is the TypeError of one it cannot).
ParseJudgeOutput(reply, parsed) ==
  IF ~reply.object THEN [ok |-> FALSE, claims |-> <<>>, citations |-> <<>>, raw |-> reply]
  ELSE [ok |-> TRUE, claims |-> Credits(reply.claims, Len(parsed.claims)),
        citations |-> Credits(reply.citations, Len(parsed.citations)), raw |-> reply]

Frac(credits) ==
  IF credits = <<>> THEN NoFraction
  ELSE <<Cardinality({i \in DOMAIN credits : credits[i]}), Len(credits)>>

\* Only these answers are shown to the judge.
Judgeable(parsed) == parsed.parse_ok /\ ~parsed.abstain /\ parsed.claims # <<>>

\* An example's record; a judgement is added to it.
Record(q, parsed, latency) ==
  [question |-> q, parse_ok |-> parsed.parse_ok, abstain |-> parsed.abstain,
   latency |-> latency, judgeable |-> Judgeable(parsed),
   judged |-> FALSE, claims |-> NoFraction, citations |-> NoFraction]

Judged(record, judgement) ==
  [record EXCEPT !.judged = judgement.ok,
                 !.claims = Frac(judgement.claims), !.citations = Frac(judgement.citations)]

-----------------------------------------------------------------------------
\* Aggregates.

\* round(x / 100) to even, as Python does it.
Rounded(x) ==
  LET floor == x \div 100 IN
  IF x % 100 < 50 \/ (x % 100 = 50 /\ floor % 2 = 0) THEN floor ELSE floor + 1

\* _p95_ms's index, from 1.
P95Rank(n) == Min({n, Max({1, Rounded(95 * n + 50)})})

P95(latencies) == Sorted(latencies, <)[P95Rank(Len(latencies))]

\* The mean of the fractions, in units of 1/12, and how many there are.
Mean(fracs) ==
  IF fracs = <<>> THEN NoFraction
  ELSE <<FoldSeq(LAMBDA f, sum : (12 * f[1]) \div f[2] + sum, 0, fracs), Len(fracs)>>

\* The fractions in a field of the rows, and how many rows have a field true.
Column(rows, field) ==
  LET measured == {i \in DOMAIN rows : rows[i][field] # NoFraction}
  IN Picked([i \in DOMAIN rows |-> rows[i][field]], measured)

Count(rows, field) == Cardinality({i \in DOMAIN rows : rows[i][field]})

GeneratorSummary(rows, refusals) ==
  [n |-> Len(rows),
   parsed |-> Count(rows, "parse_ok"),
   refused |-> Count(rows, "abstain"),
   p95 |-> IF rows = <<>> THEN 0 ELSE P95([i \in DOMAIN rows |-> rows[i].latency]),
   grounded |-> Mean(Column(rows, "claims")),
   accurate |-> Mean(Column(rows, "citations")),
   judge_failures |-> Cardinality({i \in DOMAIN rows : rows[i].judgeable /\ ~rows[i].judged}),
   negatives |-> Len(refusals),
   refusals |-> Count(refusals, "abstain")]

\* check_minimums, with those of model_candidates.yaml in percent; what could
\* not be measured misses.
CheckMinimums(s, p95_max) ==
  LET AtLeast(mean, percent) == mean # NoFraction /\ 100 * mean[1] >= 12 * percent * mean[2] IN
  /\ AtLeast(s.grounded, 85) /\ AtLeast(s.accurate, 85)
  /\ s.n > 0 /\ 100 * s.parsed >= 98 * s.n
  /\ s.negatives > 0 /\ 100 * s.refusals >= 90 * s.negatives
  /\ s.p95 <= p95_max
=============================================================================
