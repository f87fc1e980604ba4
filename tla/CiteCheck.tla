------------------------------ MODULE CiteCheck ------------------------------
(***************************************************************************)
(* generate/nodes/cite.py: every citation of the model is matched with the *)
(* chunk it was given that covers most of the cited span.                  *)
(***************************************************************************)
EXTENDS Integers, Sequences, FiniteSets

Span(s) == s.end - s.start

\* Seconds of the citation the chunk covers.
Overlap(cit, chunk) ==
  LET end == IF cit.end < chunk.end THEN cit.end ELSE chunk.end
      start == IF cit.start > chunk.start THEN cit.start ELSE chunk.start
  IN IF cit.video = chunk.video /\ Span(cit) > 0 /\ end > start THEN end - start ELSE 0

\* The first of the chunks that cover most, if any covers something.
Best(cit, chunks) ==
  {i \in DOMAIN chunks :
     /\ Overlap(cit, chunks[i]) > 0
     /\ \A j \in DOMAIN chunks :
          IF j < i THEN Overlap(cit, chunks[j]) < Overlap(cit, chunks[i])
          ELSE Overlap(cit, chunks[j]) <= Overlap(cit, chunks[i])}

\* Bug: the claim's index may be one too high.
ValidOffByOne(cit, chunks, n_claims) ==
  /\ cit.claim <= n_claims
  /\ \E i \in Best(cit, chunks) : 2 * Overlap(cit, chunks[i]) >= Span(cit)

\* _MIN_OVERLAP is one half.
Valid(cit, chunks, n_claims) ==
  /\ cit.claim < n_claims
  /\ \E i \in Best(cit, chunks) : 2 * Overlap(cit, chunks[i]) >= Span(cit)

ValidateOne(cit, chunks) ==
  [cit |-> cit, matched |-> chunks[CHOOSE i \in Best(cit, chunks) : TRUE]]

Abstention(parse_ok) ==
  [abstain |-> TRUE, parse_ok |-> parse_ok, claims |-> <<>>, valid |-> <<>>, invalid |-> <<>>]

\* The two lists of the result, with each citation at its place in the reply.
Cite(parsed, chunks) ==
  LET ok == {i \in DOMAIN parsed.citations :
               Valid(parsed.citations[i], chunks, Len(parsed.claims))}
  IN IF ~parsed.parse_ok \/ parsed.abstain THEN Abstention(parsed.parse_ok)
     ELSE [abstain |-> FALSE, parse_ok |-> TRUE, claims |-> parsed.claims,
           valid |-> [i \in ok |-> ValidateOne(parsed.citations[i], chunks)],
           invalid |-> [i \in DOMAIN parsed.citations \ ok |-> parsed.citations[i]]]

-----------------------------------------------------------------------------
\* Second by second.
Seconds(span) == span.start .. (span.end - 1)

Covered(cit, chunk) ==
  IF chunk.video # cit.video THEN {} ELSE Seconds(cit) \cap Seconds(chunk)

Enough(cit, chunk) ==
  Seconds(cit) # {} /\ 2 * Cardinality(Covered(cit, chunk)) >= Cardinality(Seconds(cit))

\* A result shows as valid only the citations the chunks bear out: at least half
\* of the cited span lies in the matched chunk, no chunk covers more of it, and
\* its claim exists.  The others are all reported invalid, none is lost, and an
\* abstention shows nothing.
Grounded(parsed, chunks, result) ==
  LET given == {chunks[i] : i \in DOMAIN chunks} IN
  /\ result.abstain <=> (~parsed.parse_ok \/ parsed.abstain)
  /\ result.abstain => result.claims = <<>> /\ result.valid = <<>> /\ result.invalid = <<>>
  /\ ~result.abstain =>
       /\ DOMAIN result.valid \cup DOMAIN result.invalid = DOMAIN parsed.citations
       /\ DOMAIN result.valid \cap DOMAIN result.invalid = {}
  /\ \A i \in DOMAIN result.valid :
       LET v == result.valid[i] IN
       /\ v.cit = parsed.citations[i] /\ v.cit.claim + 1 \in DOMAIN result.claims
       /\ v.matched \in given /\ Enough(v.cit, v.matched)
       /\ \A chunk \in given :
            Cardinality(Covered(v.cit, chunk)) <= Cardinality(Covered(v.cit, v.matched))
  /\ \A i \in DOMAIN result.invalid :
       LET cit == result.invalid[i] IN
       /\ cit = parsed.citations[i]
       /\ cit.claim + 1 \notin DOMAIN result.claims \/ ~\E chunk \in given : Enough(cit, chunk)
=============================================================================
