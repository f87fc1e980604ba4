--------------------------- MODULE MCBakeoffLedger ---------------------------
(***************************************************************************)
(* Instances of BakeoffLedger for TLC.                                     *)
(***************************************************************************)
EXTENDS BakeoffLedger, TLC

CONSTANTS e1, e2, g1, v1, s1, s2, nightly, x1, x2

TwoEmbedders == {e1, e2}
OneGenerator == {g1}
OneVisual == {v1}
TwoSweepers == {s1, s2}
\* Two bakeoffs at once, two sweeps under one id, one process of each script.
Together == {{e1, e2}, {s1, s2}, {e1, g1, s1}, {g1, v1}}
SameSweep == (s1 :> nightly) @@ (s2 :> nightly)
TwoExamples == <<x1, x2>>
TwoGenerators == <<1, 2>>

Candidate(id, score, price, meets) ==
  [id |-> id, score |-> score, price |-> price, meets |-> meets]

\* Nobody eligible; an ineligible leader; the cheaper one at the edge of the
\* band, and just outside; equal prices; equal but for the id.
Measurements == {
  {Candidate(1, 70, 0, FALSE)},
  {Candidate(1, 95, 0, FALSE), Candidate(2, 80, 1, TRUE)},
  {Candidate(1, 85, 2, TRUE), Candidate(2, 82, 1, TRUE)},
  {Candidate(1, 85, 2, TRUE), Candidate(2, 81, 1, TRUE)},
  {Candidate(1, 84, 1, TRUE), Candidate(2, 85, 1, TRUE)},
  {Candidate(1, 85, 1, TRUE), Candidate(2, 85, 1, TRUE)}}
=============================================================================
