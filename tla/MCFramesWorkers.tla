--------------------------- MODULE MCFramesWorkers ---------------------------
(***************************************************************************)
(* Instances of FramesWorkers for TLC.                                     *)
(***************************************************************************)
EXTENDS FramesWorkers, TLC

CONSTANTS v1, w1, w2

OneVideo == {v1}

\* The second version is shorter than the first.
Shrinking == v1 :> <<2, 1>>
\* The second version of the first frame cannot be encoded.
OneUnstable == {<<v1, 1, 2>>}

TwoWorkers == {w1, w2}
=============================================================================
