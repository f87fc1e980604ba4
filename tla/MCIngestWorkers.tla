--------------------------- MODULE MCIngestWorkers ---------------------------
(***************************************************************************)
(* Instances of IngestWorkers for TLC.                                     *)
(***************************************************************************)
EXTENDS IngestWorkers, TLC

CONSTANTS v1, v2, s1, s2, whole, w1, w2, w3

\* One video: version 1 of its transcript emits s1 twice, as the fixed-window
\* chunker does when one cue fills two windows, and version 2 has lost s1.
OneVideo == {v1}
TwoSpans == {s1, s2}
OneCut == (v1 :> << <<s1, s1, s2>>, <<s2>> >>)
OneCaptions == {<<v1, 1>>}

\* Two videos; the second one's first transcript is empty.
TwoVideos == {v1, v2}
OneSpan == {s1}
TwoCut == (v1 :> << <<s1>>, <<s1>> >>) @@ (v2 :> << <<>>, <<s1>> >>)
TwoCaptions == {<<v1, 1>>, <<v1, 2>>, <<v2, 2>>}

TwoWorkers == {w1, w2}
ThreeWorkers == {w1, w2, w3}
WorkerSymmetry == Permutations(Workers)
=============================================================================
