------------------------- MODULE MCChunkingAblation -------------------------
(***************************************************************************)
(* Instances of ChunkingAblation for TLC.                                  *)
(***************************************************************************)
EXTENDS ChunkingAblation, TLC

CONSTANTS t1, t2, w1, w2, ablation

TwoTalks == {t1, t2}
FirstTalk == <<t1>>
BothTalks == <<t1, t2>>
Framing == {t1}
TwoWorkers == {w1, w2}
WorkerSymmetry == Permutations(Pipeline)
=============================================================================
