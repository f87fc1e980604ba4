------------------------------ MODULE RankFusion ------------------------------
(***************************************************************************)
(* The retrieval channels, their reciprocal rank fusion (retrieve/rrf.py)  *)
(* and the cross-encoder's reordering (retrieve/rerank.py).  A channel     *)
(* returns chunks, best first; a rank is a position, counted from 1.       *)
(***************************************************************************)
EXTENDS Lists, SequencesExt, FiniteSetsExt, Functions

CONSTANTS
  RRF_K,
  MaxRank,  \* bound: the longest list a channel returns
  Scale     \* scores are counted in units of 1/Scale

\* 1/(RRF_K + rank) is a whole number of units.
ASSUME RankAssumption ==
  /\ RRF_K \in Nat \ {0} /\ MaxRank \in Nat \ {0} /\ Scale \in Nat \ {0}
  /\ \A rank \in 1..MaxRank : Scale % (RRF_K + rank) = 0

Top(seq, k) == SubSeq(seq, 1, IF k < Len(seq) THEN k ELSE Len(seq))

-----------------------------------------------------------------------------
\* The channels.

\* bm25: the precise query, or an OR of its meaningful words if that finds
\* nothing and there are some.
Bm25(precise, meaningful, broad) ==
  IF precise # <<>> \/ ~meaningful THEN precise ELSE broad

\* multivec: what dense and sparse prefilter, in the order of MaxSim, without
\* the chunks that have no token vectors.  The code runs the two again for their
\* first 100 chunks; lists of at most MaxRank chunks are no longer for that.
Multivec(dense, sparse, byMaxSim) ==
  Picked(byMaxSim, {i \in DOMAIN byMaxSim : byMaxSim[i] \in ToSet(dense) \cup ToSet(sparse)})

\* visual: the chunks some frame with patches falls into, the end excluded, of
\* the frames the pooled vectors prefilter; in the order of MaxSim.
Visual(prefilter, patched, byPatches) ==
  LET Holds(c, f) == f.video = c.video /\ c.start <= f.sec /\ f.sec < c.end IN
  Picked(byPatches, {i \in DOMAIN byPatches :
                       \E f \in ToSet(prefilter) \cap patched : Holds(byPatches[i], f)})

-----------------------------------------------------------------------------
\* fuse.

\* channel_ranks: only of the channels that returned the chunk.
Ranks(channels, c) ==
  [name \in {n \in DOMAIN channels : c \in ToSet(channels[n])} |->
     CHOOSE i \in DOMAIN channels[name] : channels[name][i] = c]

\* Bug: ranks are added up, the lower the sum the better.
ScoreByRankSum(ranks) ==
  100 - FoldSet(LAMBDA name, sum : ranks[name] + sum, 0, DOMAIN ranks)

Score(ranks) ==
  LET Term(name) == IF name \in DOMAIN ranks THEN Scale \div (RRF_K + ranks[name]) ELSE 0
  IN Term("bm25") + Term("dense") + Term("sparse") + Term("multivec") + Term("visual")

\* Equal scores go by chunk_id; but floating-point sums of three and more terms
\* depend on the terms' order, and one that is rounded up wins a tie.
RankedBefore(r, s) ==
  \/ r.score > s.score
  \/ r.score = s.score /\ r.rounded > s.rounded
  \/ r.score = s.score /\ r.rounded = s.rounded /\ r.chunk.id < s.chunk.id

Fuse(channels, up, top_k) ==
  LET chunks == UNION {ToSet(channels[name]) : name \in DOMAIN channels}
      Entry(c) == LET ranks == Ranks(channels, c) IN
        [chunk |-> c, ranks |-> ranks, score |-> Score(ranks),
         rounded |-> IF c \in up /\ Cardinality(DOMAIN ranks) > 2 THEN 1 ELSE 0]
      entries == {Entry(c) : c \in chunks}
  IN Top(Ordered(entries, {p \in entries \X entries : RankedBefore(p[1], p[2])}), top_k)

-----------------------------------------------------------------------------
\* rerank.

\* By the cross-encoder's confidence, then chunk_id; ranks and fused score go
\* along.
Rerank(fused, confidence, top_k) ==
  LET Before(r, s) ==
        \/ confidence[r.chunk] > confidence[s.chunk]
        \/ confidence[r.chunk] = confidence[s.chunk] /\ r.chunk.id < s.chunk.id
      hits == ToSet(fused)
  IN Top(Ordered(hits, {p \in hits \X hits : Before(p[1], p[2])}), top_k)
=============================================================================
