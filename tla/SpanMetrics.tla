----------------------------- MODULE SpanMetrics -----------------------------
(***************************************************************************)
(* eval/runners/measure_embeddings.py: how well the first k results cover  *)
(* the gold span.  A fraction is <<numerator, denominator>>.               *)
(***************************************************************************)
EXTENDS RankFusion

Zero == <<0, 1>>

Larger(a, b) == IF a > b THEN a ELSE b
Smaller(a, b) == IF a < b THEN a ELSE b

\* Seconds two spans share.
Shared(a, b) == Larger(0, Smaller(a.end, b.end) - Larger(a.start, b.start))

\* Touching is not overlapping.
OverlapsGold(c, gold) ==
  c.video = gold.video /\ c.end > gold.start /\ c.start < gold.end

Passes(results, gold, k) == \E c \in ToSet(Top(results, k)) : OverlapsGold(c, gold)

ContainsGold(results, gold, k) ==
  \E c \in ToSet(Top(results, k)) :
    c.video = gold.video /\ c.start <= gold.start /\ c.end >= gold.end

IouVsGold(c, gold) ==
  LET inter == Shared(c, gold)
      union == (c.end - c.start) + (gold.end - gold.start) - inter
  IN IF c.video # gold.video \/ union <= 0 THEN Zero ELSE <<inter, union>>

IouAt1(results, gold) == IF results = <<>> THEN Zero ELSE IouVsGold(results[1], gold)

\* Bug: intervals are counted as they come, overlaps twice.
MergeNothing(intervals) == intervals

\* Sorted by their starts; an interval that overlaps or touches the last one
\* extends it.
MergeIntervals(intervals) ==
  LET Earlier(a, b) == a.start < b.start \/ (a.start = b.start /\ a.end < b.end)
      Extend(merged, s) ==
        IF merged # <<>> /\ s.start <= Last(merged).end
        THEN [merged EXCEPT ![Len(merged)].end = Larger(@, s.end)]
        ELSE Append(merged, s)
  IN FoldLeft(Extend, <<>>, Sorted(intervals, Earlier))

RegionIouAtK(results, gold, k) ==
  LET top == Top(results, k)
      mine == Picked(top, {i \in DOMAIN top : top[i].video = gold.video})
      merged == MergeIntervals([i \in DOMAIN mine |->
                  [start |-> mine[i].start, end |-> mine[i].end]])
      covered == FoldSeq(LAMBDA s, sum : (s.end - s.start) + sum, 0, merged)
      inter == FoldSeq(LAMBDA s, sum : Shared(s, gold) + sum, 0, merged)
      union == covered + (gold.end - gold.start) - inter
  IN IF union > 0 THEN <<inter, union>> ELSE Zero

\* channel_recall, for one example.
ChannelRecall(results, gold, k) ==
  [passes |-> Passes(results, gold, k), contained |-> ContainsGold(results, gold, k),
   iou |-> IouAt1(results, gold), region |-> RegionIouAtK(results, gold, k)]

-----------------------------------------------------------------------------
\* measure_all_channels.

Chunks(fused) == [i \in DOMAIN fused |-> fused[i].chunk]

\* What each measured channel returns: a vector channel's list, or the fusion of
\* the four text channels.
ChannelResults(found, fused) ==
  [name \in {"dense", "sparse", "multivec", "rrf_4ch"} |->
     IF name = "rrf_4ch" THEN Chunks(fused) ELSE found[name]]

\* tr_at_k of every channel, for one example, with the other figures of
\* channel_recall, which the code takes of such lists in the chunking ablation.
MeasureAllChannels(found, fused, gold, k) ==
  LET results == ChannelResults(found, fused) IN
  [name \in DOMAIN results |-> ChannelRecall(results[name], gold, k)]

\* Passes of each channel, and of the best of the vector channels.
EmbeddingsSummary(rows) ==
  LET PassesOf(name) == Cardinality({i \in DOMAIN rows : rows[i].scores[name].passes}) IN
  [n |-> Len(rows),
   per_channel |-> [name \in {"dense", "sparse", "multivec", "rrf_4ch"} |-> PassesOf(name)],
   vector_best |-> Max({PassesOf(name) : name \in {"dense", "sparse", "multivec"}})]
=============================================================================
