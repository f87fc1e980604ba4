---------------------------- MODULE VisualMetrics ----------------------------
(***************************************************************************)
(* eval/runners/measure_visual.py.  A text, of a chunk or read off a       *)
(* frame, is the set of the terms it contains once both are normalised.    *)
(* The evidence of a gold row is a sequence of items, each a sequence of   *)
(* terms of which one must occur; a row without evidence is not evaluable. *)
(***************************************************************************)
EXTENDS SpanMetrics

CONSTANTS
  FRAME_SAMPLE_EVERY_SEC,
  Unreadable,   \* the text of a frame that cannot be read
  NoMatch       \* not every item of the evidence occurs

\* The slot of a row without evidence; that of another holds its score.
NotEvaluable == <<>>

\* The first term of each item that occurs, if one does for every item.
MatchedTerms(text, evidence) ==
  IF \E i \in DOMAIN evidence : ToSet(evidence[i]) \cap text = {} THEN NoMatch
  ELSE [i \in DOMAIN evidence |-> SelectSeq(evidence[i], LAMBDA term : term \in text)[1]]

ContainsEvidence(text, evidence) == MatchedTerms(text, evidence) # NoMatch

AnswerTermMatches(results, gold, k) ==
  /\ gold.evidence # <<>>
  /\ \E c \in ToSet(Top(results, k)) :
       OverlapsGold(c, gold) /\ ContainsEvidence(c.text, gold.evidence)

\* Both ends of the window belong to it.
InWindow(f, gold) ==
  /\ f.video = gold.video
  /\ gold.start - FRAME_SAMPLE_EVERY_SEC <= f.sec
  /\ f.sec <= gold.end + FRAME_SAMPLE_EVERY_SEC

FramePasses(frames, gold, k) == \E f \in ToSet(Top(frames, k)) : InWindow(f, gold)

\* frame_ocr_matches_at_k.
FrameOcrMatches(frames, gold, k) ==
  /\ gold.evidence # <<>>
  /\ \E f \in ToSet(Top(frames, k)) :
       InWindow(f, gold) /\ ContainsEvidence(f.text, gold.evidence)

\* frame_ocr_grounding_at_k: every frame in the window is read, the first that
\* matches is the one reported.
FrameOcrGrounding(frames, gold, k) ==
  LET top == Top(frames, k)
      read == Picked(top, {i \in DOMAIN top : InWindow(top[i], gold)})
      matches == Picked(read, {i \in DOMAIN read : ContainsEvidence(read[i].text, gold.evidence)})
  IN [passed |-> matches # <<>>,
      evaluated |-> read,
      matched |-> IF matches = <<>> THEN NoMatch
                  ELSE MatchedTerms(matches[1].text, gold.evidence),
      failure |-> IF matches # <<>> THEN "none"
                  ELSE IF read = <<>> THEN "no_in_window_frame"
                  ELSE "ocr_no_terms_matched"]

\* A frame that cannot be read is not scored as a miss: the measurement raises.
OcrRaises(frames, gold, k) ==
  /\ gold.evidence # <<>>
  /\ \E f \in ToSet(Top(frames, k)) : InWindow(f, gold) /\ f.text = Unreadable

-----------------------------------------------------------------------------
\* measure_visual, for one example.

AnswerTermHit(results, gold, k) ==
  IF gold.evidence = <<>> THEN NotEvaluable ELSE <<AnswerTermMatches(results, gold, k)>>

AnswerGrounding(frames, gold, k) ==
  IF gold.evidence = <<>> THEN NotEvaluable ELSE <<FrameOcrGrounding(frames, gold, k)>>

\* The fusion with the visual channel against the one of the text channels.
VisualLift(with, without, gold, k) ==
  [with |-> Passes(Chunks(with), gold, k), without |-> Passes(Chunks(without), gold, k),
   term_with |-> AnswerTermHit(Chunks(with), gold, k),
   term_without |-> AnswerTermHit(Chunks(without), gold, k)]

MeasureVisual(found, frames, with, without, gold, k) ==
  [frame_pass |-> FramePasses(frames, gold, k),
   chunk_pass |-> Passes(found.visual, gold, k),
   term |-> AnswerTermHit(found.visual, gold, k),
   audit |-> AnswerGrounding(frames, gold, k),
   lift |-> VisualLift(with, without, gold, k)]

\* Rates, as numerators over n or n_evaluable; the lift in passes.
VisualSummary(rows) ==
  LET CountOf(Holds(_)) == Cardinality({i \in DOMAIN rows : Holds(rows[i].scores)}) IN
  [n |-> Len(rows),
   frame |-> CountOf(LAMBDA s : s.frame_pass),
   chunk |-> CountOf(LAMBDA s : s.chunk_pass),
   term_evaluable |-> CountOf(LAMBDA s : s.term # NotEvaluable),
   term |-> CountOf(LAMBDA s : s.term = <<TRUE>>),
   grounding_evaluable |-> CountOf(LAMBDA s : s.audit # NotEvaluable),
   grounded |-> CountOf(LAMBDA s : s.audit # NotEvaluable /\ s.audit[1].passed),
   lift |-> CountOf(LAMBDA s : s.lift.with) - CountOf(LAMBDA s : s.lift.without),
   term_lift |-> CountOf(LAMBDA s : s.lift.term_with = <<TRUE>>)
                 - CountOf(LAMBDA s : s.lift.term_without = <<TRUE>>)]
=============================================================================
