---------------------------- MODULE FixedWindow ----------------------------
(***************************************************************************)
(* chunking/fixed_window.py: the production chunker, one window per step.  *)
(* A window collects the cues whose midpoint lies in it.                   *)
(***************************************************************************)
EXTENDS Captions

VARIABLES
  cues,         \* the parsed transcript
  out,          \* chunks emitted so far
  done,         \* chunk() has returned
  window_start  \* start of the next window

vars == <<cues, out, done, window_start>>

Init ==
  /\ cues \in Transcripts
  /\ out = <<>> /\ done = FALSE
  /\ window_start = 0

\* Bug: the overlap is added.
StrideAdded == WINDOW_SEC + OVERLAP_SEC
Stride == WINDOW_SEC - OVERLAP_SEC

\* in_window, by the midpoint (s + e) / 2.
InWindow ==
  {k \in DOMAIN cues : /\ 2 * window_start <= cues[k].start + cues[k].end
                       /\ cues[k].start + cues[k].end < 2 * (window_start + WINDOW_SEC)}

\* Bug: the trim is not bounded.
SnappedAlways(text) ==
  LET stops == LastStops(cues, text)
  IN IF stops = {} THEN {text} ELSE {UpTo(text, o) : o \in stops}

\* _snap_to_sentence: back to the last stop, if that drops few words.
Snapped(text) ==
  LET stops == LastStops(cues, text) IN
  IF \E o \in stops : Cardinality(text \ UpTo(text, o)) <= MAX_TRIM_WORDS
  THEN {UpTo(text, o) : o \in stops}
  ELSE {text}

\* _truncate_to_max_tokens: the last stop counts only if it lies in the last
\* tenth of the characters, which is left open here.
Truncated(text) ==
  LET kept == FirstWords(text, MAX_TOKENS) IN
  IF Cardinality(text) <= MAX_TOKENS
  THEN {text}
  ELSE {kept} \cup {UpTo(kept, o) : o \in LastStops(cues, kept)}

\* while window_start < transcript_end, the largest end of a cue.
More == \E k \in DOMAIN cues : window_start < cues[k].end

\* Bug: in_window[0][1] for in_window[-1][1].
SpanOfFirst(ks) == [start |-> cues[FirstOf(ks)].start, end |-> cues[FirstOf(ks)].end]
Span(ks) == [start |-> cues[FirstOf(ks)].start, end |-> cues[LastOf(ks)].end]

HasText(ks) == \E k \in ks : cues[k].words # <<>>

\* A window with text emits a chunk.
Emit ==
  /\ More
  /\ HasText(InWindow)
  /\ \E snapped \in Snapped(Words(cues, InWindow)) : \E text \in Truncated(snapped) :
       out' = Append(out, [cues |-> InWindow, text |-> text])
  /\ window_start' = window_start + Stride
  /\ UNCHANGED <<cues, done>>

\* A window without cues, or without text, does not.
Pass ==
  /\ More
  /\ ~HasText(InWindow)
  /\ window_start' = window_start + Stride
  /\ UNCHANGED <<cues, out, done>>

Finish ==
  /\ ~More /\ ~done
  /\ done' = TRUE
  /\ UNCHANGED <<cues, out, window_start>>

Next == Emit \/ Pass \/ Finish

Spec == Init /\ [][Next]_vars

-----------------------------------------------------------------------------
\* No speech falls between the windows: a cue with text whose midpoint lies
\* before the end of the last window is in some chunk.
EveryCueCovered ==
  \A k \in DOMAIN cues :
    /\ cues[k].words # <<>>
    /\ window_start > 0
    /\ cues[k].start + cues[k].end < 2 * (window_start + OVERLAP_SEC)
    => \E c \in DOMAIN out : k \in out[c].cues

\* When chunk() returns, that is every cue.
AllCuesCovered ==
  done => \A k \in DOMAIN cues :
            cues[k].words # <<>> /\ cues[k].end > 0 =>
              \E c \in DOMAIN out : k \in out[c].cues

\* (video_id, strategy, start_sec, end_sec) is the natural key of the chunks
\* table.  Two windows may emit the same key, and the second upsert replaces
\* the first row, but then it holds the same cues.
SameKeySameCues ==
  \A c, d \in DOMAIN out :
    Span(out[c].cues) = Span(out[d].cues) => out[c].cues = out[d].cues

\* The chunk's row satisfies the CHECKs of the table, and its text is what
\* its span says up to at most _MAX_SNAP_TRIM_WORDS words at the end, unless
\* the token limit cuts it.
RowsAreAccepted ==
  \A c \in DOMAIN out :
    LET said == Words(cues, out[c].cues) IN
    /\ Span(out[c].cues).start < Span(out[c].cues).end
    /\ Cardinality(out[c].text) \in 1..MAX_TOKENS
    /\ \A w \in out[c].text : UpTo(said, w) \subseteq out[c].text
    /\ \/ Cardinality(said \ out[c].text) <= MAX_TRIM_WORDS
       \/ Cardinality(said) > MAX_TOKENS
=============================================================================
