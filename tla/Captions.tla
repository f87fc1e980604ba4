------------------------------ MODULE Captions ------------------------------
(***************************************************************************)
(* What the chunkers work on: the cues parse_vtt returns for a transcript, *)
(* and the parameters of chunking.  A cue's text is the sequence of its    *)
(* words, each reduced to whether it ends on terminal punctuation; an      *)
(* empty sequence is a cue that roll-up de-duplication left without text.  *)
(* Times are integers.                                                     *)
(***************************************************************************)
EXTENDS Integers, Sequences, FiniteSets

CONSTANTS
  Transcripts,     \* what parse_vtt may return
  WINDOW_SEC,      \* window_sec of the fixed windows
  OVERLAP_SEC,     \* overlap_sec
  MAX_TRIM_WORDS,  \* _MAX_SNAP_TRIM_WORDS
  TARGET_SEC,      \* target_sec of the transcript segments
  MAX_TOKENS       \* max_tokens of both

Cues == [start : Nat, end : Nat, words : Seq(BOOLEAN)]

\* A cue ends after it starts.
ASSUME TranscriptsAssumption ==
  /\ Transcripts \subseteq Seq(Cues)
  /\ \A t \in Transcripts : \A k \in DOMAIN t : t[k].start < t[k].end
\* fixed_window.chunk raises a ValueError otherwise.
ASSUME OverlapAssumption ==
  OVERLAP_SEC \in Nat /\ WINDOW_SEC \in Nat /\ OVERLAP_SEC < WINDOW_SEC
ASSUME ParametersAssumption ==
  MAX_TRIM_WORDS \in Nat /\ TARGET_SEC \in Nat /\ MAX_TOKENS \in Nat \ {0}

\* The first and last of a set of cues.
FirstOf(ks) == CHOOSE k \in ks : \A l \in ks : k <= l
LastOf(ks) == CHOOSE k \in ks : \A l \in ks : k >= l

\* The word p of cue k is <<k, p>>, and the joined text of some cues of
\* transcript t is the set of their words, in this order.
Words(t, ks) == UNION {{<<k, p>> : p \in DOMAIN t[k].words} : k \in ks}
Before(a, b) == (a[1] < b[1]) \/ (a[1] = b[1] /\ a[2] < b[2])

\* A text up to a word, and its first n words.
UpTo(text, o) == {w \in text : ~Before(o, w)}
FirstWords(text, n) == {w \in text : Cardinality({q \in text : Before(q, w)}) < n}

\* The last word of a text that ends on terminal punctuation, if any.
LastStops(t, text) ==
  LET stops == {w \in text : t[w[1]].words[w[2]]}
  IN {o \in stops : \A q \in stops : ~Before(o, q)}

\* What a chunker emits: the cues it took and what it kept of their words.
\* The span is that of the cues.
ChunksOf(t) == [cues : SUBSET DOMAIN t, text : SUBSET Words(t, DOMAIN t)]
=============================================================================
