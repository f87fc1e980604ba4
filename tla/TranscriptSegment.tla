------------------------- MODULE TranscriptSegment -------------------------
(***************************************************************************)
(* chunking/transcript_segment.py: the sentence-aligned chunker, one cue   *)
(* per step.                                                               *)
(***************************************************************************)
EXTENDS Captions

VARIABLES
  cues,    \* the parsed transcript
  out,     \* chunks emitted so far
  done,    \* chunk() has returned
  next,    \* index of the next cue of the loop
  cur      \* indices of the cues of the open chunk

vars == <<cues, out, done, next, cur>>

Init ==
  /\ cues \in Transcripts
  /\ out = <<>> /\ done = FALSE
  /\ next = 1 /\ cur = {}

Blank(k) == cues[k].words = <<>>
EndsSentence(k) == LET w == cues[k].words IN w # <<>> /\ w[Len(w)]
Span(ks) == [start |-> cues[FirstOf(ks)].start, end |-> cues[LastOf(ks)].end]
Duration(ks) == Span(ks).end - Span(ks).start
Tokens(ks) == Cardinality(Words(cues, ks))

\* Bug: the text is not cut at the token limit.
ChunkUncut(ks) == [cues |-> ks, text |-> Words(cues, ks)]

\* flush(): the span of the cues, the first max_tokens of their words.
Chunk(ks) == [cues |-> ks, text |-> FirstWords(Words(cues, ks), MAX_TOKENS)]

\* The comprehension before the loop drops cues without text.
Skip ==
  /\ next <= Len(cues) /\ Blank(next)
  /\ next' = next + 1
  /\ UNCHANGED <<cues, out, done, cur>>

Closes(ks) ==
  \/ Duration(ks) >= TARGET_SEC /\ EndsSentence(LastOf(ks))
  \/ Tokens(ks) >= MAX_TOKENS

\* Bug: the cue that closes a chunk also opens the next one.
AppendOverlapping ==
  /\ next <= Len(cues) /\ ~Blank(next)
  /\ IF Closes(cur \cup {next})
     THEN out' = Append(out, Chunk(cur \cup {next})) /\ cur' = {next}
     ELSE cur' = cur \cup {next} /\ UNCHANGED out
  /\ next' = next + 1
  /\ UNCHANGED <<cues, done>>

\* Bug: flush does not clear the cues.
AppendUncleared ==
  /\ next <= Len(cues) /\ ~Blank(next)
  /\ IF Closes(cur \cup {next}) THEN out' = Append(out, Chunk(cur \cup {next})) ELSE UNCHANGED out
  /\ cur' = cur \cup {next}
  /\ next' = next + 1
  /\ UNCHANGED <<cues, done>>

\* The body of the loop.
AppendCue ==
  /\ next <= Len(cues) /\ ~Blank(next)
  /\ IF Closes(cur \cup {next})
     THEN out' = Append(out, Chunk(cur \cup {next})) /\ cur' = {}
     ELSE cur' = cur \cup {next} /\ UNCHANGED out
  /\ next' = next + 1
  /\ UNCHANGED <<cues, done>>

\* The flush after the loop.
Finish ==
  /\ next > Len(cues) /\ ~done
  /\ done' = TRUE
  /\ out' = IF cur = {} THEN out ELSE Append(out, Chunk(cur))
  /\ cur' = {}
  /\ UNCHANGED <<cues, next>>

Next == Skip \/ AppendCue \/ Finish

Spec == Init /\ [][Next]_vars

-----------------------------------------------------------------------------
\* Every cue with text that the loop has passed is in a chunk or in the open
\* one.
EveryCueKept ==
  \A k \in 1..(next - 1) :
    ~Blank(k) => k \in cur \/ \E c \in DOMAIN out : k \in out[c].cues

\* No cue is in two chunks, and the chunks follow the order of the
\* transcript.
ChunksInOrder ==
  /\ \A c \in DOMAIN out : \A k \in out[c].cues :
       k \in 1..(next - 1) /\ \A l \in cur : k < l
  /\ \A c, d \in DOMAIN out :
       c < d => \A k \in out[c].cues, l \in out[d].cues : k < l

\* The row satisfies CHECK (end_sec > start_sec), and no other chunk has its
\* natural key (video_id, strategy, start_sec, end_sec): unlike two windows, no
\* chunk replaces the row of another in the upsert.
RowsOfTheirOwn ==
  \A c \in DOMAIN out :
    /\ Span(out[c].cues).start < Span(out[c].cues).end
    /\ \A d \in DOMAIN out : c # d => Span(out[c].cues) # Span(out[d].cues)

\* The row satisfies CHECK (token_count <= 512), and what the force cut drops
\* are words of the chunk's last cue only.
LossIsBounded ==
  \A c \in DOMAIN out :
    /\ Cardinality(out[c].text) \in 1..MAX_TOKENS
    /\ \A w \in Words(cues, out[c].cues) \ out[c].text : w[1] = LastOf(out[c].cues)
=============================================================================
