--------------------------- MODULE ChunkingProofs ---------------------------
(***************************************************************************)
(* Proofs about Chunking and TranscriptChunks for every transcript, every  *)
(* caption file and every value of the parameters: the windows leave no    *)
(* speech out, the segments partition it, the chunks of captions in the    *)
(* order of time are rows the table takes, and what roll-up captions show  *)
(* is heard once.                                                          *)
(***************************************************************************)
EXTENDS TranscriptChunks, FiniteSetTheorems, WellFoundedInduction, TLAPS

\* What a cue and the stride are.
LEMMA CueFacts ==
  ASSUME cues \in Transcripts, NEW k \in DOMAIN cues
  PROVE  /\ cues[k].start \in Nat /\ cues[k].end \in Nat
         /\ cues[k].start < cues[k].end
<1>1. cues \in Seq(Cues)
  BY TranscriptsAssumption
<1>2. cues[k] \in Cues
  BY <1>1
<1>3. cues[k].start < cues[k].end
  BY TranscriptsAssumption
<1> QED BY <1>2, <1>3 DEF Cues

\* Windows advance: their overlap is less than their size.
LEMMA StrideIsPositive == FW!Stride \in Nat /\ FW!Stride > 0
  BY OverlapAssumption DEF FW!Stride

\* What a window's text is cut to is part of the talk.
LEMMA WindowText ==
  ASSUME NEW snapped \in FW!Snapped(FW!Words(cues, FW!InWindow)),
         NEW text \in FW!Truncated(snapped)
  PROVE  [cues |-> FW!InWindow, text |-> text] \in ChunksOf(cues)
<1>1. FW!InWindow \subseteq DOMAIN cues
  BY DEF FW!InWindow
<1>2. FW!Words(cues, FW!InWindow) \subseteq Words(cues, DOMAIN cues)
  BY <1>1 DEF FW!Words, Words
<1>3. snapped \subseteq FW!Words(cues, FW!InWindow)
  BY DEF FW!Snapped, FW!UpTo
<1>4. text \subseteq snapped
  BY DEF FW!Truncated, FW!UpTo, FW!FirstWords
<1> QED BY <1>1, <1>2, <1>3, <1>4 DEF ChunksOf

\* So is a segment's.
LEMMA SegmentText ==
  ASSUME NEW ks \in SUBSET DOMAIN cues
  PROVE  TS!Chunk(ks) \in ChunksOf(cues)
<1>1. TS!Words(cues, ks) \subseteq Words(cues, DOMAIN cues)
  BY DEF TS!Words, Words
<1>2. TS!FirstWords(TS!Words(cues, ks), MAX_TOKENS) \subseteq TS!Words(cues, ks)
  BY DEF TS!FirstWords
<1> QED BY <1>1, <1>2 DEF ChunksOf, TS!Chunk

\* Chunks keep their type under both chunkers, and the indices theirs.
THEOREM TypeCorrect == Spec => []TypeOK
<1>1. Init => TypeOK
  <2> SUFFICES ASSUME Init PROVE TypeOK
    OBVIOUS
  <2>1. <<>> \in Seq(ChunksOf(cues))
    OBVIOUS
  <2>2. cues \in Transcripts /\ out \in Seq(ChunksOf(cues))
    BY <2>1 DEF Init, FW!Init
  <2>3. done \in BOOLEAN /\ cur \subseteq DOMAIN cues
    BY DEF Init, FW!Init, TS!Init
  <2>4. window_start \in Nat /\ next \in Nat \ {0}
    BY DEF Init, FW!Init, TS!Init
  <2> QED BY <2>2, <2>3, <2>4 DEF Init, TypeOK
<1>2. TypeOK /\ [Next]_vars => TypeOK'
  <2> SUFFICES ASSUME TypeOK, [Next]_vars PROVE TypeOK'
    OBVIOUS
  <2> USE DEF TypeOK
  <2>1. ASSUME ByWindow, FW!Emit PROVE TypeOK'
    <3>1. PICK snapped \in FW!Snapped(FW!Words(cues, FW!InWindow)) :
            \E text \in FW!Truncated(snapped) :
              out' = Append(out, [cues |-> FW!InWindow, text |-> text])
      BY <2>1 DEF FW!Emit
    <3>2. PICK text \in FW!Truncated(snapped) :
            out' = Append(out, [cues |-> FW!InWindow, text |-> text])
      BY <3>1
    <3>3. [cues |-> FW!InWindow, text |-> text] \in ChunksOf(cues)
      BY WindowText
    <3>4. out' \in Seq(ChunksOf(cues)) /\ UNCHANGED cues
      BY <2>1, <3>2, <3>3 DEF FW!Emit
    <3>5. (out \in Seq(ChunksOf(cues)))'
      BY <3>4 DEF ChunksOf, Words
    <3> QED BY <2>1, <3>5, StrideIsPositive DEF ByWindow, FW!Emit
  <2>2. ASSUME ByWindow, FW!Pass \/ FW!Finish PROVE TypeOK'
    <3>1. UNCHANGED <<cues, out>>
      BY <2>2 DEF FW!Pass, FW!Finish
    <3>2. (out \in Seq(ChunksOf(cues)))'
      BY <3>1 DEF ChunksOf, Words
    <3>3. done' \in BOOLEAN
      BY <2>2, Zenon DEF FW!Pass, FW!Finish
    <3>4. window_start' \in Nat
      BY <2>2, StrideIsPositive DEF FW!Pass, FW!Finish
    <3>5. UNCHANGED <<strategy, next, cur>>
      BY <2>2 DEF ByWindow
    <3> QED BY <3>1, <3>2, <3>3, <3>4, <3>5
  <2>3. ASSUME BySentence PROVE TypeOK'
    <3>1. UNCHANGED cues
      BY <2>3 DEF BySentence, TS!Next, TS!Skip, TS!AppendCue, TS!Finish
    <3>2. next \in DOMAIN cues => cur \cup {next} \in SUBSET DOMAIN cues
      OBVIOUS
    <3>3. next <= Len(cues) => next \in DOMAIN cues
      BY TranscriptsAssumption
    <3>4. \/ UNCHANGED out
          \/ out' = Append(out, TS!Chunk(cur))
          \/ next \in DOMAIN cues /\ out' = Append(out, TS!Chunk(cur \cup {next}))
      BY <2>3, <3>3 DEF BySentence, TS!Next, TS!Skip, TS!AppendCue, TS!Finish
    <3>5. out' \in Seq(ChunksOf(cues))
      BY <3>2, <3>4, SegmentText
    <3>6. (out \in Seq(ChunksOf(cues)))'
      BY <3>1, <3>5 DEF ChunksOf, Words
    <3>7. next' \in Nat \ {0} /\ cur' \subseteq DOMAIN cues
      BY <2>3, <3>2, <3>3
      DEF BySentence, TS!Next, TS!Skip, TS!AppendCue, TS!Finish
    <3>8. done' \in BOOLEAN
      BY <2>3, Zenon DEF BySentence, TS!Next, TS!Skip, TS!AppendCue, TS!Finish
    <3>9. UNCHANGED <<strategy, window_start>>
      BY <2>3 DEF BySentence
    <3> QED BY <3>1, <3>6, <3>7, <3>8, <3>9
  <2>4. CASE UNCHANGED vars
    <3>1. (out \in Seq(ChunksOf(cues)))'
      BY <2>4 DEF vars, ChunksOf, Words
    <3> QED BY <2>4, <3>1 DEF vars
  <2> QED BY <2>1, <2>2, <2>3, <2>4 DEF Next, ByWindow, FW!Next
<1> QED BY <1>1, <1>2, PTL DEF Spec

-----------------------------------------------------------------------------
\* Nothing is behind the first window.
LEMMA WindowsCoverInit == Init => WindowsCover
<1> SUFFICES ASSUME Init PROVE WindowsCover
  OBVIOUS
<1>1. window_start = 0 /\ ~done
  BY Zenon DEF Init, FW!Init
<1>2. FW!EveryCueCovered
  BY <1>1 DEF FW!EveryCueCovered
<1>3. FW!AllCuesCovered
  BY <1>1 DEF FW!AllCuesCovered
<1> QED BY <1>2, <1>3 DEF WindowsCover

\* A window that moves on leaves no cue behind: those that lie before the
\* next window's end were in an earlier chunk or are in the one emitted.
LEMMA WindowMovesOn ==
  ASSUME TypeOK, FW!EveryCueCovered, UNCHANGED cues,
         window_start' = window_start + FW!Stride,
         \A c \in DOMAIN out : c \in DOMAIN out' /\ out'[c].cues = out[c].cues,
         \A k \in FW!InWindow :
           cues[k].words # <<>> => \E c \in DOMAIN out' : k \in out'[c].cues
  PROVE  FW!EveryCueCovered'
<1> SUFFICES ASSUME NEW k \in DOMAIN cues,
                    cues[k].words # <<>>,
                    window_start' > 0,
                    cues[k].start + cues[k].end < 2 * (window_start' + OVERLAP_SEC)
             PROVE  \E c \in DOMAIN out' : k \in out'[c].cues
  BY DEF FW!EveryCueCovered
<1>1. cues[k].start \in Nat /\ cues[k].end \in Nat
  BY CueFacts DEF TypeOK
<1>2. cues[k].start + cues[k].end < 2 * (window_start + WINDOW_SEC)
  BY <1>1, OverlapAssumption DEF FW!Stride, TypeOK
<1>3. CASE 2 * window_start <= cues[k].start + cues[k].end
  <2>1. k \in FW!InWindow
    BY <1>2, <1>3 DEF FW!InWindow
  <2> QED BY <2>1
<1>4. CASE ~(2 * window_start <= cues[k].start + cues[k].end)
  <2>1. /\ window_start > 0
        /\ cues[k].start + cues[k].end < 2 * (window_start + OVERLAP_SEC)
    BY <1>1, <1>4, OverlapAssumption DEF TypeOK
  <2>2. PICK c \in DOMAIN out : k \in out[c].cues
    BY <2>1 DEF FW!EveryCueCovered
  <2> QED BY <2>2
<1> QED BY <1>3, <1>4

\* No speech falls between the windows: chunk() of fixed_window.py returns
\* with every cue that has text in some chunk, whatever the window and the
\* overlap, because a window reaches OVERLAP_SEC beyond the start of the next.
THEOREM WindowsLeaveNothing == Spec => []WindowsCover
<1>1. Init => WindowsCover
  BY WindowsCoverInit
<1>2. TypeOK /\ WindowsCover /\ [Next]_vars => WindowsCover'
  <2> SUFFICES ASSUME TypeOK, WindowsCover, [Next]_vars, strategy' = FIXED_WINDOW
               PROVE  FW!EveryCueCovered' /\ FW!AllCuesCovered'
    BY DEF WindowsCover
  <2>0. strategy = FIXED_WINDOW
    BY DEF Next, ByWindow, BySentence, vars
  <2>00. FW!EveryCueCovered /\ FW!AllCuesCovered
    BY <2>0 DEF WindowsCover
  <2>1. ASSUME FW!Emit PROVE FW!EveryCueCovered' /\ FW!AllCuesCovered'
    <3>1. PICK snapped \in FW!Snapped(FW!Words(cues, FW!InWindow)) :
            \E text \in FW!Truncated(snapped) :
              out' = Append(out, [cues |-> FW!InWindow, text |-> text])
      BY <2>1 DEF FW!Emit
    <3>2. PICK text \in FW!Truncated(snapped) :
            out' = Append(out, [cues |-> FW!InWindow, text |-> text])
      BY <3>1
    <3>3. out \in Seq(ChunksOf(cues))
      BY DEF TypeOK
    <3>4. \A c \in DOMAIN out : c \in DOMAIN out' /\ out'[c].cues = out[c].cues
      BY <3>2, <3>3
    <3>5. \A k \in FW!InWindow : \E c \in DOMAIN out' : k \in out'[c].cues
      <4>1. /\ Len(out) + 1 \in DOMAIN out'
            /\ out'[Len(out) + 1].cues = FW!InWindow
        BY <3>2, <3>3
      <4> QED BY <4>1
    <3>6. FW!EveryCueCovered'
      BY <2>1, <2>00, <3>4, <3>5, WindowMovesOn DEF FW!Emit
    <3>7. FW!AllCuesCovered'
      BY <2>1, <2>00, <3>4 DEF FW!AllCuesCovered, FW!Emit
    <3> QED BY <3>6, <3>7
  <2>2. ASSUME FW!Pass PROVE FW!EveryCueCovered' /\ FW!AllCuesCovered'
    <3>1. \A k \in FW!InWindow : cues[k].words = <<>>
      BY <2>2 DEF FW!Pass, FW!HasText
    <3>2. \A c \in DOMAIN out : c \in DOMAIN out' /\ out'[c].cues = out[c].cues
      BY <2>2 DEF FW!Pass
    <3>3. FW!EveryCueCovered'
      BY <2>2, <2>00, <3>1, <3>2, WindowMovesOn DEF FW!Pass
    <3>4. FW!AllCuesCovered'
      BY <2>2, <2>00 DEF FW!AllCuesCovered, FW!Pass
    <3> QED BY <3>3, <3>4
  <2>3. ASSUME FW!Finish PROVE FW!EveryCueCovered' /\ FW!AllCuesCovered'
    <3>1. FW!EveryCueCovered'
      BY <2>3, <2>00 DEF FW!EveryCueCovered, FW!Finish
    <3>2. \A k \in DOMAIN cues :
            cues[k].words # <<>> => \E c \in DOMAIN out : k \in out[c].cues
      <4> SUFFICES ASSUME NEW k \in DOMAIN cues, cues[k].words # <<>>
                   PROVE  \E c \in DOMAIN out : k \in out[c].cues
        OBVIOUS
      <4>1. /\ cues[k].start \in Nat /\ cues[k].end \in Nat
            /\ cues[k].start < cues[k].end
        BY CueFacts DEF TypeOK
      <4>2. window_start >= cues[k].end
        BY <2>3, <4>1 DEF FW!Finish, FW!More, TypeOK
      <4>3. /\ window_start > 0
            /\ cues[k].start + cues[k].end < 2 * (window_start + OVERLAP_SEC)
        BY <4>1, <4>2, OverlapAssumption DEF TypeOK
      <4> QED BY <2>00, <4>3 DEF FW!EveryCueCovered
    <3>3. FW!AllCuesCovered'
      BY <2>3, <3>2 DEF FW!AllCuesCovered, FW!Finish
    <3> QED BY <3>1, <3>3
  <2>4. CASE UNCHANGED vars
    BY <2>4, <2>00 DEF vars, FW!EveryCueCovered, FW!AllCuesCovered
  <2>5. ByWindow \/ UNCHANGED vars
    BY <2>0 DEF Next, BySentence, FIXED_WINDOW, TRANSCRIPT_SEGMENT
  <2> QED BY <2>1, <2>2, <2>3, <2>4, <2>5 DEF ByWindow, FW!Next
<1>3. Spec => []TypeOK
  BY TypeCorrect
<1> QED BY <1>1, <1>2, <1>3, PTL DEF Spec

-----------------------------------------------------------------------------
\* No cue of the open segment lies ahead of the loop.
OpenIsPast == strategy = TRANSCRIPT_SEGMENT => cur \subseteq 1..(next - 1)

Partition == SentencesPartition /\ OpenIsPast

\* Emitting the open cues, and opening others that the loop has passed,
\* keeps the partition.
LEMMA SegmentCloses ==
  ASSUME TypeOK, TS!EveryCueKept, TS!ChunksInOrder,
         NEW ks \in SUBSET DOMAIN cues,
         cur \subseteq ks,
         \A k \in ks : k \in cur \/ k >= next,
         next' \in Nat, next' >= next,
         \A k \in ks : k < next',
         \A k \in 1..(next' - 1) : ~TS!Blank(k) => k < next \/ k \in ks,
         out' = Append(out, TS!Chunk(ks)), cur' = {}, UNCHANGED cues,
         cur \subseteq 1..(next - 1)
  PROVE  TS!EveryCueKept' /\ TS!ChunksInOrder'
<1>1. out \in Seq(ChunksOf(cues))
  BY DEF TypeOK
<1>2. /\ DOMAIN out' = DOMAIN out \cup {Len(out) + 1}
      /\ \A c \in DOMAIN out : out'[c] = out[c] /\ c < Len(out) + 1
      /\ out'[Len(out) + 1].cues = ks
  BY <1>1 DEF TS!Chunk
<1>3. next \in Nat \ {0} /\ next' \in Nat
  BY DEF TypeOK
<1>4. TS!EveryCueKept'
  <2> SUFFICES ASSUME NEW k \in 1..(next' - 1), cues[k].words # <<>>
               PROVE  \E c \in DOMAIN out' : k \in out'[c].cues
    BY DEF TS!EveryCueKept, TS!Blank
  <2>1. k < next \/ k \in ks
    BY DEF TS!Blank
  <2>2. CASE k \in ks
    BY <1>2, <2>2
  <2>3. CASE k < next /\ k \notin ks
    <3>1. PICK c \in DOMAIN out : k \in out[c].cues
      BY <1>3, <2>3 DEF TS!EveryCueKept, TS!Blank
    <3> QED BY <1>2, <3>1
  <2> QED BY <2>1, <2>2, <2>3
<1>5. \A c \in DOMAIN out' : \A k \in out'[c].cues : k \in 1..(next' - 1)
  <2> SUFFICES ASSUME NEW c \in DOMAIN out', NEW k \in out'[c].cues
               PROVE  k \in 1..(next' - 1)
    OBVIOUS
  <2>1. CASE c \in DOMAIN out
    BY <1>2, <1>3, <2>1 DEF TS!ChunksInOrder
  <2>2. CASE c = Len(out) + 1
    <3>1. k \in DOMAIN cues /\ k < next'
      BY <1>2, <2>2
    <3>2. k \in Nat \ {0}
      BY <3>1, TranscriptsAssumption DEF TypeOK
    <3> QED BY <1>3, <3>1, <3>2
  <2> QED BY <1>2, <2>1, <2>2
<1>6. \A c, d \in DOMAIN out' :
        c < d => \A k \in out'[c].cues, l \in out'[d].cues : k < l
  <2> SUFFICES ASSUME NEW c \in DOMAIN out', NEW d \in DOMAIN out', c < d,
                      NEW k \in out'[c].cues, NEW l \in out'[d].cues
               PROVE  k < l
    OBVIOUS
  <2>0. c \in DOMAIN out
    BY <1>1, <1>2
  <2>1. CASE d \in DOMAIN out
    BY <1>2, <2>0, <2>1 DEF TS!ChunksInOrder
  <2>2. CASE d = Len(out) + 1
    <3>1. l \in ks /\ k \in out[c].cues
      BY <1>2, <2>0, <2>2
    <3>2. CASE l \in cur
      BY <2>0, <3>1, <3>2 DEF TS!ChunksInOrder
    <3>3. CASE l >= next
      <4>1. k \in 1..(next - 1)
        BY <2>0, <3>1 DEF TS!ChunksInOrder
      <4>2. l \in Int
        BY <3>1, TranscriptsAssumption DEF TypeOK
      <4> QED BY <1>3, <3>3, <4>1, <4>2
    <3> QED BY <3>1, <3>2, <3>3
  <2> QED BY <1>2, <2>1, <2>2
<1> QED BY <1>4, <1>5, <1>6 DEF TS!ChunksInOrder

\* transcript_segment.py puts every cue with text into exactly one chunk, in
\* the order of the transcript: the invariant adds that the open chunk only
\* holds cues the loop has passed.
THEOREM SegmentsPartition == Spec => []SentencesPartition
<1>1. Init => Partition
  <2> SUFFICES ASSUME Init PROVE Partition
    OBVIOUS
  <2>1. out = <<>> /\ next = 1 /\ cur = {}
    BY DEF Init, TS!Init
  <2> QED BY <2>1
      DEF Partition, SentencesPartition, OpenIsPast, TS!EveryCueKept, TS!ChunksInOrder
<1>2. TypeOK /\ Partition /\ [Next]_vars => Partition'
  <2> SUFFICES ASSUME TypeOK, Partition, [Next]_vars,
                      strategy' = TRANSCRIPT_SEGMENT
               PROVE  /\ TS!EveryCueKept' /\ TS!ChunksInOrder'
                      /\ cur' \subseteq 1..(next' - 1)
    BY DEF Partition, SentencesPartition, OpenIsPast
  <2>0. strategy = TRANSCRIPT_SEGMENT
    BY DEF Next, ByWindow, BySentence, vars
  <2>1. TS!EveryCueKept /\ TS!ChunksInOrder /\ cur \subseteq 1..(next - 1)
    BY <2>0 DEF Partition, SentencesPartition, OpenIsPast
  <2>2. next \in Nat \ {0} /\ cur \in SUBSET DOMAIN cues
    BY DEF TypeOK
  <2>3. next <= Len(cues) => next \in DOMAIN cues
    BY TranscriptsAssumption DEF TypeOK
  <2>4. ASSUME TS!Skip
        PROVE  /\ TS!EveryCueKept' /\ TS!ChunksInOrder'
               /\ cur' \subseteq 1..(next' - 1)
    BY <2>1, <2>2, <2>4
    DEF TS!Skip, TS!Blank, TS!EveryCueKept, TS!ChunksInOrder
  <2>5. ASSUME TS!AppendCue
        PROVE  /\ TS!EveryCueKept' /\ TS!ChunksInOrder'
               /\ cur' \subseteq 1..(next' - 1)
    <3>1. next' = next + 1 /\ UNCHANGED cues /\ next \in DOMAIN cues
      BY <2>3, <2>5 DEF TS!AppendCue
    <3>2. CASE TS!Closes(cur \cup {next})
      <4>1. out' = Append(out, TS!Chunk(cur \cup {next})) /\ cur' = {}
        BY <2>5, <3>2 DEF TS!AppendCue
      <4>2. TS!EveryCueKept' /\ TS!ChunksInOrder'
        BY <2>1, <2>2, <3>1, <4>1, SegmentCloses
      <4> QED BY <4>1, <4>2
    <3>3. CASE ~TS!Closes(cur \cup {next})
      <4>1. cur' = cur \cup {next} /\ UNCHANGED out
        BY <2>5, <3>3 DEF TS!AppendCue
      <4>2. TS!EveryCueKept'
        BY <2>1, <2>2, <3>1, <4>1 DEF TS!EveryCueKept, TS!Blank
      <4>3. TS!ChunksInOrder'
        BY <2>1, <2>2, <3>1, <4>1 DEF TS!ChunksInOrder
      <4> QED BY <2>1, <2>2, <3>1, <4>1, <4>2, <4>3
    <3> QED BY <3>2, <3>3
  <2>6. ASSUME TS!Finish
        PROVE  /\ TS!EveryCueKept' /\ TS!ChunksInOrder'
               /\ cur' \subseteq 1..(next' - 1)
    <3>1. UNCHANGED <<cues, next>> /\ cur' = {}
      BY <2>6 DEF TS!Finish
    <3>2. CASE cur = {}
      <4>1. UNCHANGED out
        BY <2>6, <3>2 DEF TS!Finish
      <4> QED BY <2>1, <3>1, <3>2, <4>1
          DEF TS!EveryCueKept, TS!Blank, TS!ChunksInOrder
    <3>3. CASE cur # {}
      <4>1. out' = Append(out, TS!Chunk(cur))
        BY <2>6, <3>3 DEF TS!Finish
      <4>2. TS!EveryCueKept' /\ TS!ChunksInOrder'
        BY <2>1, <2>2, <3>1, <4>1, SegmentCloses
      <4> QED BY <3>1, <4>2
    <3> QED BY <3>2, <3>3
  <2>7. CASE UNCHANGED vars
    BY <2>1, <2>7 DEF vars, TS!EveryCueKept, TS!Blank, TS!ChunksInOrder
  <2>8. BySentence \/ UNCHANGED vars
    BY <2>0 DEF Next, ByWindow, FIXED_WINDOW, TRANSCRIPT_SEGMENT
  <2> QED BY <2>4, <2>5, <2>6, <2>7, <2>8 DEF BySentence, TS!Next
<1>3. Partition => SentencesPartition
  BY DEF Partition
<1>4. Spec => []TypeOK
  BY TypeCorrect
<1> QED BY <1>1, <1>2, <1>3, <1>4, PTL DEF Spec

-----------------------------------------------------------------------------
\* First and last elements.

\* A finite set that a relation orders has a last element: a smallest subset
\* without one would still lack it when one of its elements is taken away.
LEMMA LastElement ==
  ASSUME NEW S, IsFiniteSet(S), S # {}, NEW R,
         \A x, y \in S : x = y \/ <<x, y>> \in R \/ <<y, x>> \in R,
         \A x, y, z \in S : <<x, y>> \in R /\ <<y, z>> \in R => <<x, z>> \in R
  PROVE  \E m \in S : \A x \in S : x = m \/ <<x, m>> \in R
<1> DEFINE Bad == {T \in SUBSET S : T # {} /\ ~\E m \in T : \A x \in T : x = m \/ <<x, m>> \in R}
           Smaller == StrictSubsetOrdering(S)
<1> SUFFICES ASSUME Bad # {}  PROVE FALSE
  OBVIOUS
<1>1. IsWellFoundedOn(Smaller, SUBSET S)
  BY ONLY IsFiniteSet(S), FS_StrictSubsetOrderingWellFounded, FS_FiniteSubsetsOfFinite
<1>2. Bad \subseteq SUBSET S
  OBVIOUS
<1> HIDE DEF Smaller
<1>3. PICK T \in Bad : \A U \in Bad : ~(<<U, T>> \in Smaller)
  <2> HIDE DEF Bad
  <2> QED
    BY ONLY <1>1, <1>2, Bad # {}, WFMin
<1>4. PICK c \in T : TRUE
  BY <1>3
<1>5. T \ {c} # {}
  BY <1>3, <1>4
<1>6. <<T \ {c}, T>> \in Smaller
  BY <1>3, <1>4 DEF Smaller, StrictSubsetOrdering
<1>7. PICK f \in T \ {c} : \A x \in T \ {c} : x = f \/ <<x, f>> \in R
  BY <1>3, <1>5, <1>6
<1>8. c \in S /\ f \in S /\ T \subseteq S
  BY <1>3, <1>4, <1>7
<1>9. CASE <<c, f>> \in R
  BY <1>3, <1>7, <1>9
<1>10. CASE <<f, c>> \in R
  <2>1. \A x \in T : x = c \/ <<x, c>> \in R
    BY <1>7, <1>8, <1>10
  <2> QED
    BY <1>3, <1>4, <2>1
<1> QED
  BY <1>7, <1>8, <1>9, <1>10

\* The first and last cue of a chunk.
LEMMA EdgeFacts ==
  ASSUME cues \in Transcripts, NEW ks \in SUBSET DOMAIN cues, ks # {}
  PROVE  /\ FirstOf(ks) \in ks /\ \A k \in ks : FirstOf(ks) <= k
         /\ LastOf(ks) \in ks /\ \A k \in ks : LastOf(ks) >= k
<1>1. cues \in Seq(Cues) /\ Len(cues) \in Nat /\ DOMAIN cues = 1..Len(cues)
  BY TranscriptsAssumption
<1>2. IsFiniteSet(ks) /\ ks \subseteq Int
  <2>1. IsFiniteSet(1..Len(cues))
    BY <1>1, FS_Interval
  <2>2. ks \in SUBSET (1..Len(cues))
    BY <1>1
  <2>3. IsFiniteSet(ks)
    BY ONLY <2>1, <2>2, FS_Subset
  <2>4. \A k \in 1..Len(cues) : k \in Int
    OBVIOUS
  <2> QED
    BY ONLY <2>2, <2>3, <2>4
<1>3. \E m \in ks : \A k \in ks : m >= k
  <2> DEFINE R == {r \in ks \X ks : r[1] < r[2]}
  <2>1. \A x, y \in ks : <<x, y>> \in R <=> x < y
    OBVIOUS
  <2> HIDE DEF R
  <2>2. /\ \A x, y \in ks : x = y \/ <<x, y>> \in R \/ <<y, x>> \in R
        /\ \A x, y, z \in ks : <<x, y>> \in R /\ <<y, z>> \in R => <<x, z>> \in R
    BY ONLY <1>2, <2>1
  <2>3. PICK m \in ks : \A x \in ks : x = m \/ <<x, m>> \in R
    BY ONLY ks # {}, <1>2, <2>2, LastElement
  <2>4. ASSUME NEW k \in ks  PROVE m >= k
    <3>1. k \in Int /\ m \in Int
      BY ONLY <1>2, <2>3, k \in ks
    <3>2. k = m \/ k < m
      BY ONLY <2>1, <2>3, k \in ks
    <3> QED
      BY ONLY <3>1, <3>2
  <2> QED
    BY ONLY <2>3, <2>4
<1>4. \E m \in ks : \A k \in ks : m <= k
  <2> DEFINE R == {r \in ks \X ks : r[2] < r[1]}
  <2>1. \A x, y \in ks : <<x, y>> \in R <=> y < x
    OBVIOUS
  <2> HIDE DEF R
  <2>2. /\ \A x, y \in ks : x = y \/ <<x, y>> \in R \/ <<y, x>> \in R
        /\ \A x, y, z \in ks : <<x, y>> \in R /\ <<y, z>> \in R => <<x, z>> \in R
    BY ONLY <1>2, <2>1
  <2>3. PICK m \in ks : \A x \in ks : x = m \/ <<x, m>> \in R
    BY ONLY ks # {}, <1>2, <2>2, LastElement
  <2>4. ASSUME NEW k \in ks  PROVE m <= k
    <3>1. k \in Int /\ m \in Int
      BY ONLY <1>2, <2>3, k \in ks
    <3>2. k = m \/ m < k
      BY ONLY <2>1, <2>3, k \in ks
    <3> QED
      BY ONLY <3>1, <3>2
  <2> QED
    BY ONLY <2>3, <2>4
<1> QED
  BY <1>3, <1>4 DEF FirstOf, LastOf

-----------------------------------------------------------------------------
\* Texts: finite sets of places of words, in the order of the transcript.

\* Counting is the same in either chunker's module.
LEMMA SameCardinality ==
  \A S : FW!Cardinality(S) = Cardinality(S) /\ TS!Cardinality(S) = Cardinality(S)
<1>1. \A S : FW!Cardinality(S) = Cardinality(S)
  BY DEF FW!Cardinality, Cardinality
<1>2. \A S : TS!Cardinality(S) = Cardinality(S)
  BY DEF TS!Cardinality, Cardinality
<1> QED
  BY <1>1, <1>2

IsText(text) == IsFiniteSet(text) /\ text \in SUBSET (Nat \X Nat)

\* Places are ordered.
LEMMA BeforeOrders ==
  ASSUME NEW a \in Nat \X Nat, NEW b \in Nat \X Nat, NEW c \in Nat \X Nat
  PROVE  /\ ~Before(a, a)
         /\ a = b \/ Before(a, b) \/ Before(b, a)
         /\ Before(a, b) => ~Before(b, a)
         /\ Before(a, b) /\ Before(b, c) => Before(a, c)
  BY DEF Before

\* A part of a text is a text, and no longer.
LEMMA TextParts ==
  ASSUME NEW text, IsText(text), NEW part \in SUBSET text
  PROVE  /\ IsText(part) /\ Cardinality(part) \in Nat /\ Cardinality(text) \in Nat
         /\ Cardinality(part) <= Cardinality(text)
         /\ part # {} => Cardinality(part) >= 1
<1>1. IsFiniteSet(text)
  BY DEF IsText
<1>2. IsFiniteSet(part) /\ Cardinality(part) <= Cardinality(text)
  BY <1>1, FS_Subset
<1>3. Cardinality(part) \in Nat /\ Cardinality(text) \in Nat
  BY <1>1, <1>2, FS_CardinalityType
<1>4. part # {} => Cardinality(part) # 0
  BY <1>2, FS_EmptySet
<1>5. part \in SUBSET (Nat \X Nat)
  BY DEF IsText
<1> QED
  BY <1>2, <1>3, <1>4, <1>5 DEF IsText

\* A text that is not empty has a first and a last word.
LEMMA EndsOfText ==
  ASSUME NEW text, IsText(text), text # {}
  PROVE  /\ \E o \in text : \A q \in text : q = o \/ Before(q, o)
         /\ \E o \in text : \A q \in text : q = o \/ Before(o, q)
<1>1. IsFiniteSet(text) /\ \A a \in text : a \in Nat \X Nat
  BY DEF IsText
<1>2. \E o \in text : \A q \in text : q = o \/ Before(q, o)
  <2> DEFINE R == {r \in text \X text : Before(r[1], r[2])}
  <2>1. \A x, y \in text : <<x, y>> \in R <=> Before(x, y)
    BY DEF Before
  <2> HIDE DEF R
  <2>2. /\ \A x, y \in text : x = y \/ <<x, y>> \in R \/ <<y, x>> \in R
        /\ \A x, y, z \in text : <<x, y>> \in R /\ <<y, z>> \in R => <<x, z>> \in R
    BY ONLY <1>1, <2>1, BeforeOrders
  <2>3. PICK m \in text : \A x \in text : x = m \/ <<x, m>> \in R
    BY ONLY text # {}, <1>1, <2>2, LastElement
  <2> QED
    BY <2>1, <2>3
<1>3. \E o \in text : \A q \in text : q = o \/ Before(o, q)
  <2> DEFINE R == {r \in text \X text : Before(r[2], r[1])}
  <2>1. \A x, y \in text : <<x, y>> \in R <=> Before(y, x)
    BY DEF Before
  <2> HIDE DEF R
  <2>2. /\ \A x, y \in text : x = y \/ <<x, y>> \in R \/ <<y, x>> \in R
        /\ \A x, y, z \in text : <<x, y>> \in R /\ <<y, z>> \in R => <<x, z>> \in R
    BY ONLY <1>1, <2>1, BeforeOrders
  <2>3. PICK m \in text : \A x \in text : x = m \/ <<x, m>> \in R
    BY ONLY text # {}, <1>1, <2>2, LastElement
  <2> QED
    BY <2>1, <2>3
<1> QED
  BY <1>2, <1>3

\* A part of a text that nothing is missing from before its end.
Starts(part, text) == part \subseteq text /\ \A w \in part : UpTo(text, w) \subseteq part

\* Up to a word is a start of a text, and a start of a start is a start.
LEMMA UpToStarts ==
  ASSUME NEW text, IsText(text), NEW o \in text
  PROVE  Starts(UpTo(text, o), text) /\ o \in UpTo(text, o)
<1>1. \A a \in text : a \in Nat \X Nat
  BY DEF IsText
<1>2. o \in UpTo(text, o)
  BY <1>1, BeforeOrders DEF UpTo
<1>3. ASSUME NEW w \in UpTo(text, o), NEW v \in UpTo(text, w)
      PROVE  v \in UpTo(text, o)
  <2>1. v \in text /\ w \in text /\ ~Before(w, v) /\ ~Before(o, w)
    BY <1>3 DEF UpTo
  <2>2. ~Before(o, v)
    BY <1>1, <2>1, BeforeOrders
  <2> QED
    BY <2>1, <2>2 DEF UpTo
<1> QED
  BY <1>2, <1>3 DEF Starts, UpTo

\* The start of a start of a text is a start of it.
LEMMA StartsOfStarts ==
  ASSUME NEW text, NEW part, NEW start, Starts(part, text), Starts(start, part)
  PROVE  Starts(start, text)
<1>1. ASSUME NEW w \in start, NEW v \in UpTo(text, w)
      PROVE  v \in start
  <2>1. v \in part /\ ~Before(w, v)
    BY <1>1 DEF Starts, UpTo
  <2> QED
    BY <1>1, <2>1 DEF Starts, UpTo
<1> QED
  BY <1>1 DEF Starts

\* The first n words are at most n, the first among them, and one of a text that
\* is not empty.
LEMMA FirstWordsFacts ==
  ASSUME NEW text, IsText(text), NEW n \in Nat \ {0}
  PROVE  /\ Starts(FirstWords(text, n), text)
         /\ Cardinality(FirstWords(text, n)) \in 0..n
         /\ text # {} => FirstWords(text, n) # {}
<1> DEFINE first == FirstWords(text, n)
           ahead(w) == {q \in text : Before(q, w)}
<1>1. \A a \in text : a \in Nat \X Nat
  BY DEF IsText
<1>2. \A w \in text : w \in first <=> Cardinality(ahead(w)) < n
  BY DEF FirstWords
<1>3. first \in SUBSET text
  BY DEF FirstWords
<1>4. ASSUME NEW w \in first, NEW v \in UpTo(text, w)
      PROVE  v \in first
  <2>1. v \in text /\ w \in text /\ ~Before(w, v)
    BY <1>3, <1>4 DEF UpTo
  <2>2. ahead(v) \subseteq ahead(w)
    BY <1>1, <2>1, BeforeOrders
  <2>3. ahead(w) \in SUBSET text
    OBVIOUS
  <2>4. IsText(ahead(w)) /\ Cardinality(ahead(w)) \in Nat
    BY ONLY IsText(text), <2>3, TextParts
  <2>5. Cardinality(ahead(v)) \in Nat /\ Cardinality(ahead(v)) <= Cardinality(ahead(w))
    BY ONLY <2>2, <2>4, TextParts
  <2>6. Cardinality(ahead(w)) < n
    BY <1>2, <1>4, <2>1
  <2> QED
    BY <1>2, <2>1, <2>4, <2>5, <2>6
<1>5. Cardinality(first) \in Nat
  BY ONLY IsText(text), <1>3, TextParts
<1>6. Cardinality(first) <= n
  <2>1. CASE first = {}
    BY <2>1, FS_EmptySet
  <2>2. CASE first # {}
    <3> HIDE DEF first
    <3>1. IsText(first)
      BY ONLY IsText(text), <1>3, TextParts
    <3>2. PICK o \in first : \A q \in first : q = o \/ Before(q, o)
      BY ONLY <2>2, <3>1, EndsOfText
    <3>3. ahead(o) \in SUBSET text /\ o \in text
      BY <1>3, <3>2
    <3>4. IsFiniteSet(ahead(o)) /\ Cardinality(ahead(o)) \in Nat
      <4>1. IsText(ahead(o)) /\ Cardinality(ahead(o)) \in Nat
        BY ONLY IsText(text), <3>3, TextParts
      <4> QED
        BY ONLY <4>1 DEF IsText
    <3>5. Cardinality(ahead(o)) < n
      BY <1>2, <3>3
    <3> DEFINE all == ahead(o) \cup {o}
    <3>6. first \in SUBSET all
      BY <1>3, <3>2
    <3>7. IsFiniteSet(all) /\ Cardinality(all) <= Cardinality(ahead(o)) + 1
      <4> HIDE DEF ahead
      <4>1. /\ IsFiniteSet(ahead(o) \cup {o})
            /\ Cardinality(ahead(o) \cup {o}) =
                 IF o \in ahead(o) THEN Cardinality(ahead(o)) ELSE Cardinality(ahead(o)) + 1
        BY ONLY <3>4, FS_AddElement
      <4> QED
        BY ONLY <3>4, <4>1
    <3> HIDE DEF all
    <3>8. Cardinality(first) <= Cardinality(all) /\ Cardinality(all) \in Nat
      BY ONLY <3>6, <3>7, FS_Subset, FS_CardinalityType
    <3> QED
      BY ONLY <1>5, <3>4, <3>5, <3>7, <3>8, n \in Nat \ {0}
  <2> QED
    BY <2>1, <2>2
<1>7. ASSUME text # {}
      PROVE  first # {}
  <2>1. PICK o \in text : \A q \in text : q = o \/ Before(o, q)
    BY <1>7, EndsOfText
  <2>2. ahead(o) = {}
    BY <1>1, <2>1, BeforeOrders
  <2>3. Cardinality(ahead(o)) = 0
    BY <2>2, FS_EmptySet
  <2> QED
    BY <1>2, <2>1, <2>3
<1> QED
  BY <1>3, <1>4, <1>5, <1>6, <1>7 DEF Starts

\* The words of some cues are a text.
LEMMA WordsAreText ==
  ASSUME cues \in Transcripts, NEW ks \in SUBSET DOMAIN cues
  PROVE  /\ IsText(Words(cues, ks))
         /\ \A w \in Words(cues, ks) : w[1] \in ks
         /\ (\E k \in ks : cues[k].words # <<>>) => Words(cues, ks) # {}
<1>1. cues \in Seq(Cues) /\ Len(cues) \in Nat /\ DOMAIN cues = 1..Len(cues)
  BY TranscriptsAssumption
<1>2. \A k \in ks : cues[k].words \in Seq(BOOLEAN)
  <2>1. \A k \in ks : cues[k] \in Cues
    BY <1>1
  <2> QED
    BY <2>1 DEF Cues
<1> DEFINE Of(k) == {<<k, p>> : p \in DOMAIN cues[k].words}
           parts == {Of(k) : k \in ks}
<1>3. Words(cues, ks) = UNION parts
  BY DEF Words
<1>4. ASSUME NEW k \in ks
      PROVE  IsFiniteSet(Of(k))
  <2> DEFINE n == Len(cues[k].words)
  <2>1. n \in Nat /\ DOMAIN cues[k].words = 1..n
    BY <1>2
  <2>2. IsFiniteSet(1..n) /\ IsFiniteSet({k})
    <3> HIDE DEF n
    <3>1. 1 \in Int /\ n \in Int
      BY ONLY <2>1
    <3> QED
      BY ONLY <3>1, FS_Interval, FS_Singleton
  <2>3. IsFiniteSet({k} \X (1..n))
    BY ONLY <2>2, FS_Product
  <2>4. Of(k) \in SUBSET ({k} \X (1..n))
    BY <2>1
  <2> HIDE DEF Of
  <2> QED
    BY ONLY <2>3, <2>4, FS_Subset
<1>5. IsFiniteSet(ks)
  <2>1. IsFiniteSet(1..Len(cues))
    BY <1>1, FS_Interval
  <2>2. ks \in SUBSET (1..Len(cues))
    BY <1>1
  <2> QED
    BY ONLY <2>1, <2>2, FS_Subset
<1>6. IsFiniteSet(parts)
  <2> DEFINE f == [k \in ks |-> Of(k)]
  <2> HIDE DEF Of
  <2>1. f \in Surjection(ks, parts)
    BY DEF Surjection
  <2> HIDE DEF f, parts
  <2> QED
    BY ONLY <1>5, <2>1, FS_Surjection
<1>7. IsFiniteSet(Words(cues, ks))
  <2>1. \A T \in parts : IsFiniteSet(T)
    BY <1>4
  <2> HIDE DEF parts
  <2> QED
    BY ONLY <1>3, <1>6, <2>1, FS_UNION
<1>8. ASSUME NEW w \in Words(cues, ks)
      PROVE  w \in Nat \X Nat /\ w[1] \in ks
  <2>1. PICK k \in ks : \E p \in DOMAIN cues[k].words : w = <<k, p>>
    BY DEF Words
  <2>2. PICK p \in DOMAIN cues[k].words : w = <<k, p>>
    BY <2>1
  <2>3. k \in Nat /\ p \in Nat
    BY <1>1, <1>2
  <2> QED
    BY <2>2, <2>3
<1>9. ASSUME NEW k \in ks, cues[k].words # <<>>
      PROVE  Words(cues, ks) # {}
  <2>1. 1 \in DOMAIN cues[k].words
    BY <1>2, <1>9
  <2>2. <<k, 1>> \in Words(cues, ks)
    BY <2>1 DEF Words
  <2> QED
    BY <2>2
<1> QED
  BY <1>7, <1>8, <1>9 DEF IsText

\* Of the words that end a sentence, one is the last.
LEMMA OneLastStop ==
  ASSUME NEW text, IsText(text), NEW o \in LastStops(cues, text), NEW q \in LastStops(cues, text)
  PROVE  o \in text /\ o = q
<1>1. \A a \in text : a \in Nat \X Nat
  BY DEF IsText
<1>2. o \in text /\ q \in text /\ ~Before(o, q) /\ ~Before(q, o)
  BY DEF LastStops
<1> QED
  BY <1>1, <1>2, BeforeOrders

-----------------------------------------------------------------------------
\* The rows of the fixed windows.

\* What a window's text may be, of what was said in it.
KeptText(said, text) ==
  /\ Starts(text, said) /\ Cardinality(text) \in 1..MAX_TOKENS
  /\ Cardinality(said \ text) <= MAX_TRIM_WORDS \/ Cardinality(said) > MAX_TOKENS

\* _snap_to_sentence and _truncate_to_max_tokens keep the start of a window's
\* text, and something of it.
LEMMA CutsKeepTheStart ==
  ASSUME NEW said, IsText(said), said # {},
         NEW snapped \in FW!Snapped(said), NEW text \in FW!Truncated(snapped)
  PROVE  KeptText(said, text)
<1>1. /\ Starts(snapped, said) /\ snapped # {}
      /\ Cardinality(said \ snapped) <= MAX_TRIM_WORDS
  <2> DEFINE stops == LastStops(cues, said)
  <2>1. \/ /\ \E o \in stops : Cardinality(said \ UpTo(said, o)) <= MAX_TRIM_WORDS
           /\ \E o \in stops : snapped = UpTo(said, o)
        \/ snapped = said
    BY SameCardinality
    DEF FW!Snapped, FW!LastStops, FW!UpTo, FW!Before, LastStops, UpTo, Before
  <2> HIDE DEF stops
  <2>2. CASE snapped = said
    <3>1. said \ said = {} /\ Cardinality({}) = 0
      BY FS_EmptySet
    <3> QED
      BY <2>2, <3>1, ParametersAssumption DEF Starts, UpTo
  <2>3. CASE /\ \E o \in stops : Cardinality(said \ UpTo(said, o)) <= MAX_TRIM_WORDS
             /\ \E o \in stops : snapped = UpTo(said, o)
    <3>1. PICK o \in stops : Cardinality(said \ UpTo(said, o)) <= MAX_TRIM_WORDS
      BY <2>3
    <3>2. PICK q \in stops : snapped = UpTo(said, q)
      BY <2>3
    <3>3. o \in said /\ o = q
      BY ONLY IsText(said), o \in stops, q \in stops, OneLastStop DEF stops
    <3> QED
      BY <3>1, <3>2, <3>3, UpToStarts
  <2> QED
    BY <2>1, <2>2, <2>3
<1>2. IsText(snapped) /\ Cardinality(snapped) \in Nat /\ Cardinality(said) \in Nat
      /\ Cardinality(snapped) <= Cardinality(said) /\ Cardinality(snapped) >= 1
  BY ONLY IsText(said), <1>1, TextParts DEF Starts
<1>3. CASE Cardinality(snapped) <= MAX_TOKENS
  <2>1. text = snapped
    BY <1>3, SameCardinality DEF FW!Truncated
  <2> QED
    BY <1>1, <1>2, <1>3, <2>1, ParametersAssumption DEF KeptText
<1>4. CASE ~(Cardinality(snapped) <= MAX_TOKENS)
  <2> DEFINE kept == FirstWords(snapped, MAX_TOKENS)
  <2>1. text = kept \/ \E o \in LastStops(cues, kept) : text = UpTo(kept, o)
    BY <1>4, SameCardinality
    DEF FW!Truncated, FW!LastStops, FW!UpTo, FW!FirstWords, FW!Before,
        LastStops, UpTo, FirstWords, Before
  <2>2. Starts(kept, snapped) /\ Cardinality(kept) \in 0..MAX_TOKENS /\ kept # {}
    BY <1>1, <1>2, FirstWordsFacts, ParametersAssumption
  <2> HIDE DEF kept
  <2>3. IsText(kept)
    BY ONLY <1>2, <2>2, TextParts DEF Starts
  <2>4. Starts(text, kept) /\ text # {}
    <3>1. CASE text = kept
      BY <2>2, <3>1 DEF Starts, UpTo
    <3>2. CASE \E o \in LastStops(cues, kept) : text = UpTo(kept, o)
      <4>1. PICK o \in LastStops(cues, kept) : text = UpTo(kept, o)
        BY <3>2
      <4>2. o \in kept
        BY DEF LastStops
      <4> QED
        BY <2>3, <4>1, <4>2, UpToStarts
    <3> QED
      BY <2>1, <3>1, <3>2
  <2>5. Starts(text, said)
    BY <1>1, <2>2, <2>4, StartsOfStarts
  <2>6. Cardinality(text) \in Nat /\ Cardinality(text) >= 1
        /\ Cardinality(text) <= Cardinality(kept) /\ Cardinality(kept) \in Nat
    BY ONLY <2>3, <2>4, TextParts DEF Starts
  <2>7. Cardinality(text) \in 1..MAX_TOKENS
    BY <2>2, <2>6, ParametersAssumption
  <2>8. Cardinality(said) > MAX_TOKENS
    BY <1>2, <1>4, ParametersAssumption
  <2> QED
    BY <2>5, <2>7, <2>8 DEF KeptText
<1> QED
  BY <1>3, <1>4

\* The cues of a window that starts at ws.
InWindowAt(ws) ==
  {k \in DOMAIN cues : /\ 2 * ws <= cues[k].start + cues[k].end
                       /\ cues[k].start + cues[k].end < 2 * (ws + WINDOW_SEC)}

\* Every chunk is a window's, with text.
WindowRows ==
  strategy = FIXED_WINDOW =>
    \A c \in DOMAIN out :
      /\ \E ws \in Nat : out[c].cues = InWindowAt(ws)
      /\ out[c].cues # {}
      /\ KeptText(Words(cues, out[c].cues), out[c].text)

\* A window that emits a chunk emits such a row, and no row changes.
LEMMA WindowRowsKept == TypeOK /\ WindowRows /\ [Next]_vars => WindowRows'
<1> SUFFICES ASSUME TypeOK, WindowRows, [Next]_vars, strategy' = FIXED_WINDOW,
                    NEW c \in DOMAIN out'
             PROVE  /\ \E ws \in Nat : out'[c].cues = InWindowAt(ws)'
                    /\ out'[c].cues # {}
                    /\ KeptText(Words(cues', out'[c].cues), out'[c].text)
  BY DEF WindowRows, Words, KeptText, Starts, UpTo, Before
<1>1. strategy = FIXED_WINDOW /\ UNCHANGED cues
  BY DEF Next, ByWindow, BySentence, vars, FW!Next, FW!Emit, FW!Pass, FW!Finish, TS!Next,
         TS!Skip, TS!AppendCue, TS!Finish
<1>2. \A ws \in Nat : InWindowAt(ws)' = InWindowAt(ws)
  BY <1>1 DEF InWindowAt
<1>3. /\ cues \in Transcripts /\ out \in Seq(ChunksOf(cues)) /\ window_start \in Nat
  BY DEF TypeOK
<1>4. CASE c \in DOMAIN out /\ out'[c] = out[c]
  BY <1>1, <1>2, <1>4 DEF WindowRows
<1>5. CASE UNCHANGED out
  BY <1>4, <1>5
<1>6. CASE FW!Emit
  <2> DEFINE said == Words(cues, FW!InWindow)
  <2>1. PICK snapped \in FW!Snapped(FW!Words(cues, FW!InWindow)) :
          \E text \in FW!Truncated(snapped) :
            out' = Append(out, [cues |-> FW!InWindow, text |-> text])
    BY <1>6 DEF FW!Emit
  <2>2. PICK text \in FW!Truncated(snapped) :
          out' = Append(out, [cues |-> FW!InWindow, text |-> text])
    BY <2>1
  <2>3. FW!Words(cues, FW!InWindow) = said
    BY DEF FW!Words, Words
  <2>4. FW!InWindow = InWindowAt(window_start) /\ FW!InWindow \subseteq DOMAIN cues
    BY DEF FW!InWindow, InWindowAt
  <2>5. PICK k \in FW!InWindow : cues[k].words # <<>>
    BY <1>6 DEF FW!Emit, FW!HasText
  <2>6. IsText(said) /\ said # {}
    BY <1>3, <2>4, <2>5, WordsAreText
  <2>7. KeptText(said, text)
    <3> HIDE DEF said
    <3> QED
      BY ONLY <2>1, <2>2, <2>3, <2>6, snapped \in FW!Snapped(FW!Words(cues, FW!InWindow)),
         text \in FW!Truncated(snapped), CutsKeepTheStart
  <2>8. [cues |-> FW!InWindow, text |-> text] \in ChunksOf(cues)
    BY WindowText
  <2>9. CASE c \in DOMAIN out
    <3>1. out'[c] = out[c]
      BY <1>3, <2>2, <2>8, <2>9
    <3> QED
      BY <1>4, <2>9, <3>1
  <2>10. CASE c \notin DOMAIN out
    <3>1. out'[c] = [cues |-> FW!InWindow, text |-> text]
      BY <1>3, <2>2, <2>8, <2>10
    <3>2. out'[c].cues = FW!InWindow /\ out'[c].text = text
      BY <3>1
    <3>3. KeptText(Words(cues', out'[c].cues), out'[c].text)
      BY <1>1, <2>7, <3>2
    <3> QED
      BY <1>2, <1>3, <2>4, <2>5, <3>2, <3>3
  <2> QED
    BY <2>9, <2>10
<1> QED
  BY <1>1, <1>5, <1>6
  DEF Next, ByWindow, BySentence, vars, FW!Next, FW!Pass, FW!Finish, FIXED_WINDOW,
      TRANSCRIPT_SEGMENT

\* Captions in the order of time: both edges of a cue move on.
InTime ==
  \A k, l \in DOMAIN cues :
    k < l => cues[k].start < cues[l].start /\ cues[k].end < cues[l].end

\* Then the first and the last cue of a window tell it from the others, and the
\* first starts before the last ends.
LEMMA WindowKeys ==
  ASSUME TypeOK, WindowRows, InTime, strategy = FIXED_WINDOW
  PROVE  FW!SameKeySameCues /\ FW!RowsAreAccepted
<1>1. cues \in Transcripts /\ out \in Seq(ChunksOf(cues))
  BY DEF TypeOK
<1>2. cues \in Seq(Cues) /\ Len(cues) \in Nat /\ DOMAIN cues = 1..Len(cues)
  BY <1>1, TranscriptsAssumption
<1>3. ASSUME NEW k \in DOMAIN cues
      PROVE  /\ cues[k].start \in Nat /\ cues[k].end \in Nat /\ k \in Nat
             /\ cues[k].start < cues[k].end
  BY <1>1, <1>2, CueFacts
<1>4. ASSUME NEW c \in DOMAIN out
      PROVE  /\ out[c].cues \in SUBSET DOMAIN cues /\ out[c].cues # {}
             /\ FirstOf(out[c].cues) \in out[c].cues /\ LastOf(out[c].cues) \in out[c].cues
             /\ \A k \in out[c].cues : FirstOf(out[c].cues) <= k /\ k <= LastOf(out[c].cues)
             /\ FW!Span(out[c].cues).start = cues[FirstOf(out[c].cues)].start
             /\ FW!Span(out[c].cues).end = cues[LastOf(out[c].cues)].end
             /\ KeptText(Words(cues, out[c].cues), out[c].text)
             /\ \E ws \in Nat : out[c].cues = InWindowAt(ws)
  <2>1. /\ \E ws \in Nat : out[c].cues = InWindowAt(ws)
        /\ out[c].cues # {}
        /\ KeptText(Words(cues, out[c].cues), out[c].text)
    BY <1>4 DEF WindowRows
  <2>2. out[c].cues \in SUBSET DOMAIN cues
    BY <2>1 DEF InWindowAt
  <2> DEFINE ks == out[c].cues
  <2>3. /\ FW!Span(ks).start = cues[FirstOf(ks)].start
        /\ FW!Span(ks).end = cues[LastOf(ks)].end
    BY DEF FW!Span, FW!FirstOf, FW!LastOf, FirstOf, LastOf
  <2> HIDE DEF ks
  <2>4. /\ FirstOf(ks) \in ks /\ \A k \in ks : FirstOf(ks) <= k
        /\ LastOf(ks) \in ks /\ \A k \in ks : LastOf(ks) >= k
    <3>1. ks \in SUBSET DOMAIN cues /\ ks # {}
      BY <2>1, <2>2 DEF ks
    <3> QED
      BY ONLY <1>1, <3>1, EdgeFacts
  <2>5. \A k \in ks : k <= LastOf(ks)
    <3>1. \A k \in ks : k \in Nat
      BY <1>3, <2>2 DEF ks
    <3> QED
      BY ONLY <2>4, <3>1
  <2> QED
    BY <2>1, <2>2, <2>3, <2>4, <2>5 DEF ks
<1>5. ASSUME NEW k \in DOMAIN cues, NEW l \in DOMAIN cues, k <= l
      PROVE  /\ cues[k].start <= cues[l].start /\ cues[k].end <= cues[l].end
             /\ (cues[k].start = cues[l].start \/ cues[k].end = cues[l].end) => k = l
  <2>1. CASE k = l
    BY <1>3, <2>1
  <2>2. CASE k # l
    <3>1. k < l
      BY <1>3, <1>5, <2>2
    <3>2. cues[k].start < cues[l].start /\ cues[k].end < cues[l].end
      BY <3>1 DEF InTime
    <3> QED
      BY <1>3, <3>2
  <2> QED
    BY <2>1, <2>2
<1>6. ASSUME NEW k \in DOMAIN cues, NEW l \in DOMAIN cues,
             cues[k].start = cues[l].start \/ cues[k].end = cues[l].end
      PROVE  k = l
  <2>1. k <= l \/ l <= k
    BY <1>3
  <2> QED
    BY <1>5, <1>6, <2>1
<1>7. ASSUME NEW c \in DOMAIN out, NEW d \in DOMAIN out,
             FW!Span(out[c].cues) = FW!Span(out[d].cues), NEW k \in out[c].cues
      PROVE  k \in out[d].cues
  <2> DEFINE first == FirstOf(out[c].cues)
             last == LastOf(out[c].cues)
  <2>1. first = FirstOf(out[d].cues) /\ last = LastOf(out[d].cues)
    <3>1. /\ cues[first].start = cues[FirstOf(out[d].cues)].start
          /\ cues[last].end = cues[LastOf(out[d].cues)].end
      BY <1>4, <1>7
    <3>2. {first, last, FirstOf(out[d].cues), LastOf(out[d].cues)} \subseteq DOMAIN cues
      BY <1>4
    <3> QED
      BY <1>6, <3>1, <3>2
  <2>2. /\ first \in out[d].cues /\ last \in out[d].cues
        /\ first \in DOMAIN cues /\ last \in DOMAIN cues /\ k \in DOMAIN cues
        /\ first <= k /\ k <= last
    BY <1>4, <2>1
  <2> HIDE DEF first, last
  <2>3. PICK ws \in Nat : out[d].cues = InWindowAt(ws)
    BY <1>4
  <2>4. /\ 2 * ws <= cues[first].start + cues[first].end
        /\ cues[last].start + cues[last].end < 2 * (ws + WINDOW_SEC)
    BY <2>2, <2>3 DEF InWindowAt
  <2>5. /\ cues[first].start <= cues[k].start /\ cues[first].end <= cues[k].end
        /\ cues[k].start <= cues[last].start /\ cues[k].end <= cues[last].end
    BY <1>5, <2>2
  <2>6. /\ 2 * ws <= cues[k].start + cues[k].end
        /\ cues[k].start + cues[k].end < 2 * (ws + WINDOW_SEC)
    BY <1>3, <2>2, <2>4, <2>5, OverlapAssumption
  <2> QED
    BY <2>2, <2>3, <2>6 DEF InWindowAt
<1>8. FW!SameKeySameCues
  <2>1. ASSUME NEW c \in DOMAIN out, NEW d \in DOMAIN out,
               FW!Span(out[c].cues) = FW!Span(out[d].cues)
        PROVE  out[c].cues = out[d].cues
    BY <1>7, <2>1
  <2> QED
    BY <2>1 DEF FW!SameKeySameCues
<1>9. ASSUME NEW c \in DOMAIN out
      PROVE  FW!Span(out[c].cues).start < FW!Span(out[c].cues).end
  <2> DEFINE first == FirstOf(out[c].cues)
             last == LastOf(out[c].cues)
  <2>1. first \in DOMAIN cues /\ last \in DOMAIN cues /\ first <= last
    BY <1>4
  <2>2. FW!Span(out[c].cues).start = cues[first].start /\ FW!Span(out[c].cues).end = cues[last].end
    BY <1>4
  <2> HIDE DEF first, last
  <2>3. cues[first].start < cues[first].end /\ cues[first].end <= cues[last].end
    BY <1>3, <1>5, <2>1
  <2> QED
    BY <1>3, <2>1, <2>2, <2>3
<1>10. FW!RowsAreAccepted
  <2> SUFFICES ASSUME NEW c \in DOMAIN out
               PROVE  /\ Cardinality(out[c].text) \in 1..MAX_TOKENS
                      /\ \A w \in out[c].text :
                           UpTo(Words(cues, out[c].cues), w) \subseteq out[c].text
                      /\ \/ Cardinality(Words(cues, out[c].cues) \ out[c].text) <= MAX_TRIM_WORDS
                         \/ Cardinality(Words(cues, out[c].cues)) > MAX_TOKENS
    BY <1>9, SameCardinality
    DEF FW!RowsAreAccepted, FW!Words, Words, FW!UpTo, UpTo, FW!Before, Before
  <2>1. KeptText(Words(cues, out[c].cues), out[c].text)
    BY <1>4
  <2> QED
    BY <2>1 DEF KeptText, Starts
<1> QED
  BY <1>8, <1>10

-----------------------------------------------------------------------------
\* The rows of the segments.

\* Of a segment all words are kept, but for some of the last cue's.
SegmentKept(ks, text) ==
  /\ ks # {}
  /\ Cardinality(text) \in 1..MAX_TOKENS
  /\ \A w \in Words(cues, ks) \ text : w[1] = LastOf(ks)

\* The open segment has room and no blank cue, and lies behind the loop.
SegmentRows ==
  strategy = TRANSCRIPT_SEGMENT =>
    /\ cur \subseteq 1..(next - 1) /\ \A k \in cur : ~TS!Blank(k)
    /\ Cardinality(Words(cues, cur)) < MAX_TOKENS
    /\ done => next > Len(cues) /\ cur = {}
    /\ \A c \in DOMAIN out : SegmentKept(out[c].cues, out[c].text)

\* What is dropped of a segment that was opened by cur and grew by cues after it
\* is of its last cue.
LEMMA SegmentCut ==
  ASSUME TypeOK, NEW ks \in SUBSET DOMAIN cues, NEW old \in SUBSET ks, ks # {},
         \A k \in ks : ~TS!Blank(k), Cardinality(Words(cues, old)) < MAX_TOKENS,
         \A k \in ks \ old : k = LastOf(ks), \A k \in old : k < LastOf(ks) \/ old = ks
  PROVE  SegmentKept(ks, TS!Chunk(ks).text)
<1> DEFINE text == Words(cues, ks)
           part == Words(cues, old)
<1>1. TS!Chunk(ks).text = FirstWords(text, MAX_TOKENS)
  BY SameCardinality DEF TS!Chunk, TS!Words, Words, TS!FirstWords, FirstWords, TS!Before, Before
<1>2. cues \in Transcripts /\ DOMAIN cues \subseteq Nat
  BY TranscriptsAssumption DEF TypeOK
<1>3. IsText(text) /\ \A w \in text : w[1] \in ks
  BY <1>2, WordsAreText
<1>4. text # {}
  <2>1. PICK k \in ks : cues[k].words # <<>>
    BY DEF TS!Blank
  <2> QED
    BY <1>2, <2>1, WordsAreText
<1>5. part \in SUBSET text
  BY DEF Words
<1>6. \A w \in text : w[1] \in old => w \in part
  BY DEF Words
<1>7. /\ Cardinality(FirstWords(text, MAX_TOKENS)) \in 0..MAX_TOKENS
      /\ FirstWords(text, MAX_TOKENS) # {} /\ FirstWords(text, MAX_TOKENS) \in SUBSET text
  <2> HIDE DEF text
  <2> QED
    BY ONLY <1>3, <1>4, FirstWordsFacts, ParametersAssumption DEF Starts
<1>8. Cardinality(FirstWords(text, MAX_TOKENS)) \in 1..MAX_TOKENS
  <2> HIDE DEF text
  <2>1. Cardinality(FirstWords(text, MAX_TOKENS)) >= 1
    BY ONLY <1>3, <1>7, TextParts
  <2> QED
    BY ONLY <1>7, <2>1, ParametersAssumption
<1>9. ASSUME NEW w \in text, w[1] # LastOf(ks)
      PROVE  w \in FirstWords(text, MAX_TOKENS)
  <2> DEFINE ahead == {q \in text : Before(q, w)}
  <2>1. w[1] \in old
    BY <1>3, <1>9
  <2>2. ahead \in SUBSET part
    <3> SUFFICES ASSUME NEW q \in text, Before(q, w)  PROVE q[1] \in old
      BY <1>6
    <3>1. q[1] \in ks /\ w[1] \in ks
      BY <1>3
    <3>2. q[1] \in Nat /\ w[1] \in Nat /\ LastOf(ks) \in Nat
      BY <1>2, <3>1, EdgeFacts
    <3>3. q[1] <= w[1]
      BY <3>2 DEF Before
    <3>4. CASE old = ks
      BY <3>1, <3>4
    <3>5. CASE w[1] < LastOf(ks)
      BY <3>1, <3>2, <3>3, <3>5
    <3> QED
      BY <2>1, <3>4, <3>5
  <2> HIDE DEF part, ahead, text
  <2>3. IsText(part) /\ Cardinality(part) \in Nat
    BY ONLY <1>3, <1>5, TextParts
  <2>4. Cardinality(ahead) <= Cardinality(part) /\ Cardinality(ahead) \in Nat
    BY ONLY <2>2, <2>3, TextParts
  <2>5. Cardinality(ahead) < MAX_TOKENS
    BY <2>3, <2>4, ParametersAssumption DEF part
  <2> QED
    BY <2>5 DEF FirstWords, ahead
<1> QED
  BY <1>1, <1>8, <1>9 DEF SegmentKept

\* A segment grows by a cue, closes when it is full, and the last one closes
\* when the talk is over.
LEMMA SegmentRowsKept == TypeOK /\ SegmentRows /\ [Next]_vars => SegmentRows'
<1> SUFFICES ASSUME TypeOK, SegmentRows, [Next]_vars, strategy' = TRANSCRIPT_SEGMENT
             PROVE  SegmentRows'
  BY DEF SegmentRows
<1>1. strategy = TRANSCRIPT_SEGMENT /\ UNCHANGED cues
  BY DEF Next, ByWindow, BySentence, vars, FW!Next, FW!Emit, FW!Pass, FW!Finish, TS!Next,
         TS!Skip, TS!AppendCue, TS!Finish
<1>2. /\ cur \subseteq 1..(next - 1) /\ \A k \in cur : ~TS!Blank(k)
      /\ Cardinality(Words(cues, cur)) < MAX_TOKENS
      /\ done => next > Len(cues) /\ cur = {}
      /\ \A c \in DOMAIN out : SegmentKept(out[c].cues, out[c].text)
  BY <1>1 DEF SegmentRows
<1>3. /\ cues \in Transcripts /\ out \in Seq(ChunksOf(cues)) /\ next \in Nat \ {0}
      /\ cur \in SUBSET DOMAIN cues /\ DOMAIN cues = 1..Len(cues) /\ Len(cues) \in Nat
      /\ done \in BOOLEAN
  BY TranscriptsAssumption DEF TypeOK
\* The definitions that depend on the transcript alone.
<1>4. /\ \A k : TS!Blank(k)' = TS!Blank(k)
      /\ \A ks : Words(cues, ks)' = Words(cues, ks)
      /\ \A ks, text : SegmentKept(ks, text)' = SegmentKept(ks, text)
  BY <1>1 DEF TS!Blank, Words, LastOf, SegmentKept
\* A row that is added, and the rows there were.
<1>5. ASSUME NEW ks \in SUBSET DOMAIN cues, out' = Append(out, TS!Chunk(ks)),
             SegmentKept(ks, TS!Chunk(ks).text)
      PROVE  \A c \in DOMAIN out' : SegmentKept(out'[c].cues, out'[c].text)
  <2>1. TS!Chunk(ks) \in ChunksOf(cues) /\ TS!Chunk(ks).cues = ks
    BY <1>5, SegmentText DEF TS!Chunk
  <2>2. /\ Len(out') = Len(out) + 1 /\ DOMAIN out' = 1..Len(out') /\ Len(out) \in Nat
        /\ \A c \in DOMAIN out : c \in DOMAIN out' /\ out'[c] = out[c]
        /\ out'[Len(out')] = TS!Chunk(ks)
        /\ \A c \in DOMAIN out' : c \in DOMAIN out \/ c = Len(out')
    BY <1>3, <1>5, <2>1
  <2> QED
    BY <1>2, <1>5, <2>1, <2>2
<1>6. IsText(Words(cues, {})) /\ Cardinality(Words(cues, {})) < MAX_TOKENS
  <2>1. Words(cues, {}) = {}
    BY DEF Words
  <2> QED
    BY <2>1, FS_EmptySet, ParametersAssumption DEF IsText
<1>7. CASE TS!Skip
  <2>1. next' = next + 1 /\ UNCHANGED <<cues, out, done, cur>> /\ next <= Len(cues)
    BY <1>7 DEF TS!Skip
  <2>2. cur' \subseteq 1..(next' - 1) /\ ~done
    BY <1>2, <1>3, <2>1
  <2> QED
    BY <1>2, <1>4, <2>1, <2>2 DEF SegmentRows
<1>8. CASE TS!AppendCue
  <2> DEFINE ks == cur \cup {next}
  <2>1. next \in DOMAIN cues /\ ~TS!Blank(next) /\ next' = next + 1 /\ UNCHANGED done /\ ~done
    BY <1>2, <1>3, <1>8 DEF TS!AppendCue
  <2>2. ks \in SUBSET DOMAIN cues /\ cur \in SUBSET ks /\ ks # {} /\ \A k \in ks : ~TS!Blank(k)
    BY <1>2, <1>3, <2>1
  <2>3. LastOf(ks) = next /\ \A k \in cur : k < next
    <3>1. \A k \in cur : k < next /\ k \in Nat
      BY <1>2, <1>3
    <3>2. LastOf(ks) \in ks /\ \A k \in ks : LastOf(ks) >= k
      <4> HIDE DEF ks
      <4> QED
        BY ONLY <1>3, <2>2, EdgeFacts
    <3>3. next \in ks
      OBVIOUS
    <3>4. LastOf(ks) >= next
      BY <3>2, <3>3
    <3>5. LastOf(ks) \in cur => LastOf(ks) < next /\ LastOf(ks) \in Nat
      BY <3>1
    <3>6. LastOf(ks) \in cur \/ LastOf(ks) = next
      BY <3>2
    <3> HIDE DEF ks
    <3> QED
      BY ONLY <1>3, <3>1, <3>4, <3>5, <3>6
  <2>4. SegmentKept(ks, TS!Chunk(ks).text)
    <3>1. \A k \in ks \ cur : k = LastOf(ks)
      BY <2>3
    <3>2. \A k \in cur : k < LastOf(ks)
      BY <2>3
    <3> HIDE DEF ks
    <3> QED
      BY ONLY TypeOK, <1>2, <2>2, <3>1, <3>2, SegmentCut
  <2>5. CASE TS!Closes(ks)
    <3>1. out' = Append(out, TS!Chunk(ks)) /\ cur' = {}
      BY <1>8, <2>5 DEF TS!AppendCue
    <3> HIDE DEF ks
    <3>2. \A c \in DOMAIN out' : SegmentKept(out'[c].cues, out'[c].text)
      BY <1>5, <2>2, <2>4, <3>1
    <3> QED
      BY <1>1, <1>4, <1>6, <2>1, <3>1, <3>2 DEF SegmentRows
  <2>6. CASE ~TS!Closes(ks)
    <3>1. UNCHANGED out /\ cur' = ks
      BY <1>8, <2>6 DEF TS!AppendCue
    <3>2. Cardinality(Words(cues, ks)) < MAX_TOKENS
      <4>1. ~(Cardinality(Words(cues, ks)) >= MAX_TOKENS)
        BY <2>6, SameCardinality DEF TS!Closes, TS!Tokens, TS!Words, Words
      <4>2. IsText(Words(cues, ks))
        BY <1>3, <2>2, WordsAreText
      <4> HIDE DEF ks
      <4>3. Cardinality(Words(cues, ks)) \in Nat
        BY ONLY <4>2, FS_CardinalityType DEF IsText
      <4> QED
        BY ONLY <4>1, <4>3, ParametersAssumption
    <3>3. ks \subseteq 1..(next' - 1)
      BY <1>2, <1>3, <2>1
    <3> HIDE DEF ks
    <3> QED
      BY <1>1, <1>2, <1>4, <2>1, <2>2, <3>1, <3>2, <3>3 DEF SegmentRows
  <2> QED
    BY <2>5, <2>6
<1>9. CASE TS!Finish
  <2>1. /\ next > Len(cues) /\ ~done /\ done' = TRUE /\ cur' = {} /\ next' = next
        /\ out' = IF cur = {} THEN out ELSE Append(out, TS!Chunk(cur))
    BY <1>9 DEF TS!Finish
  <2>2. \A c \in DOMAIN out' : SegmentKept(out'[c].cues, out'[c].text)
    <3>1. CASE cur = {}
      BY <1>2, <2>1, <3>1
    <3>2. CASE cur # {}
      <4>1. \A k \in cur \ cur : k = LastOf(cur)
        OBVIOUS
      <4>2. SegmentKept(cur, TS!Chunk(cur).text)
        BY ONLY TypeOK, <1>2, <1>3, <3>2, <4>1, SegmentCut
      <4> QED
        BY <1>3, <1>5, <2>1, <3>2, <4>2
    <3> QED
      BY <3>1, <3>2
  <2> QED
    BY <1>1, <1>4, <1>6, <2>1, <2>2 DEF SegmentRows
<1>10. CASE UNCHANGED vars
  BY <1>2, <1>4, <1>10 DEF vars, SegmentRows
<1> QED
  BY <1>1, <1>7, <1>8, <1>9, <1>10
  DEF Next, ByWindow, BySentence, TS!Next, FIXED_WINDOW, TRANSCRIPT_SEGMENT

\* Segments follow each other, so no two start with the same cue, and none ends
\* before its first cue does.
LEMMA SegmentKeys ==
  ASSUME TypeOK, SegmentRows, InTime, strategy = TRANSCRIPT_SEGMENT, TS!ChunksInOrder
  PROVE  TS!RowsOfTheirOwn
<1>1. cues \in Transcripts /\ out \in Seq(ChunksOf(cues)) /\ DOMAIN out \subseteq Nat
  BY DEF TypeOK
<1>2. ASSUME NEW k \in DOMAIN cues
      PROVE  cues[k].start \in Nat /\ cues[k].end \in Nat /\ k \in Nat /\ cues[k].start < cues[k].end
  <2>1. cues \in Seq(Cues)
    BY <1>1, TranscriptsAssumption
  <2> QED
    BY <1>1, <2>1, CueFacts
<1>3. ASSUME NEW c \in DOMAIN out
      PROVE  /\ FirstOf(out[c].cues) \in out[c].cues /\ LastOf(out[c].cues) \in out[c].cues
             /\ FirstOf(out[c].cues) <= LastOf(out[c].cues)
             /\ FirstOf(out[c].cues) \in DOMAIN cues /\ LastOf(out[c].cues) \in DOMAIN cues
             /\ TS!Span(out[c].cues).start = cues[FirstOf(out[c].cues)].start
             /\ TS!Span(out[c].cues).end = cues[LastOf(out[c].cues)].end
  <2> DEFINE ks == out[c].cues
  <2>1. ks # {}
    BY DEF SegmentRows, SegmentKept
  <2>2. ks \in SUBSET DOMAIN cues
    <3>1. out[c] \in ChunksOf(cues)
      BY <1>1
    <3> QED
      BY <3>1 DEF ChunksOf
  <2>3. TS!Span(ks).start = cues[FirstOf(ks)].start /\ TS!Span(ks).end = cues[LastOf(ks)].end
    BY DEF TS!Span, TS!FirstOf, TS!LastOf, FirstOf, LastOf
  <2> HIDE DEF ks
  <2>4. /\ FirstOf(ks) \in ks /\ \A k \in ks : FirstOf(ks) <= k
        /\ LastOf(ks) \in ks
    BY ONLY <1>1, <2>1, <2>2, EdgeFacts
  <2>5. FirstOf(ks) <= LastOf(ks) /\ FirstOf(ks) \in DOMAIN cues /\ LastOf(ks) \in DOMAIN cues
    BY <2>2, <2>4
  <2> QED
    BY <2>3, <2>4, <2>5 DEF ks
<1>4. ASSUME NEW c \in DOMAIN out
      PROVE  TS!Span(out[c].cues).start < TS!Span(out[c].cues).end
  <2> DEFINE first == FirstOf(out[c].cues)
             last == LastOf(out[c].cues)
  <2>1. first \in DOMAIN cues /\ last \in DOMAIN cues /\ first <= last
    BY <1>3
  <2>2. TS!Span(out[c].cues).start = cues[first].start /\ TS!Span(out[c].cues).end = cues[last].end
    BY <1>3
  <2> HIDE DEF first, last
  <2>3. cues[first].start < cues[first].end /\ cues[first].end <= cues[last].end
    <3>1. first = last \/ first < last
      BY <1>2, <2>1
    <3> QED
      BY <1>2, <2>1, <3>1 DEF InTime
  <2> QED
    BY <1>2, <2>1, <2>2, <2>3
<1>5. ASSUME NEW c \in DOMAIN out, NEW d \in DOMAIN out, c < d
      PROVE  TS!Span(out[c].cues) # TS!Span(out[d].cues)
  <2> DEFINE j == FirstOf(out[c].cues)
             k == FirstOf(out[d].cues)
  <2>1. j < k
    BY <1>3, <1>5 DEF TS!ChunksInOrder
  <2>2. j \in DOMAIN cues /\ k \in DOMAIN cues
    BY <1>3
  <2>3. TS!Span(out[c].cues).start = cues[j].start /\ TS!Span(out[d].cues).start = cues[k].start
    BY <1>3
  <2> HIDE DEF j, k
  <2>4. cues[j].start < cues[k].start
    BY <2>1, <2>2 DEF InTime
  <2> QED
    BY <1>2, <2>2, <2>3, <2>4
<1>6. ASSUME NEW c \in DOMAIN out, NEW d \in DOMAIN out, c # d
      PROVE  TS!Span(out[c].cues) # TS!Span(out[d].cues)
  <2>1. c < d \/ d < c
    BY <1>1, <1>6
  <2> QED
    BY <1>5, <2>1
<1> QED
  BY <1>4, <1>6 DEF TS!RowsOfTheirOwn

\* Every chunk is a row the table takes, of captions in the order of time (the
\* natural key and the CHECKs of chunks; _snap_to_sentence,
\* _truncate_to_max_tokens and flush): whatever the cues, the window and the
\* limits, a span is not empty, a window's key repeats only for the same cues
\* and a segment's not at all, and the text is what was said in it up to a
\* bounded loss at the end.
THEOREM RowsAreWhole == Spec => [](InTime => ChunkRows)
<1>1. Init => WindowRows /\ SegmentRows
  <2> SUFFICES ASSUME Init  PROVE WindowRows /\ SegmentRows
    OBVIOUS
  <2>1. out = <<>> /\ next = 1 /\ cur = {} /\ ~done
    BY Zenon DEF Init, FW!Init, TS!Init
  <2>2. Words(cues, cur) = {} /\ Cardinality({}) = 0
    BY <2>1, FS_EmptySet DEF Words
  <2>3. Cardinality(Words(cues, cur)) < MAX_TOKENS
    BY <2>2, ParametersAssumption
  <2>4. WindowRows
    BY <2>1 DEF WindowRows
  <2>5. SegmentRows
    BY <2>1, <2>3 DEF SegmentRows
  <2> QED
    BY <2>4, <2>5
<1>2. TypeOK /\ WindowRows /\ SegmentRows /\ SentencesPartition /\ InTime => ChunkRows
  <2> SUFFICES ASSUME TypeOK, WindowRows, SegmentRows, SentencesPartition, InTime
               PROVE  ChunkRows
    OBVIOUS
  <2>1. strategy = FIXED_WINDOW => FW!SameKeySameCues /\ FW!RowsAreAccepted
    BY WindowKeys
  <2>2. ASSUME strategy = TRANSCRIPT_SEGMENT
        PROVE  TS!RowsOfTheirOwn /\ TS!LossIsBounded
    <3>1. \A c \in DOMAIN out : SegmentKept(out[c].cues, out[c].text)
      BY <2>2 DEF SegmentRows
    <3>2. TS!ChunksInOrder
      BY <2>2 DEF SentencesPartition
    <3>3. TS!RowsOfTheirOwn
      BY <2>2, <3>2, SegmentKeys
    <3>4. TS!LossIsBounded
      BY <3>1, SameCardinality DEF SegmentKept, TS!LossIsBounded, TS!Words, Words, TS!LastOf, LastOf
    <3> QED
      BY <3>3, <3>4
  <2> QED
    BY <2>1, <2>2 DEF ChunkRows
<1> QED
  BY <1>1, <1>2, TypeCorrect, SegmentsPartition, WindowRowsKept, SegmentRowsKept, PTL DEF Spec

-----------------------------------------------------------------------------
(***************************************************************************)
(* Induction, for sets of numbers, and the functions that recursion        *)
(* defines.                                                                *)
(***************************************************************************)

\* A set that has 0, and with each number the next, has them all.
LEMMA NatSetInduction ==
  ASSUME NEW S, 0 \in S, \A n \in Nat : n \in S => n + 1 \in S
  PROVE  Nat \subseteq S
<1> DEFINE Bad == Nat \ S
<1> SUFFICES ASSUME Bad # {}  PROVE FALSE
  OBVIOUS
<1>1. PICK x \in Bad : \A y \in Bad : ~(<<y, x>> \in OpToRel(<, Nat))
  <2>1. Bad \subseteq Nat
    OBVIOUS
  <2> HIDE DEF Bad
  <2> QED
    BY ONLY <2>1, Bad # {}, NatLessThanWellFounded, WFMin
<1>2. x \in Nat /\ x # 0 /\ x - 1 \in Nat /\ x - 1 < x /\ (x - 1) + 1 = x
  <2>1. x \in Nat /\ x \notin S
    OBVIOUS
  <2>2. x # 0
    BY <2>1
  <2> QED
    BY ONLY <2>1, <2>2
<1>3. <<x - 1, x>> \in OpToRel(<, Nat)
  BY <1>2 DEF OpToRel
<1>4. x - 1 \in S
  BY <1>1, <1>2, <1>3
<1> QED
  BY <1>1, <1>2, <1>4

\* The same up to m.
LEMMA InductionUpTo ==
  ASSUME NEW m \in Nat, NEW S, 0 \in S, \A n \in 0..(m - 1) : n \in S => n + 1 \in S
  PROVE  0..m \subseteq S
<1> DEFINE T == {n \in Nat : n <= m => n \in S}
<1>1. 0 \in T
  OBVIOUS
<1>2. ASSUME NEW n \in Nat, n \in T  PROVE n + 1 \in T
  BY <1>2
<1>3. Nat \subseteq T
  <2> HIDE DEF T
  <2> QED
    BY ONLY <1>1, <1>2, NatSetInduction
<1> QED
  BY <1>3

\* Ways to the next of N values, and the values they lead to.
Steps(V, N) == [V \X (1..N) -> V]
IteratesTo(g, base, h, N) ==
  \A n \in 0..N : g[n] = IF n = 0 THEN base ELSE h[<<g[n - 1], n>>]

\* A first value and a way to the next define a function on 0..N.
LEMMA Recursion ==
  ASSUME NEW V, NEW base \in V, NEW N \in Nat, NEW h \in Steps(V, N)
  PROVE  \E g \in [0..N -> V] : IteratesTo(g, base, h, N)
<1> USE DEF Steps
<1> DEFINE Good(g, m) == \A n \in 0..m : g[n] = IF n = 0 THEN base ELSE h[<<g[n - 1], n>>]
           S == {m \in 0..N : \E g \in [0..N -> V] : Good(g, m)}
<1>1. 0 \in S
  <2>1. [n \in 0..N |-> base] \in [0..N -> V] /\ Good([n \in 0..N |-> base], 0)
    OBVIOUS
  <2>2. 0 \in 0..N
    OBVIOUS
  <2> HIDE DEF Good
  <2> QED
    BY <2>1, <2>2
<1>2. ASSUME NEW m \in 0..(N - 1), m \in S  PROVE m + 1 \in S
  <2>1. PICK g \in [0..N -> V] : Good(g, m)
    BY <1>2
  <2> DEFINE e == [n \in 0..N |-> IF n = m + 1 THEN h[<<g[m], m + 1>>] ELSE g[n]]
  <2>2. m \in 0..N /\ m + 1 \in 0..N /\ m + 1 \in 1..N
    OBVIOUS
  <2>3. h[<<g[m], m + 1>>] \in V
    BY <2>2
  <2>4. e \in [0..N -> V]
    BY <2>3
  <2>5. ASSUME NEW n \in 0..(m + 1)
        PROVE  e[n] = IF n = 0 THEN base ELSE h[<<e[n - 1], n>>]
    <3>1. CASE n = m + 1
      <4>1. n - 1 = m /\ n # 0 /\ m # m + 1
        BY <3>1
      <4>2. e[n] = h[<<g[m], m + 1>>] /\ e[n - 1] = g[m]
        BY <2>2, <3>1, <4>1
      <4> QED
        BY <3>1, <4>1, <4>2
    <3>2. CASE n # m + 1
      <4>1. n \in 0..m /\ n \in 0..N
        BY <3>2
      <4>2. e[n] = g[n]
        BY <3>2, <4>1
      <4>3. ASSUME n # 0  PROVE e[n - 1] = g[n - 1]
        <5>1. n - 1 \in 0..N /\ n - 1 # m + 1
          BY <4>1, <4>3
        <5> QED
          BY <5>1
      <4> QED
        BY <2>1, <4>1, <4>2, <4>3
    <3> QED
      BY <3>1, <3>2
  <2> HIDE DEF e
  <2>6. Good(e, m + 1)
    BY <2>5
  <2> QED
    BY <2>2, <2>4, <2>6
<1>3. N \in S
  <2> HIDE DEF S
  <2> QED
    BY ONLY N \in Nat, <1>1, <1>2, InductionUpTo
<1> QED
  BY <1>3 DEF IteratesTo

-----------------------------------------------------------------------------
(***************************************************************************)
(* Reading: the parser's recursion exists, and reads line by line.         *)
(***************************************************************************)

\* The lines, the lines of a file, the cues read, and the parser's states.
Line == DOMAIN WordsOf
Item ==
  {Header} \cup {Times(s, e) : s \in Nat, e \in Nat} \cup {Text(l) : l \in Line}
Parsed == [start : Nat, end : Nat, lines : Seq(Line)]
Reading == [cues : Seq(Parsed), open : BOOLEAN, start : Nat, end : Nat, lines : Seq(Line)]

\* The parser after a file that may end here.
ReadAll(file) ==
  LET read[n \in 0..Len(file)] ==
        IF n = 0 THEN Closed(<<>>) ELSE ReadLine(read[n - 1], file[n])
  IN read[Len(file)]

\* Between cues.
LEMMA ClosedIsReading ==
  ASSUME NEW c \in Seq(Parsed)  PROVE Closed(c) \in Reading
<1>1. <<>> \in Seq(Line)
  OBVIOUS
<1> QED
  BY <1>1 DEF Closed, Reading

\* A cue is flushed into those before it.
LEMMA FlushIsReading ==
  ASSUME NEW p \in Reading  PROVE Flush(p) \in Reading /\ Flush(p).cues \in Seq(Parsed)
<1>1. p.cues \in Seq(Parsed) /\ p.start \in Nat /\ p.end \in Nat /\ p.lines \in Seq(Line)
  BY DEF Reading
<1>2. [start |-> p.start, end |-> p.end, lines |-> p.lines] \in Parsed
  BY <1>1 DEF Parsed
<1> DEFINE c == IF p.open /\ p.lines # <<>>
                THEN Append(p.cues, [start |-> p.start, end |-> p.end, lines |-> p.lines])
                ELSE p.cues
<1>3. c \in Seq(Parsed)
  BY <1>1, <1>2
<1>4. Flush(p) = Closed(c)
  BY DEF Flush
<1>5. Closed(c).cues = c
  BY DEF Closed
<1> HIDE DEF c
<1> QED
  BY <1>3, <1>4, <1>5, ClosedIsReading

\* A header ends a cue, and no more.
LEMMA ReadHeader ==
  ASSUME NEW p  PROVE ReadLine(p, Header) = Flush(p)
BY DEF ReadLine, Header

\* Times end a cue and start one.
LEMMA ReadTimes ==
  ASSUME NEW p, NEW s, NEW e
  PROVE  ReadLine(p, Times(s, e)) =
           [cues |-> Flush(p).cues, open |-> TRUE, start |-> s, end |-> e, lines |-> <<>>]
BY DEF ReadLine, Times, Flush, Closed

\* A line of text joins the cue that is open.
LEMMA ReadText ==
  ASSUME NEW p \in Reading, NEW l, l \notin Numbers \/ p.open
  PROVE  ReadLine(p, Text(l)) =
           [cues |-> p.cues, open |-> p.open, start |-> p.start, end |-> p.end,
            lines |-> Append(p.lines, l)]
BY DEF ReadLine, Text, Reading

\* Each line leaves the parser in one of its states.
LEMMA ReadLineIsReading ==
  ASSUME NEW p \in Reading, NEW x \in Item  PROVE ReadLine(p, x) \in Reading
<1>1. CASE x = Header
  BY <1>1, ReadHeader, FlushIsReading
<1>2. ASSUME NEW s \in Nat, NEW e \in Nat, x = Times(s, e)  PROVE ReadLine(p, x) \in Reading
  <2>1. <<>> \in Seq(Line)
    OBVIOUS
  <2>2. ReadLine(p, x) =
          [cues |-> Flush(p).cues, open |-> TRUE, start |-> s, end |-> e, lines |-> <<>>]
    BY <1>2, ReadTimes
  <2>3. Flush(p).cues \in Seq(Parsed)
    BY FlushIsReading
  <2> QED
    BY <2>1, <2>2, <2>3 DEF Reading
<1>3. ASSUME NEW l \in Line, x = Text(l)  PROVE ReadLine(p, x) \in Reading
  <2>1. CASE l \in Numbers /\ ~p.open
    <3>1. ReadLine(p, x) = p
      BY <1>3, <2>1 DEF ReadLine, Text
    <3> QED
      BY <3>1
  <2>2. CASE l \notin Numbers \/ p.open
    <3>1. Append(p.lines, l) \in Seq(Line)
      BY DEF Reading
    <3>2. ReadLine(p, x) =
            [cues |-> p.cues, open |-> p.open, start |-> p.start, end |-> p.end,
             lines |-> Append(p.lines, l)]
      BY <1>3, <2>2, ReadText
    <3> QED
      BY <3>1, <3>2 DEF Reading
  <2> QED
    BY <2>1, <2>2
<1> QED
  BY <1>1, <1>2, <1>3 DEF Item

\* The reader's steps, of a file.
Reads(read, file) ==
  read = [n \in 0..Len(file) |->
            IF n = 0 THEN Closed(<<>>) ELSE ReadLine(read[n - 1], file[n])]

\* The function that the recursion defines.
LEMMA ReadsExists ==
  ASSUME NEW file \in Seq(Item)
  PROVE  \E read \in [0..Len(file) -> Reading] : Reads(read, file)
<1> DEFINE N == Len(file)
           h == [pn \in Reading \X (1..N) |-> ReadLine(pn[1], file[pn[2]])]
           base == Closed(<<>>)
<1>1. N \in Nat
  OBVIOUS
<1>2. h \in Steps(Reading, N)
  BY ReadLineIsReading DEF Steps
<1>3. base \in Reading
  <2>1. <<>> \in Seq(Parsed)
    OBVIOUS
  <2> QED
    BY <2>1, ClosedIsReading
<1>4. PICK g \in [0..N -> Reading] : IteratesTo(g, base, h, N)
  <2> HIDE DEF N, h, base
  <2> QED
    BY ONLY <1>1, <1>2, <1>3, Recursion
<1>5. ASSUME NEW n \in 0..N
      PROVE  g[n] = IF n = 0 THEN Closed(<<>>) ELSE ReadLine(g[n - 1], file[n])
  <2>1. CASE n # 0
    <3>1. n - 1 \in 0..N /\ n \in 1..N
      BY <2>1
    <3>2. <<g[n - 1], n>> \in Reading \X (1..N)
      BY <3>1
    <3>3. h[<<g[n - 1], n>>] = ReadLine(g[n - 1], file[n])
      BY <3>2
    <3> QED
      BY <1>4, <2>1, <3>3 DEF IteratesTo
  <2> QED
    BY <1>4, <2>1 DEF IteratesTo
<1>6. Reads(g, file)
  <2>1. g = [n \in 0..N |-> g[n]]
    OBVIOUS
  <2> QED
    BY <1>5, <2>1 DEF Reads
<1> QED
  BY <1>6

\* It is what the recursion chooses.
LEMMA ReadAllReads ==
  ASSUME NEW file \in Seq(Item)
  PROVE  \E read : Reads(read, file) /\ ReadAll(file) = read[Len(file)]
<1> DEFINE r == CHOOSE read : Reads(read, file)
<1>1. Reads(r, file)
  BY ReadsExists
<1>2. ReadAll(file) = r[Len(file)]
  BY DEF ReadAll, Reads
<1> HIDE DEF r
<1> QED
  BY <1>1, <1>2

\* An empty file leaves the parser as it starts.
LEMMA ReadNothing == ReadAll(<<>>) = Closed(<<>>)
<1>1. <<>> \in Seq(Item) /\ Len(<<>>) = 0
  OBVIOUS
<1>2. PICK r : Reads(r, <<>>) /\ ReadAll(<<>>) = r[0]
  BY <1>1, ReadAllReads
<1>3. r[0] = Closed(<<>>)
  BY <1>2 DEF Reads
<1> QED
  BY <1>2, <1>3

\* Two files that start alike are read alike so far.
LEMMA ReadAlike ==
  ASSUME NEW f \in Seq(Item), NEW g \in Seq(Item), NEW m \in Nat, m <= Len(f), m <= Len(g),
         \A n \in 1..m : f[n] = g[n],
         NEW r, NEW q, Reads(r, f), Reads(q, g)
  PROVE  r[m] = q[m]
<1> DEFINE S == {n \in 0..m : r[n] = q[n]}
<1>1. 0 \in S
  BY DEF Reads
<1>2. ASSUME NEW n \in 0..(m - 1), n \in S  PROVE n + 1 \in S
  <2>1. n + 1 \in 0..Len(f) /\ n + 1 \in 0..Len(g) /\ n + 1 \in 1..m /\ n + 1 # 0
        /\ (n + 1) - 1 = n
    OBVIOUS
  <2>2. r[n + 1] = ReadLine(r[n], f[n + 1])
    BY <2>1 DEF Reads
  <2>3. q[n + 1] = ReadLine(q[n], g[n + 1])
    BY <2>1 DEF Reads
  <2> QED
    BY <1>2, <2>1, <2>2, <2>3
<1>3. 0..m \subseteq S
  <2> HIDE DEF S
  <2> QED
    BY ONLY m \in Nat, <1>1, <1>2, InductionUpTo
<1> QED
  BY <1>3

\* A line more is read after those before it.
LEMMA ReadOn ==
  ASSUME NEW file \in Seq(Item), NEW x \in Item
  PROVE  ReadAll(Append(file, x)) = ReadLine(ReadAll(file), x)
<1> DEFINE longer == Append(file, x)
           m == Len(file)
<1>1. longer \in Seq(Item) /\ Len(longer) = m + 1 /\ m \in Nat /\ longer[m + 1] = x
      /\ \A n \in 1..m : file[n] = longer[n]
  OBVIOUS
<1>2. PICK r : Reads(r, file) /\ ReadAll(file) = r[m]
  BY ReadAllReads
<1> HIDE DEF longer
<1>3. PICK q : Reads(q, longer) /\ ReadAll(longer) = q[m + 1]
  BY <1>1, ReadAllReads
<1> HIDE DEF m
<1>4. r[m] = q[m]
  <2>1. m <= Len(file) /\ m <= Len(longer)
    BY <1>1 DEF m
  <2> QED
    BY <1>1, <1>2, <1>3, <2>1, ReadAlike
<1>5. q[m + 1] = ReadLine(q[m], longer[m + 1])
  BY <1>1, <1>3 DEF Reads
<1> QED
  BY <1>1, <1>2, <1>3, <1>4, <1>5 DEF longer

\* The parser is in one of its states after any file.
LEMMA ReadIsReading ==
  ASSUME NEW file \in Seq(Item)  PROVE ReadAll(file) \in Reading
<1>1. PICK q \in [0..Len(file) -> Reading] : Reads(q, file)
  BY ReadsExists
<1>2. PICK r : Reads(r, file) /\ ReadAll(file) = r[Len(file)]
  BY ReadAllReads
<1>3. Len(file) \in Nat /\ Len(file) <= Len(file) /\ Len(file) \in 0..Len(file)
  OBVIOUS
<1>4. r[Len(file)] = q[Len(file)]
  BY <1>1, <1>2, <1>3, ReadAlike
<1> QED
  BY <1>1, <1>2, <1>3, <1>4

-----------------------------------------------------------------------------
(***************************************************************************)
(* Hearing: so does the deduplication's, cue by cue.                       *)
(***************************************************************************)

\* A bounded set of numbers has a largest.
LEMMA Largest ==
  ASSUME NEW m \in Nat, NEW S \in SUBSET (0..m), S # {}
  PROVE  \E x \in S : \A y \in S : x >= y
<1> SUFFICES ASSUME \A x \in S : \E y \in S : ~(x >= y)  PROVE FALSE
  OBVIOUS
<1> DEFINE T == {k \in 0..m : \A x \in S : x + k <= m}
<1>1. 0 \in T
  OBVIOUS
<1>2. ASSUME NEW k \in 0..(m - 1), k \in T  PROVE k + 1 \in T
  <2>1. k + 1 \in 0..m
    OBVIOUS
  <2>2. ASSUME NEW x \in S  PROVE x + (k + 1) <= m
    <3>1. PICK y \in S : ~(x >= y)
      OBVIOUS
    <3>2. y + k <= m /\ x \in Nat /\ y \in Nat
      BY <1>2
    <3> QED
      BY <3>1, <3>2
  <2> QED
    BY <2>1, <2>2
<1>3. 0..m \subseteq T
  <2> HIDE DEF T
  <2> QED
    BY ONLY m \in Nat, <1>1, <1>2, InductionUpTo
<1>4. \A x \in S : x + m <= m
  BY <1>3
<1>5. \A x \in S : x = 0
  BY <1>4
<1>6. PICK x \in S : TRUE
  OBVIOUS
<1>7. PICK y \in S : ~(x >= y)
  OBVIOUS
<1> QED
  BY <1>5, <1>6, <1>7

\* How many leading lines repeat the tail.
Repeats(lines, tail, n) ==
  /\ n \in 0..Len(lines)
  /\ \A j \in 1..n : lines[j] = tail
  /\ n < Len(lines) => lines[n + 1] # tail

\* The dedup drops all leading repeats, and nothing else.
LEMMA KeptLines ==
  ASSUME NEW lines \in Seq(Line), NEW tail
  PROVE  \E n : Repeats(lines, tail, n) /\ Kept(lines, tail) = SubSeq(lines, 1 + n, Len(lines))
<1> DEFINE R == {n \in 0..Len(lines) : \A i \in 1..n : lines[i] = tail}
           Biggest(n) == \A m \in R : m <= n
           x == CHOOSE n \in R : Biggest(n)
<1>1. 0 \in R /\ Len(lines) \in Nat /\ R \in SUBSET (0..Len(lines))
  OBVIOUS
<1>2. \E n \in R : Biggest(n)
  <2>1. PICK n \in R : \A y \in R : n >= y
    <3> HIDE DEF R
    <3> QED
      BY <1>1, Largest
  <2>2. Biggest(n)
    BY <2>1
  <2> HIDE DEF Biggest, R
  <2> QED
    BY <2>2
<1>3. x \in R /\ Biggest(x)
  <2> HIDE DEF R, Biggest
  <2> QED
    BY <1>2
<1>4. Kept(lines, tail) = SubSeq(lines, 1 + x, Len(lines))
  BY DEF Kept
<1> HIDE DEF x
<1>5. ASSUME x < Len(lines), lines[x + 1] = tail  PROVE FALSE
  <2>1. x + 1 \in 0..Len(lines) /\ x \in Nat
    BY <1>3, <1>5
  <2>2. ASSUME NEW i \in 1..(x + 1)  PROVE lines[i] = tail
    BY <1>3, <1>5, <2>1
  <2>3. x + 1 \in R
    BY <2>1, <2>2
  <2> QED
    BY <1>3, <2>1, <2>3
<1>6. Repeats(lines, tail, x)
  BY <1>3, <1>5 DEF Repeats
<1> QED
  BY <1>4, <1>6

\* What is heard, and the deduplication's states, the first one last.
SaidWords == {Said(l) : l \in Seq(Line)}
Heard == [start : Nat, end : Nat, words : SaidWords]
Hearing == [tail : Line \cup {NoLine}, out : Seq(Heard)]
Silence == [tail |-> NoLine, out |-> <<>>]

\* What it keeps are lines.
LEMMA KeptIsLines ==
  ASSUME NEW lines \in Seq(Line), NEW tail
  PROVE  Kept(lines, tail) \in Seq(Line)
<1>1. PICK n : Repeats(lines, tail, n) /\ Kept(lines, tail) = SubSeq(lines, 1 + n, Len(lines))
  BY KeptLines
<1>2. n \in 0..Len(lines) /\ Len(lines) \in Nat
  BY <1>1 DEF Repeats
<1>3. \A i \in (1 + n)..Len(lines) : lines[i] \in Line
  BY <1>2
<1>4. SubSeq(lines, 1 + n, Len(lines)) \in Seq(Line)
  BY <1>2, <1>3
<1> QED
  BY <1>1, <1>4

\* Each cue leaves the deduplication in one of its states.
LEMMA EmitIsHearing ==
  ASSUME NEW p \in Hearing, NEW cue \in Parsed  PROVE EmitCue(p, cue) \in Hearing
<1> DEFINE kept == Kept(cue.lines, p.tail)
           heard == [start |-> cue.start, end |-> cue.end, words |-> Said(kept)]
<1>1. cue.start \in Nat /\ cue.end \in Nat /\ cue.lines \in Seq(Line)
  BY DEF Parsed
<1>2. p.out \in Seq(Heard) /\ p.tail \in Line \cup {NoLine}
  BY DEF Hearing
<1>3. kept \in Seq(Line)
  BY <1>1, KeptIsLines
<1>4. EmitCue(p, cue) = [tail |-> TailAfter(kept, p.tail), out |-> Append(p.out, heard)]
  BY DEF EmitCue
<1> HIDE DEF kept
<1>5. Said(kept) \in SaidWords
  BY <1>3 DEF SaidWords
<1>6. heard \in Heard
  BY <1>1, <1>5 DEF Heard
<1>7. TailAfter(kept, p.tail) \in Line \cup {NoLine}
  <2>1. CASE kept = <<>>
    BY <1>2, <2>1 DEF TailAfter
  <2>2. CASE kept # <<>>
    <3>1. kept[Len(kept)] \in Line
      BY <1>3, <2>2
    <3> QED
      BY <2>2, <3>1 DEF TailAfter, Last
  <2> QED
    BY <2>1, <2>2
<1> HIDE DEF heard
<1>8. Append(p.out, heard) \in Seq(Heard)
  BY <1>2, <1>6
<1> QED
  BY <1>4, <1>7, <1>8 DEF Hearing

\* The deduplication after a transcript that may end here.
EmitAll(parsed) ==
  LET emitted[n \in 0..Len(parsed)] ==
        IF n = 0 THEN [tail |-> NoLine, out |-> <<>>] ELSE EmitCue(emitted[n - 1], parsed[n])
  IN emitted[Len(parsed)]

\* The deduplication's steps, of a transcript.
Emits(emitted, parsed) ==
  emitted = [n \in 0..Len(parsed) |->
               IF n = 0 THEN [tail |-> NoLine, out |-> <<>>]
               ELSE EmitCue(emitted[n - 1], parsed[n])]

\* The function that its recursion defines.
LEMMA EmitsExists ==
  ASSUME NEW parsed \in Seq(Parsed)
  PROVE  \E emitted \in [0..Len(parsed) -> Hearing] : Emits(emitted, parsed)
<1> DEFINE N == Len(parsed)
           h == [pn \in Hearing \X (1..N) |-> EmitCue(pn[1], parsed[pn[2]])]
<1>1. N \in Nat
  OBVIOUS
<1>2. h \in Steps(Hearing, N)
  BY EmitIsHearing DEF Steps
<1>3. Silence \in Hearing
  <2>1. <<>> \in Seq(Heard)
    OBVIOUS
  <2> QED
    BY <2>1 DEF Hearing, Silence
<1>4. PICK g \in [0..N -> Hearing] : IteratesTo(g, Silence, h, N)
  <2> HIDE DEF N, h
  <2> QED
    BY ONLY <1>1, <1>2, <1>3, Recursion
<1>5. ASSUME NEW n \in 0..N
      PROVE  g[n] = IF n = 0 THEN Silence ELSE EmitCue(g[n - 1], parsed[n])
  <2>1. CASE n # 0
    <3>1. n - 1 \in 0..N /\ n \in 1..N
      BY <2>1
    <3>2. <<g[n - 1], n>> \in Hearing \X (1..N)
      BY <3>1
    <3>3. h[<<g[n - 1], n>>] = EmitCue(g[n - 1], parsed[n])
      BY <3>2
    <3> QED
      BY <1>4, <2>1, <3>3 DEF IteratesTo
  <2> QED
    BY <1>4, <2>1 DEF IteratesTo
<1>6. Emits(g, parsed)
  <2>1. g = [n \in 0..N |-> g[n]]
    OBVIOUS
  <2> QED
    BY <1>5, <2>1 DEF Emits, Silence
<1> QED
  BY <1>6

\* It is what the recursion chooses.
LEMMA EmitAllEmits ==
  ASSUME NEW parsed \in Seq(Parsed)
  PROVE  \E emitted : Emits(emitted, parsed) /\ EmitAll(parsed) = emitted[Len(parsed)]
<1> DEFINE r == CHOOSE emitted : Emits(emitted, parsed)
<1>1. Emits(r, parsed)
  BY EmitsExists
<1>2. EmitAll(parsed) = r[Len(parsed)]
  BY DEF EmitAll, Emits
<1> HIDE DEF r
<1> QED
  BY <1>1, <1>2

\* Without cues nothing is heard.
LEMMA EmitNothing == EmitAll(<<>>) = Silence
<1>1. <<>> \in Seq(Parsed) /\ Len(<<>>) = 0
  OBVIOUS
<1>2. PICK r : Emits(r, <<>>) /\ EmitAll(<<>>) = r[0]
  BY <1>1, EmitAllEmits
<1>3. r[0] = Silence
  BY <1>2 DEF Emits, Silence
<1> QED
  BY <1>2, <1>3

\* Two transcripts that start alike are heard alike so far.
LEMMA EmitAlike ==
  ASSUME NEW f \in Seq(Parsed), NEW g \in Seq(Parsed), NEW m \in Nat, m <= Len(f), m <= Len(g),
         \A n \in 1..m : f[n] = g[n],
         NEW r, NEW q, Emits(r, f), Emits(q, g)
  PROVE  r[m] = q[m]
<1> DEFINE S == {n \in 0..m : r[n] = q[n]}
<1>1. 0 \in S
  BY DEF Emits
<1>2. ASSUME NEW n \in 0..(m - 1), n \in S  PROVE n + 1 \in S
  <2>1. n + 1 \in 0..Len(f) /\ n + 1 \in 0..Len(g) /\ n + 1 \in 1..m /\ n + 1 # 0
        /\ (n + 1) - 1 = n
    OBVIOUS
  <2>2. r[n + 1] = EmitCue(r[n], f[n + 1])
    BY <2>1 DEF Emits
  <2>3. q[n + 1] = EmitCue(q[n], g[n + 1])
    BY <2>1 DEF Emits
  <2> QED
    BY <1>2, <2>1, <2>2, <2>3
<1>3. 0..m \subseteq S
  <2> HIDE DEF S
  <2> QED
    BY ONLY m \in Nat, <1>1, <1>2, InductionUpTo
<1> QED
  BY <1>3

\* A cue more is heard after those before it.
LEMMA EmitOn ==
  ASSUME NEW parsed \in Seq(Parsed), NEW cue \in Parsed
  PROVE  EmitAll(Append(parsed, cue)) = EmitCue(EmitAll(parsed), cue)
<1> DEFINE longer == Append(parsed, cue)
           m == Len(parsed)
<1>1. longer \in Seq(Parsed) /\ Len(longer) = m + 1 /\ m \in Nat /\ longer[m + 1] = cue
      /\ \A n \in 1..m : parsed[n] = longer[n]
  OBVIOUS
<1>2. PICK r : Emits(r, parsed) /\ EmitAll(parsed) = r[m]
  BY EmitAllEmits
<1> HIDE DEF longer
<1>3. PICK q : Emits(q, longer) /\ EmitAll(longer) = q[m + 1]
  BY <1>1, EmitAllEmits
<1> HIDE DEF m
<1>4. r[m] = q[m]
  <2>1. m <= Len(parsed) /\ m <= Len(longer)
    BY <1>1 DEF m
  <2> QED
    BY <1>1, <1>2, <1>3, <2>1, EmitAlike
<1>5. q[m + 1] = EmitCue(q[m], longer[m + 1])
  BY <1>1, <1>3 DEF Emits
<1> QED
  BY <1>1, <1>2, <1>3, <1>4, <1>5 DEF longer

\* The deduplication is in one of its states after any cues.
LEMMA EmitAllIsHearing ==
  ASSUME NEW parsed \in Seq(Parsed)  PROVE EmitAll(parsed) \in Hearing
<1>1. PICK q \in [0..Len(parsed) -> Hearing] : Emits(q, parsed)
  BY EmitsExists
<1>2. PICK r : Emits(r, parsed) /\ EmitAll(parsed) = r[Len(parsed)]
  BY EmitAllEmits
<1>3. Len(parsed) \in Nat /\ Len(parsed) <= Len(parsed) /\ Len(parsed) \in 0..Len(parsed)
  OBVIOUS
<1>4. r[Len(parsed)] = q[Len(parsed)]
  BY <1>1, <1>2, <1>3, EmitAlike
<1> QED
  BY <1>1, <1>2, <1>3, <1>4

-----------------------------------------------------------------------------
(***************************************************************************)
(* What was shown: residues, the lines of a cue, the file.                 *)
(***************************************************************************)

\* A cue on screen, and what CONSTANT Screens holds.
ShownCue == [start : Nat, end : Nat, fresh : Seq(Line)]
Screen == [rolls : BOOLEAN, cues : Seq(ShownCue)]

\* Earlier cues that brought a line.
Earlier(c, i) == {j \in 1..(i - 1) : c[j].fresh # <<>>}

\* Max is the largest.
LEMMA LargestIsMax ==
  ASSUME NEW m \in Nat, NEW S \in SUBSET (1..m), S # {}
  PROVE  Max(S) \in S /\ \A y \in S : Max(S) >= y
<1> DEFINE Biggest(x) == \A y \in S : x >= y
<1>1. S \in SUBSET (0..m)
  OBVIOUS
<1>2. PICK x \in S : \A y \in S : x >= y
  BY <1>1, Largest
<1>3. Biggest(x)
  BY <1>2
<1>4. Max(S) = CHOOSE z \in S : Biggest(z)
  BY DEF Max
<1>5. Max(S) \in S /\ Biggest(Max(S))
  <2> HIDE DEF Biggest
  <2> QED
    BY <1>3, <1>4
<1> QED
  BY <1>5

\* What a cue on screen is.
LEMMA FreshLines ==
  ASSUME NEW c \in Seq(ShownCue), NEW i \in 1..Len(c)
  PROVE  c[i].start \in Nat /\ c[i].end \in Nat /\ c[i].fresh \in Seq(Line)
<1>1. c[i] \in ShownCue
  OBVIOUS
<1> QED
  BY <1>1 DEF ShownCue

\* A residue is nothing or a line.
LEMMA ResidueIsALine ==
  ASSUME NEW c \in Seq(ShownCue), NEW i \in 1..(Len(c) + 1)
  PROVE  Residue(c, i) = <<>> \/ \E x \in Line : Residue(c, i) = <<x>>
<1> DEFINE B == Earlier(c, i)
<1>1. Residue(c, i) = IF B = {} THEN <<>> ELSE <<Last(c[Max(B)].fresh)>>
  BY DEF Residue, Earlier
<1>2. ASSUME B # {}  PROVE Last(c[Max(B)].fresh) \in Line
  <2>1. i - 1 \in Nat /\ B \in SUBSET (1..(i - 1)) /\ Len(c) \in Nat
    BY DEF Earlier
  <2> DEFINE k == Max(B)
  <2>2. k \in B
    <3> HIDE DEF B
    <3> QED
      BY <1>2, <2>1, LargestIsMax
  <2> HIDE DEF k
  <2>3. k \in 1..Len(c) /\ c[k].fresh # <<>>
    BY <2>1, <2>2 DEF Earlier
  <2>4. c[k].fresh \in Seq(Line)
    BY <2>3, FreshLines
  <2> DEFINE f == c[k].fresh
  <2>5. f \in Seq(Line) /\ f # <<>>
    BY <2>3, <2>4
  <2> HIDE DEF f
  <2>6. Last(f) \in Line
    BY <2>5 DEF Last
  <2> QED
    BY <2>6 DEF f, k
<1> HIDE DEF B
<1> QED
  BY <1>1, <1>2

\* A cue without new lines leaves the residue as it is.
LEMMA ResidueKept ==
  ASSUME NEW c \in Seq(ShownCue), NEW i \in 1..Len(c), c[i].fresh = <<>>
  PROVE  Residue(c, i + 1) = Residue(c, i)
<1>1. Earlier(c, i + 1) = Earlier(c, i)
  BY DEF Earlier
<1>2. \A k : Residue(c, k) =
          IF Earlier(c, k) = {} THEN <<>> ELSE <<Last(c[Max(Earlier(c, k))].fresh)>>
  BY DEF Residue, Earlier
<1> QED
  BY <1>1, <1>2

\* Another leaves its last line.
LEMMA ResidueNew ==
  ASSUME NEW c \in Seq(ShownCue), NEW i \in 1..Len(c), c[i].fresh # <<>>
  PROVE  Residue(c, i + 1) = <<Last(c[i].fresh)>>
<1> DEFINE B == Earlier(c, i + 1)
<1>1. i \in Nat /\ (i + 1) - 1 = i
  OBVIOUS
<1>2. i \in B /\ B \in SUBSET (1..i)
  BY DEF Earlier
<1>3. Residue(c, i + 1) = IF B = {} THEN <<>> ELSE <<Last(c[Max(B)].fresh)>>
  BY DEF Residue, Earlier
<1> HIDE DEF B
<1>4. Max(B) \in B /\ \A y \in B : Max(B) >= y
  BY <1>1, <1>2, LargestIsMax
<1>5. Max(B) = i
  <2>1. Max(B) \in 1..i /\ Max(B) >= i
    BY <1>2, <1>4
  <2> HIDE DEF B
  <2> DEFINE m == Max(B)
  <2>2. m \in 1..i /\ m >= i
    BY <2>1
  <2> HIDE DEF m
  <2>3. m = i
    BY ONLY <1>1, <2>2
  <2> QED
    BY <2>3 DEF m
<1> QED
  BY <1>2, <1>3, <1>5

\* What a cue shows are lines.
LEMMA LinesOfIsLines ==
  ASSUME NEW s \in Screen, NEW i \in 1..Len(s.cues)
  PROVE  LinesOf(s, i) \in Seq(Line)
<1>1. s.cues \in Seq(ShownCue)
  BY DEF Screen
<1>2. s.cues[i].fresh \in Seq(Line)
  BY <1>1, FreshLines
<1> DEFINE r == IF s.rolls THEN Residue(s.cues, i) ELSE <<>>
<1>3. i \in 1..(Len(s.cues) + 1)
  BY <1>1
<1>4. r \in Seq(Line)
  <2>1. Residue(s.cues, i) = <<>> \/ \E x \in Line : Residue(s.cues, i) = <<x>>
    BY <1>1, <1>3, ResidueIsALine
  <2>2. <<>> \in Seq(Line) /\ \A x \in Line : <<x>> \in Seq(Line)
    OBVIOUS
  <2>3. r = <<>> \/ r = Residue(s.cues, i)
    OBVIOUS
  <2> HIDE DEF r
  <2> QED
    BY <2>1, <2>2, <2>3
<1>5. LinesOf(s, i) = r \o s.cues[i].fresh
  BY DEF LinesOf
<1> HIDE DEF r
<1> QED
  BY <1>2, <1>4, <1>5

\* A cue in the file.
TextsOf(lines) == [k \in DOMAIN lines |-> Text(lines[k])]
BlockOf(s, i) == <<Times(s.cues[i].start, s.cues[i].end)>> \o TextsOf(LinesOf(s, i))

\* Lines are written as text,
LEMMA TextsAreItems ==
  ASSUME NEW lines \in Seq(Line)
  PROVE  TextsOf(lines) \in Seq(Item) /\ Len(TextsOf(lines)) = Len(lines)
<1>1. \A k \in 1..Len(lines) : lines[k] \in Line
  OBVIOUS
<1>2. \A k \in 1..Len(lines) : Text(lines[k]) \in Item
  BY <1>1 DEF Item
<1>3. DOMAIN lines = 1..Len(lines) /\ Len(lines) \in Nat
  OBVIOUS
<1> QED
  BY <1>2, <1>3 DEF TextsOf

\* and times as times,
LEMMA TimesAreItems ==
  ASSUME NEW a \in Nat, NEW b \in Nat
  PROVE  Times(a, b) \in Item /\ <<Times(a, b)>> \in Seq(Item)
<1>1. Times(a, b) \in Item
  BY DEF Item
<1> QED
  BY <1>1

\* so that a cue becomes lines of a file.
LEMMA BlockIsItems ==
  ASSUME NEW s \in Screen, NEW i \in 1..Len(s.cues)
  PROVE  BlockOf(s, i) \in Seq(Item)
<1>1. s.cues \in Seq(ShownCue)
  BY DEF Screen
<1>2. s.cues[i].start \in Nat /\ s.cues[i].end \in Nat
  BY <1>1, FreshLines
<1>3. <<Times(s.cues[i].start, s.cues[i].end)>> \in Seq(Item)
  BY <1>2, TimesAreItems
<1>4. TextsOf(LinesOf(s, i)) \in Seq(Item)
  BY LinesOfIsLines, TextsAreItems
<1> QED
  BY <1>3, <1>4 DEF BlockOf

\* The file so far, cue by cue.
Writes(file, s) ==
  file = [i \in 0..Len(s.cues) |-> IF i = 0 THEN <<Header>> ELSE file[i - 1] \o BlockOf(s, i)]

\* The file is what its recursion defines,
LEMMA WritesExists ==
  ASSUME NEW s \in Screen
  PROVE  \E file \in [0..Len(s.cues) -> Seq(Item)] : Writes(file, s)
<1> DEFINE N == Len(s.cues)
           V == Seq(Item)
           h == [pn \in V \X (1..N) |-> pn[1] \o BlockOf(s, pn[2])]
           base == <<Header>>
<1>1. N \in Nat
  BY DEF Screen
<1>2. h \in Steps(V, N)
  <2>1. \A f \in V, i \in 1..N : f \o BlockOf(s, i) \in V
    BY BlockIsItems
  <2> HIDE DEF V
  <2> QED
    BY <2>1 DEF Steps
<1>3. base \in V
  <2>1. Header \in Item
    BY DEF Item
  <2> QED
    BY <2>1
<1>4. PICK g \in [0..N -> V] : IteratesTo(g, base, h, N)
  <2> HIDE DEF N, h, V, base
  <2> QED
    BY ONLY <1>1, <1>2, <1>3, Recursion
<1>5. ASSUME NEW i \in 0..N
      PROVE  g[i] = IF i = 0 THEN <<Header>> ELSE g[i - 1] \o BlockOf(s, i)
  <2>1. CASE i # 0
    <3>1. i - 1 \in 0..N /\ i \in 1..N
      BY <2>1
    <3>2. <<g[i - 1], i>> \in V \X (1..N)
      BY <3>1
    <3>3. h[<<g[i - 1], i>>] = g[i - 1] \o BlockOf(s, i)
      <4> HIDE DEF V
      <4> QED
        BY <3>2
    <3> HIDE DEF h
    <3> QED
      BY <1>4, <2>1, <3>3 DEF IteratesTo
  <2> HIDE DEF h
  <2> QED
    BY <1>4, <2>1 DEF IteratesTo
<1>6. Writes(g, s)
  <2>1. g = [i \in 0..N |-> g[i]]
    OBVIOUS
  <2> QED
    BY <1>5, <2>1 DEF Writes
<1> QED
  BY <1>6

\* and chooses.
LEMMA FileWrites ==
  ASSUME NEW s \in Screen
  PROVE  \E file : Writes(file, s) /\ FileOf(s) = file[Len(s.cues)]
<1> DEFINE r == CHOOSE file : Writes(file, s)
<1>1. Writes(r, s)
  BY WritesExists
<1>2. FileOf(s) = r[Len(s.cues)]
  BY DEF FileOf, Writes, BlockOf, TextsOf
<1> HIDE DEF r
<1> QED
  BY <1>1, <1>2

\* What is written so far is a file.
LEMMA WritesItems ==
  ASSUME NEW s \in Screen, NEW file, Writes(file, s)
  PROVE  \A i \in 0..Len(s.cues) : file[i] \in Seq(Item)
<1> DEFINE N == Len(s.cues)
           S == {i \in 0..N : file[i] \in Seq(Item)}
<1>1. N \in Nat
  BY DEF Screen
<1>2. 0 \in S
  <2>1. Header \in Item
    BY DEF Item
  <2>2. file[0] = <<Header>>
    BY <1>1 DEF Writes
  <2>3. 0 \in 0..N
    BY <1>1
  <2>4. <<Header>> \in Seq(Item)
    BY <2>1
  <2> QED
    BY <2>2, <2>3, <2>4
<1>3. ASSUME NEW i \in 0..(N - 1), i \in S  PROVE i + 1 \in S
  <2>1. i + 1 \in 0..N /\ i + 1 \in 1..N /\ i + 1 # 0 /\ (i + 1) - 1 = i
    BY <1>1
  <2>2. file[i + 1] = file[i] \o BlockOf(s, i + 1)
    BY <2>1 DEF Writes
  <2>3. BlockOf(s, i + 1) \in Seq(Item)
    BY <2>1, BlockIsItems
  <2>4. file[i] \in Seq(Item)
    BY <1>3
  <2>5. file[i + 1] \in Seq(Item)
    BY <2>2, <2>3, <2>4
  <2> QED
    BY <2>1, <2>5
<1>4. 0..N \subseteq S
  <2> HIDE DEF S, N
  <2> QED
    BY ONLY <1>1, <1>2, <1>3, InductionUpTo
<1> QED
  BY <1>4

-----------------------------------------------------------------------------
(***************************************************************************)
(* A cue of the file is read as it was shown, and its residue dropped.     *)
(***************************************************************************)

\* One more line of a cue.
LEMMA TextsOn ==
  ASSUME NEW lines \in Seq(Line), NEW l \in Line
  PROVE  TextsOf(Append(lines, l)) = Append(TextsOf(lines), Text(l))
<1> DEFINE a == TextsOf(Append(lines, l))
           b == Append(TextsOf(lines), Text(l))
           n == Len(lines)
<1>1. n \in Nat /\ DOMAIN lines = 1..n /\ DOMAIN Append(lines, l) = 1..(n + 1)
      /\ Append(lines, l)[n + 1] = l /\ \A k \in 1..n : Append(lines, l)[k] = lines[k]
  OBVIOUS
<1>2. a = [k \in 1..(n + 1) |-> Text(Append(lines, l)[k])]
  BY <1>1 DEF TextsOf
<1>3. TextsOf(lines) \in Seq(Item) /\ Len(TextsOf(lines)) = n
  BY TextsAreItems
<1>4. \A k \in 1..n : TextsOf(lines)[k] = Text(lines[k])
  BY <1>1 DEF TextsOf
<1> DEFINE t == TextsOf(lines)
<1> HIDE DEF t, n
<1>5. b = Append(t, Text(l))
  BY DEF t
<1>6. b = [k \in 1..(n + 1) |-> IF k = n + 1 THEN Text(l) ELSE t[k]]
  <2>1. t \in Seq(Item) /\ Len(t) = n
    BY <1>3 DEF t
  <2>2. Text(l) \in Item
    BY DEF Item
  <2> HIDE DEF b
  <2> DEFINE x == Text(l)
  <2> HIDE DEF x
  <2>3. b = Append(t, x) /\ x \in Item
    BY <1>5, <2>2 DEF x
  <2>4. n \in Nat
    BY <1>1
  <2>5. b \in Seq(Item) /\ Len(b) = n + 1
    BY <2>1, <2>3, <2>4
  <2>6. \A k \in 1..(n + 1) : b[k] = IF k = n + 1 THEN x ELSE t[k]
    BY <2>1, <2>3, <2>4
  <2>7. b = [k \in 1..(n + 1) |-> b[k]]
    BY <2>5
  <2> QED
    BY <2>6, <2>7 DEF x
<1> HIDE DEF a, b
<1>7. \A k \in 1..(n + 1) : Text(Append(lines, l)[k]) = IF k = n + 1 THEN Text(l) ELSE t[k]
  <2> SUFFICES ASSUME NEW k \in 1..(n + 1)
               PROVE  Text(Append(lines, l)[k]) = IF k = n + 1 THEN Text(l) ELSE t[k]
    OBVIOUS
  <2>1. CASE k = n + 1
    BY <1>1, <2>1
  <2>2. CASE k # n + 1
    <3>1. k \in 1..n
      BY <1>1, <2>2
    <3> QED
      BY <1>1, <1>4, <2>2, <3>1 DEF t
  <2> QED
    BY <2>1, <2>2
<1>8. a = b
  BY <1>2, <1>6, <1>7
<1> QED
  BY <1>8 DEF a, b

\* A cue's times and lines, read after a file.
OpenCue(p, a, b, lines) ==
  [cues |-> Flush(p).cues, open |-> TRUE, start |-> a, end |-> b, lines |-> lines]

\* Joining a list that is one item longer gives one item more at the end.
LEMMA JoinOn ==
  ASSUME NEW g \in Seq(Item), NEW h \in Seq(Item), NEW y \in Item
  PROVE  g \o Append(h, y) = Append(g \o h, y)
<1> DEFINE a == g \o Append(h, y)
           b == Append(g \o h, y)
           n == Len(g) + Len(h) + 1
<1>1. a \in Seq(Item) /\ b \in Seq(Item) /\ Len(a) = n /\ Len(b) = n
  OBVIOUS
<1>2. \A k \in 1..n : a[k] = b[k]
  OBVIOUS
<1> HIDE DEF a, b, n
<1>3. a = [k \in 1..n |-> a[k]]
  BY ONLY <1>1
<1>4. b = [k \in 1..n |-> b[k]]
  BY ONLY <1>1
<1>5. a = b
  BY ONLY <1>2, <1>3, <1>4
<1> QED
  BY <1>5 DEF a, b

\* A cue of the file opens with its times and takes all its lines.
LEMMA ReadBlock ==
  ASSUME NEW f \in Seq(Item), NEW a \in Nat, NEW b \in Nat, NEW lines \in Seq(Line)
  PROVE  ReadAll(f \o (<<Times(a, b)>> \o TextsOf(lines))) = OpenCue(ReadAll(f), a, b, lines)
<1> DEFINE N == Len(lines)
           Pre(k) == SubSeq(lines, 1, k)
           File(ls) == f \o (<<Times(a, b)>> \o TextsOf(ls))
           Right(ls) == ReadAll(File(ls)) = OpenCue(ReadAll(f), a, b, ls)
           S == {k \in 0..N : Right(Pre(k))}
<1>1. N \in Nat /\ Pre(0) = <<>> /\ Pre(N) = lines
  OBVIOUS
<1>2. \A k \in 0..N : Pre(k) \in Seq(Line)
  OBVIOUS
<1>3. ASSUME NEW k \in 0..(N - 1)
      PROVE  lines[k + 1] \in Line /\ Pre(k + 1) = Append(Pre(k), lines[k + 1])
  OBVIOUS
<1>4. Right(<<>>)
  <2>1. TextsOf(<<>>) = <<>>
    BY DEF TextsOf
  <2>2. Times(a, b) \in Item
    BY TimesAreItems
  <2> DEFINE t == Times(a, b)
  <2> HIDE DEF t
  <2>3. f \o (<<t>> \o <<>>) = Append(f, t)
    BY <2>2 DEF t
  <2>4. File(<<>>) = Append(f, t)
    BY <2>1, <2>3 DEF t
  <2>5. ReadAll(Append(f, t)) = ReadLine(ReadAll(f), t)
    BY <2>2, ReadOn DEF t
  <2> HIDE DEF File
  <2> QED
    BY <2>4, <2>5, ReadTimes DEF OpenCue, t
<1>5. ASSUME NEW ls \in Seq(Line), NEW l \in Line, Right(ls)  PROVE Right(Append(ls, l))
  <2>1. <<Times(a, b)>> \in Seq(Item) /\ TextsOf(ls) \in Seq(Item)
    BY TimesAreItems, TextsAreItems
  <2>2. Text(l) \in Item
    BY DEF Item
  <2> DEFINE t == <<Times(a, b)>>
             u == TextsOf(ls)
             x == Text(l)
  <2> HIDE DEF t, u, x
  <2>3. f \o (t \o Append(u, x)) = Append(f \o (t \o u), x)
    <3>1. t \in Seq(Item) /\ u \in Seq(Item) /\ x \in Item
      BY <2>1, <2>2 DEF t, u, x
    <3>2. t \o u \in Seq(Item)
      BY ONLY <3>1
    <3>3. t \o Append(u, x) = Append(t \o u, x)
      BY ONLY <3>1, JoinOn
    <3>4. f \o Append(t \o u, x) = Append(f \o (t \o u), x)
      BY ONLY f \in Seq(Item), <3>1, <3>2, JoinOn
    <3> QED
      BY ONLY <3>3, <3>4
  <2>4. File(Append(ls, l)) = Append(File(ls), x)
    BY <2>3, TextsOn DEF t, u, x
  <2>5. File(ls) \in Seq(Item)
    BY <2>1
  <2> HIDE DEF File
  <2>6. ReadAll(Append(File(ls), x)) = ReadLine(ReadAll(File(ls)), x)
    BY <2>2, <2>5, ReadOn DEF x
  <2> DEFINE p == ReadAll(File(ls))
  <2>7. p \in Reading
    BY <2>5, ReadIsReading
  <2>8. p = OpenCue(ReadAll(f), a, b, ls)
    BY <1>5
  <2> HIDE DEF p
  <2>9. p.open
    BY <2>8 DEF OpenCue
  <2>10. ReadLine(p, x) =
           [cues |-> p.cues, open |-> p.open, start |-> p.start, end |-> p.end,
            lines |-> Append(p.lines, l)]
    BY <2>7, <2>9, ReadText DEF x
  <2>11. ReadLine(p, x) = OpenCue(ReadAll(f), a, b, Append(ls, l))
    BY <2>8, <2>10 DEF OpenCue
  <2> QED
    BY <2>4, <2>6, <2>11 DEF p
<1> HIDE DEF Right
<1>6. 0 \in S
  <2> HIDE DEF Pre
  <2> QED
    BY <1>1, <1>4
<1>7. ASSUME NEW k \in 0..(N - 1), k \in S  PROVE k + 1 \in S
  <2>1. k + 1 \in 0..N /\ k \in 0..N
    BY <1>1
  <2>2. Right(Pre(k)) /\ Pre(k) \in Seq(Line)
    BY <1>2, <1>7
  <2> HIDE DEF Pre
  <2>3. Right(Append(Pre(k), lines[k + 1]))
    BY <1>3, <1>5, <2>2
  <2> QED
    BY <1>3, <2>1, <2>3
<1>8. 0..N \subseteq S
  <2> HIDE DEF S, N
  <2> QED
    BY ONLY <1>1, <1>6, <1>7, InductionUpTo
<1>9. Right(lines)
  <2>1. N \in S
    BY <1>1, <1>8
  <2> HIDE DEF Pre
  <2> QED
    BY <1>1, <2>1
<1> QED
  BY <1>9 DEF Right

\* It becomes a cue when it has lines.
LEMMA FlushOpen ==
  ASSUME NEW p, NEW a, NEW b, NEW lines
  PROVE  Flush(OpenCue(p, a, b, lines)).cues =
           IF lines = <<>> THEN Flush(p).cues
           ELSE Append(Flush(p).cues, [start |-> a, end |-> b, lines |-> lines])
<1> DEFINE c == Flush(p).cues
<1> HIDE DEF c
<1> QED
  BY DEF Flush, Closed, OpenCue, c

\* Which of the new lines are dropped: those that repeat the residue.
Dropped(r, fresh, n) ==
  /\ n \in 0..Len(fresh)
  /\ \A j \in 1..n : r = <<fresh[j]>>
  /\ n < Len(fresh) => r # <<fresh[n + 1]>>

\* The line that a residue is, as the deduplication remembers it.
TailOf(r) == IF r = <<>> THEN NoLine ELSE r[1]

\* Without a residue, nothing is dropped.
LEMMA NothingKept ==
  ASSUME NEW fresh \in Seq(Line)
  PROVE  \E n : Dropped(<<>>, fresh, n)
                /\ Kept(fresh, NoLine) = SubSeq(fresh, n + 1, Len(fresh))
<1>1. PICK n : Repeats(fresh, NoLine, n)
               /\ Kept(fresh, NoLine) = SubSeq(fresh, 1 + n, Len(fresh))
  BY KeptLines
<1>2. n \in 0..Len(fresh) /\ Len(fresh) \in Nat
  BY <1>1 DEF Repeats
<1>3. n = 0
  <2>1. ASSUME n # 0  PROVE FALSE
    <3>1. 1 \in 1..n /\ 1 \in 1..Len(fresh)
      BY <1>2, <2>1
    <3>2. fresh[1] \in Line /\ fresh[1] = NoLine
      BY <1>1, <3>1 DEF Repeats
    <3> QED
      BY <3>2, LinesAssumption DEF Line
  <2> QED
    BY <2>1
<1>4. Dropped(<<>>, fresh, 0)
  <2>1. \A x : <<>> # <<x>>
    OBVIOUS
  <2> QED
    BY <1>2, <2>1 DEF Dropped
<1> QED
  BY <1>1, <1>3, <1>4

\* When captions do not roll, what is dropped repeats the residue.
LEMMA PlainKept ==
  ASSUME NEW fresh \in Seq(Line), NEW x \in Line
  PROVE  \E n : Dropped(<<x>>, fresh, n) /\ Kept(fresh, x) = SubSeq(fresh, n + 1, Len(fresh))
<1>1. PICK n : Repeats(fresh, x, n) /\ Kept(fresh, x) = SubSeq(fresh, 1 + n, Len(fresh))
  BY KeptLines
<1>2. n \in 0..Len(fresh) /\ Len(fresh) \in Nat
  BY <1>1 DEF Repeats
<1>3. Dropped(<<x>>, fresh, n)
  <2>1. \A y : <<x>> = <<y>> <=> x = y
    OBVIOUS
  <2> QED
    BY <1>1, <2>1 DEF Dropped, Repeats
<1>4. 1 + n = n + 1
  BY <1>2
<1> QED
  BY <1>1, <1>3, <1>4

\* When they do, the residue goes, and what repeats it.
LEMMA RolledKept ==
  ASSUME NEW fresh \in Seq(Line), NEW x \in Line
  PROVE  \E n : Dropped(<<x>>, fresh, n)
                /\ Kept(<<x>> \o fresh, x) = SubSeq(fresh, n + 1, Len(fresh))
<1> DEFINE lines == <<x>> \o fresh
           N == Len(fresh)
<1>1. lines \in Seq(Line) /\ N \in Nat /\ Len(lines) = N + 1 /\ lines[1] = x
      /\ \A j \in 1..N : lines[j + 1] = fresh[j]
  OBVIOUS
<1> HIDE DEF lines
<1>2. PICK m : Repeats(lines, x, m) /\ Kept(lines, x) = SubSeq(lines, 1 + m, Len(lines))
  BY <1>1, KeptLines
<1>3. m \in 0..(N + 1) /\ (\A j \in 1..m : lines[j] = x) /\ (m < N + 1 => lines[m + 1] # x)
  BY <1>1, <1>2 DEF Repeats
<1>4. m \in 1..(N + 1)
  <2>1. m # 0
    BY <1>1, <1>3
  <2> QED
    BY <1>1, <1>3, <2>1
<1> DEFINE n == m - 1
<1>5. n \in 0..N /\ n + 1 = m
  BY <1>1, <1>4
<1> HIDE DEF n
<1>6. ASSUME NEW j \in 1..n  PROVE fresh[j] = x
  <2>1. j + 1 \in 1..m /\ j \in 1..N
    BY <1>1, <1>4, <1>5
  <2> QED
    BY <1>1, <1>3, <2>1
<1>7. ASSUME n < N  PROVE fresh[n + 1] # x
  <2>1. n + 1 \in 1..N /\ m < N + 1 /\ (n + 1) + 1 = m + 1
    BY <1>1, <1>4, <1>5, <1>7
  <2> QED
    BY <1>1, <1>3, <2>1
<1>8. Dropped(<<x>>, fresh, n)
  <2>1. \A y : <<x>> = <<y>> <=> x = y
    OBVIOUS
  <2> QED
    BY <1>5, <1>6, <1>7, <2>1 DEF Dropped
<1>9. SubSeq(lines, 1 + m, N + 1) = SubSeq(fresh, n + 1, N)
  <2>1. SubSeq(lines, 1 + m, N + 1) =
          [i \in 1..((N + 1) - (1 + m) + 1) |-> lines[i + (1 + m) - 1]]
    BY <1>1, <1>4
  <2>2. SubSeq(fresh, n + 1, N) = [i \in 1..(N - (n + 1) + 1) |-> fresh[i + (n + 1) - 1]]
    BY <1>1, <1>5
  <2>3. (N + 1) - (1 + m) + 1 = N - (n + 1) + 1
    BY <1>1, <1>4, <1>5
  <2>4. ASSUME NEW i \in 1..(N - (n + 1) + 1)
        PROVE  lines[i + (1 + m) - 1] = fresh[i + (n + 1) - 1]
    <3>1. i + (n + 1) - 1 \in 1..N /\ (i + (n + 1) - 1) + 1 = i + (1 + m) - 1
      BY <1>1, <1>4, <1>5
    <3> QED
      BY <1>1, <3>1
  <2> HIDE DEF N
  <2> QED
    BY <2>1, <2>2, <2>3, <2>4
<1> QED
  BY <1>1, <1>2, <1>8, <1>9 DEF lines

-----------------------------------------------------------------------------
(***************************************************************************)
(* Which cues a listener hears, and as what.                               *)
(***************************************************************************)

\* What is kept of a cue's lines, and which line is the tail then.
LEMMA CueKept ==
  ASSUME NEW fresh \in Seq(Line), NEW rolls \in BOOLEAN, NEW r,
         r = <<>> \/ \E x \in Line : r = <<x>>
  PROVE  \E n : Dropped(r, fresh, n)
                /\ Kept((IF rolls THEN r ELSE <<>>) \o fresh, TailOf(r))
                   = SubSeq(fresh, n + 1, Len(fresh))
<1>1. <<>> \o fresh = fresh
  OBVIOUS
<1>2. CASE r = <<>>
  <2>1. (IF rolls THEN r ELSE <<>>) \o fresh = fresh
    BY <1>1, <1>2
  <2>2. TailOf(r) = NoLine
    BY <1>2 DEF TailOf
  <2> QED
    BY <1>2, <2>1, <2>2, NothingKept
<1>3. ASSUME NEW x \in Line, r = <<x>>
      PROVE \E n : Dropped(r, fresh, n)
                /\ Kept((IF rolls THEN r ELSE <<>>) \o fresh, TailOf(r))
                   = SubSeq(fresh, n + 1, Len(fresh))
  <2>1. TailOf(r) = x
    BY <1>3 DEF TailOf
  <2>2. CASE rolls
    <3>1. (IF rolls THEN r ELSE <<>>) \o fresh = <<x>> \o fresh
      BY <1>3, <2>2
    <3> QED
      BY <1>3, <2>1, <3>1, RolledKept
  <2>3. CASE ~rolls
    <3>1. (IF rolls THEN r ELSE <<>>) \o fresh = fresh
      BY <1>1, <2>3
    <3> QED
      BY <1>3, <2>1, <3>1, PlainKept
  <2> QED
    BY <2>2, <2>3
<1> QED
  BY <1>2, <1>3

\* The lines from one on.
LEMMA Rest ==
  ASSUME NEW f \in Seq(Line), NEW n \in 0..Len(f)
  PROVE  /\ Len(SubSeq(f, n + 1, Len(f))) = Len(f) - n
         /\ n < Len(f) => SubSeq(f, n + 1, Len(f))[Len(f) - n] = f[Len(f)]
<1> DEFINE N == Len(f)
<1>1. N \in Nat /\ n \in Nat /\ n <= N
  OBVIOUS
<1>2. N - n \in Nat /\ N - (n + 1) + 1 = N - n
  BY <1>1
<1>3. SubSeq(f, n + 1, N) = [i \in 1..(N - n) |-> f[i + (n + 1) - 1]]
  BY <1>1, <1>2
<1>4. Len([i \in 1..(N - n) |-> f[i + (n + 1) - 1]]) = N - n
  <2> DEFINE k == N - n
  <2> HIDE DEF k
  <2>1. k \in Nat
    BY <1>2 DEF k
  <2>2. Len([i \in 1..k |-> f[i + (n + 1) - 1]]) = k
    BY <2>1
  <2> QED
    BY <2>2 DEF k
<1>5. ASSUME n < N  PROVE SubSeq(f, n + 1, N)[N - n] = f[N]
  <2>1. N - n \in 1..(N - n) /\ (N - n) + (n + 1) - 1 = N
    BY <1>1, <1>5
  <2> HIDE DEF N
  <2> QED
    BY <1>3, <2>1
<1> QED
  BY <1>3, <1>4, <1>5

\* The tail after a cue is the residue of the next.
LEMMA TailIsResidue ==
  ASSUME NEW c \in Seq(ShownCue), NEW i \in 1..Len(c), NEW n,
         Dropped(Residue(c, i), c[i].fresh, n), NEW kept,
         kept = SubSeq(c[i].fresh, n + 1, Len(c[i].fresh))
  PROVE  TailAfter(kept, TailOf(Residue(c, i))) = TailOf(Residue(c, i + 1))
<1> DEFINE f == c[i].fresh
           r == Residue(c, i)
           N == Len(f)
<1>1. f \in Seq(Line) /\ N \in Nat
  BY FreshLines
<1>2. n \in 0..N /\ \A j \in 1..n : r = <<f[j]>>
  BY DEF Dropped
<1>3. Len(kept) = N - n /\ (n < N => kept[Len(kept)] = f[N])
  <2> HIDE DEF f
  <2>1. kept = SubSeq(f, n + 1, N)
    BY DEF f
  <2> QED
    BY <1>1, <1>2, <2>1, Rest
<1>4. CASE f = <<>>
  <2>1. N = 0 /\ n = 0
    BY <1>2, <1>4
  <2>2. kept = <<>>
    BY <2>1, <1>4
  <2>3. Residue(c, i + 1) = Residue(c, i)
    BY <1>4, ResidueKept
  <2> QED
    BY <2>2, <2>3 DEF TailAfter
<1>5. CASE f # <<>>
  <2>1. Residue(c, i + 1) = <<f[N]>>
    BY <1>5, ResidueNew DEF Last
  <2>2. N # 0
    BY <1>1, <1>5
  <2>3. TailOf(<<f[N]>>) = f[N]
    BY DEF TailOf
  <2> HIDE DEF f, N, r
  <2>4. CASE n < N
    <3>1. kept # <<>>
      <4>1. N - n # 0 /\ Len(<<>>) = 0
        BY <1>1, <1>2, <2>4
      <4> QED
        BY <1>3, <4>1
    <3> QED
      BY <1>3, <2>1, <2>3, <2>4, <3>1 DEF TailAfter, Last
  <2>5. CASE n = N
    <3>1. kept = <<>>
      BY <1>1, <1>2, <2>5 DEF f, N
    <3>2. N \in 1..n
      BY <1>1, <2>2, <2>5
    <3>3. r = <<f[N]>>
      BY <1>2, <3>2
    <3> QED
      BY <2>1, <3>1, <3>3 DEF TailAfter, r
  <2> QED
    BY <1>1, <1>2, <2>4, <2>5
<1> QED
  BY <1>4, <1>5

\* The cues that are in the file.
Visible(s, i) == {j \in 1..i : LinesOf(s, j) # <<>>}

\* Cue i as a listener hears it.
HeardAs(s, heard, i) ==
  /\ heard.start = s.cues[i].start /\ heard.end = s.cues[i].end
  /\ \E n \in 0..Len(s.cues[i].fresh) :
       /\ \A j \in 1..n : Residue(s.cues, i) = <<s.cues[i].fresh[j]>>
       /\ n < Len(s.cues[i].fresh) => Residue(s.cues, i) # <<s.cues[i].fresh[n + 1]>>
       /\ heard.words = Said(SubSeq(s.cues[i].fresh, n + 1, Len(s.cues[i].fresh)))

\* What has been heard when the first i cues have.
AllHeard(s, hs, i) ==
  \A j \in Visible(s, i) : HeardAs(s, hs[Cardinality(Visible(s, j))], j)

\* Visible cues can be counted:
LEMMA VisibleCounts ==
  ASSUME NEW s, NEW i \in Nat
  PROVE  IsFiniteSet(Visible(s, i)) /\ Cardinality(Visible(s, i)) \in Nat
<1>1. IsFiniteSet(1..i)
  BY FS_Interval
<1>2. Visible(s, i) \subseteq 1..i
  BY DEF Visible
<1>3. IsFiniteSet(Visible(s, i))
  BY <1>1, <1>2, FS_Subset
<1> QED
  BY <1>3, FS_CardinalityType

\* the next one counts one more,
LEMMA VisibleNext ==
  ASSUME NEW s, NEW i \in Nat
  PROVE  IF LinesOf(s, i + 1) = <<>>
         THEN Visible(s, i + 1) = Visible(s, i)
         ELSE /\ Visible(s, i + 1) = Visible(s, i) \cup {i + 1}
              /\ Cardinality(Visible(s, i + 1)) = Cardinality(Visible(s, i)) + 1
<1>1. CASE LinesOf(s, i + 1) = <<>>
  BY <1>1 DEF Visible
<1>2. CASE LinesOf(s, i + 1) # <<>>
  <2>1. Visible(s, i + 1) = Visible(s, i) \cup {i + 1}
    BY <1>2 DEF Visible
  <2>2. i + 1 \notin Visible(s, i)
    BY DEF Visible
  <2> DEFINE V == Visible(s, i)
  <2>3. IsFiniteSet(V)
    BY VisibleCounts
  <2> HIDE DEF V
  <2>4. Cardinality(V \cup {i + 1}) = Cardinality(V) + 1
    BY <2>2, <2>3, FS_AddElement DEF V
  <2> QED
    BY <1>2, <2>1, <2>4 DEF V
<1> QED
  BY <1>1, <1>2

\* and each has its place among them.
LEMMA VisiblePlace ==
  ASSUME NEW s, NEW i \in Nat, NEW j \in Visible(s, i)
  PROVE  Cardinality(Visible(s, j)) \in 1..Cardinality(Visible(s, i))
<1>1. j \in 1..i /\ j \in Nat /\ LinesOf(s, j) # <<>>
  BY DEF Visible
<1>2. j \in Visible(s, j) /\ Visible(s, j) \subseteq Visible(s, i)
  BY <1>1 DEF Visible
<1> DEFINE a == Cardinality(Visible(s, j))
           b == Cardinality(Visible(s, i))
<1>3. a \in Nat /\ b \in Nat /\ IsFiniteSet(Visible(s, j)) /\ IsFiniteSet(Visible(s, i))
  BY <1>1, VisibleCounts
<1>4. a <= b
  BY <1>2, <1>3, FS_Subset
<1>5. a # 0
  BY <1>2, <1>3, FS_EmptySet
<1> HIDE DEF a, b
<1> QED
  BY <1>3, <1>4, <1>5 DEF a, b

\* A cue without lines brings nothing new.
LEMMA UnseenIsNothing ==
  ASSUME NEW s \in Screen, NEW i \in 1..Len(s.cues), LinesOf(s, i) = <<>>
  PROVE  s.cues[i].fresh = <<>>
<1>1. s.cues \in Seq(ShownCue)
  BY DEF Screen
<1> DEFINE f == s.cues[i].fresh
           q == IF s.rolls THEN Residue(s.cues, i) ELSE <<>>
<1>2. f \in Seq(Line)
  BY <1>1, FreshLines
<1>3. i \in 1..(Len(s.cues) + 1)
  BY <1>1
<1>4. q \in Seq(Line)
  <2>1. Residue(s.cues, i) = <<>> \/ \E x \in Line : Residue(s.cues, i) = <<x>>
    BY <1>1, <1>3, ResidueIsALine
  <2>2. <<>> \in Seq(Line) /\ \A x \in Line : <<x>> \in Seq(Line)
    OBVIOUS
  <2>3. q = <<>> \/ q = Residue(s.cues, i)
    OBVIOUS
  <2> HIDE DEF q
  <2> QED
    BY <2>1, <2>2, <2>3
<1>5. q \o f = <<>>
  BY DEF LinesOf
<1> HIDE DEF q, f
<1>6. Len(q \o f) = Len(q) + Len(f) /\ Len(<<>>) = 0
  BY <1>2, <1>4
<1>7. Len(f) = 0
  BY <1>2, <1>4, <1>5, <1>6
<1> QED
  BY <1>2, <1>7 DEF f

-----------------------------------------------------------------------------
(***************************************************************************)
(* Cue by cue, all that was shown is heard once.                           *)
(***************************************************************************)

\* What the parser and the deduplication make of the first i cues.
CuesOf(f) == Flush(ReadAll(f)).cues
OutOf(f) == EmitAll(CuesOf(f))

\* Of the first i cues, the visible ones are heard, and the tail is the residue.
SoFar(s, f, i) ==
  /\ Len(OutOf(f).out) = Cardinality(Visible(s, i))
  /\ OutOf(f).tail = TailOf(Residue(s.cues, i + 1))
  /\ AllHeard(s, OutOf(f).out, i)

\* They are cues, and what is heard of them.
LEMMA CuesOfAreParsed ==
  ASSUME NEW f \in Seq(Item)
  PROVE  CuesOf(f) \in Seq(Parsed) /\ OutOf(f) \in Hearing /\ OutOf(f).out \in Seq(Heard)
<1>1. CuesOf(f) \in Seq(Parsed)
  BY ReadIsReading, FlushIsReading DEF CuesOf
<1>2. OutOf(f) \in Hearing
  BY <1>1, EmitAllIsHearing DEF OutOf
<1> QED
  BY <1>1, <1>2 DEF Hearing

\* Of a header alone nothing is heard.
LEMMA SoFarInit ==
  ASSUME NEW s \in Screen
  PROVE  SoFar(s, <<Header>>, 0)
<1>1. CuesOf(<<Header>>) = <<>>
  <2>1. <<>> \in Seq(Item) /\ Header \in Item
    BY DEF Item
  <2>2. <<Header>> = Append(<<>>, Header)
    OBVIOUS
  <2>3. ReadAll(<<Header>>) = ReadLine(Closed(<<>>), Header)
    BY <2>1, <2>2, ReadOn, ReadNothing
  <2>4. Flush(Closed(<<>>)) = Closed(<<>>)
    BY DEF Flush, Closed
  <2>5. ReadAll(<<Header>>) = Closed(<<>>)
    BY <2>3, <2>4, ReadHeader
  <2>6. Closed(<<>>).cues = <<>>
    BY DEF Closed
  <2> QED
    BY <2>4, <2>5, <2>6 DEF CuesOf
<1>2. OutOf(<<Header>>) = [tail |-> NoLine, out |-> <<>>]
  BY <1>1, EmitNothing DEF OutOf, Silence
<1>3. Visible(s, 0) = {}
  BY DEF Visible
<1>4. Cardinality(Visible(s, 0)) = 0
  BY <1>3, FS_EmptySet
<1>5. Residue(s.cues, 0 + 1) = <<>>
  <2>1. Earlier(s.cues, 0 + 1) = {}
    BY DEF Earlier
  <2> QED
    BY <2>1 DEF Residue, Earlier
<1>6. TailOf(<<>>) = NoLine
  BY DEF TailOf
<1>7. AllHeard(s, <<>>, 0)
  BY <1>3 DEF AllHeard
<1>8. Len(<<>>) = 0
  OBVIOUS
<1> QED
  BY <1>2, <1>4, <1>5, <1>6, <1>7, <1>8 DEF SoFar

\* One more cue that is not shown.
LEMMA SoFarUnseen ==
  ASSUME NEW s \in Screen, NEW i \in 0..(Len(s.cues) - 1), NEW f \in Seq(Item),
         NEW g \in Seq(Item), CuesOf(g) = CuesOf(f),
         LinesOf(s, i + 1) = <<>>, SoFar(s, f, i)
  PROVE  SoFar(s, g, i + 1)
<1>1. s.cues \in Seq(ShownCue)
  BY DEF Screen
<1>2. i \in Nat /\ i + 1 \in 1..Len(s.cues)
  BY <1>1
<1>3. Visible(s, i + 1) = Visible(s, i)
  BY <1>2, VisibleNext
<1>4. s.cues[i + 1].fresh = <<>>
  BY <1>2, UnseenIsNothing
<1>5. Residue(s.cues, (i + 1) + 1) = Residue(s.cues, i + 1)
  BY <1>1, <1>2, <1>4, ResidueKept
<1>6. OutOf(g) = OutOf(f)
  BY DEF OutOf
<1> QED
  BY <1>3, <1>5, <1>6 DEF SoFar, AllHeard

\* One more cue that is.
LEMMA SoFarSeen ==
  ASSUME NEW s \in Screen, NEW i \in 0..(Len(s.cues) - 1), NEW f \in Seq(Item),
         NEW g \in Seq(Item),
         CuesOf(g) = Append(CuesOf(f), [start |-> s.cues[i + 1].start,
                                        end |-> s.cues[i + 1].end,
                                        lines |-> LinesOf(s, i + 1)]),
         LinesOf(s, i + 1) # <<>>, SoFar(s, f, i)
  PROVE  SoFar(s, g, i + 1)
<1> DEFINE c == s.cues
           k == i + 1
           cue == [start |-> c[k].start, end |-> c[k].end, lines |-> LinesOf(s, k)]
           e == OutOf(f)
           r == Residue(c, k)
           fresh == c[k].fresh
           kept == Kept(cue.lines, e.tail)
           heard == [start |-> c[k].start, end |-> c[k].end, words |-> Said(kept)]
           m == Cardinality(Visible(s, i))
<1>1. c \in Seq(ShownCue) /\ s.rolls \in BOOLEAN
  BY DEF Screen
<1>2. i \in Nat /\ k \in 1..Len(c) /\ k \in 1..(Len(c) + 1)
  BY <1>1
<1>3. c[k].start \in Nat /\ c[k].end \in Nat /\ fresh \in Seq(Line)
  BY <1>1, <1>2, FreshLines
<1>4. cue \in Parsed
  BY <1>2, <1>3, LinesOfIsLines DEF Parsed
<1>5. CuesOf(f) \in Seq(Parsed) /\ e.out \in Seq(Heard)
  BY CuesOfAreParsed
<1>6. OutOf(g) = EmitCue(e, cue)
  <2> HIDE DEF cue
  <2>1. CuesOf(g) = Append(CuesOf(f), cue)
    BY DEF cue
  <2> QED
    BY <1>4, <1>5, <2>1, EmitOn DEF OutOf
<1>7. OutOf(g) = [tail |-> TailAfter(kept, e.tail), out |-> Append(e.out, heard)]
  <2>1. EmitCue(e, cue) = [tail |-> TailAfter(kept, e.tail),
                           out |-> Append(e.out, [start |-> cue.start, end |-> cue.end,
                                                  words |-> Said(kept)])]
    BY DEF EmitCue
  <2> QED
    BY <1>6, <2>1
<1>8. e.tail = TailOf(r) /\ Len(e.out) = m /\ AllHeard(s, e.out, i)
  BY DEF SoFar
<1>9. PICK n : Dropped(r, fresh, n) /\ kept = SubSeq(fresh, n + 1, Len(fresh))
  <2>1. r = <<>> \/ \E x \in Line : r = <<x>>
    BY <1>1, <1>2, ResidueIsALine
  <2>2. cue.lines = (IF s.rolls THEN r ELSE <<>>) \o fresh
    BY DEF LinesOf
  <2>3. kept = Kept((IF s.rolls THEN r ELSE <<>>) \o fresh, TailOf(r))
    BY <1>8, <2>2
  <2> HIDE DEF kept, r, fresh, cue
  <2> QED
    BY <1>1, <1>3, <2>1, <2>3, CueKept
<1>10. TailAfter(kept, e.tail) = TailOf(Residue(c, k + 1))
  <2> HIDE DEF kept, e, k, c
  <2>1. TailAfter(kept, TailOf(Residue(c, k))) = TailOf(Residue(c, k + 1))
    BY <1>1, <1>2, <1>9, TailIsResidue
  <2> QED
    BY <1>8, <2>1
<1>11. /\ Visible(s, k) = Visible(s, i) \cup {k}
       /\ Cardinality(Visible(s, k)) = m + 1
       /\ m \in Nat
  BY <1>2, VisibleNext, VisibleCounts
<1> HIDE DEF kept, e
<1>12. HeardAs(s, heard, k)
  <2>1. n \in 0..Len(fresh) /\ (\A j \in 1..n : r = <<fresh[j]>>)
        /\ (n < Len(fresh) => r # <<fresh[n + 1]>>)
    BY <1>9 DEF Dropped
  <2>2. heard.words = Said(SubSeq(fresh, n + 1, Len(fresh)))
    BY <1>9
  <2> QED
    BY <2>1, <2>2 DEF HeardAs
<1> HIDE DEF heard, m
<1> DEFINE o == Append(e.out, heard)
<1>13. Len(o) = m + 1 /\ o[m + 1] = heard /\ \A j \in 1..m : o[j] = e.out[j]
  BY <1>5, <1>8, <1>11
<1> HIDE DEF o
<1>14. AllHeard(s, o, k)
  <2> SUFFICES ASSUME NEW j \in Visible(s, k)
               PROVE  HeardAs(s, o[Cardinality(Visible(s, j))], j)
    BY DEF AllHeard
  <2>1. CASE j = k
    BY <1>11, <1>12, <1>13, <2>1
  <2>2. CASE j # k
    <3>1. j \in Visible(s, i)
      BY <1>11, <2>2
    <3>2. Cardinality(Visible(s, j)) \in 1..m
      BY <1>2, <3>1, VisiblePlace DEF m
    <3>3. HeardAs(s, e.out[Cardinality(Visible(s, j))], j)
      BY <1>8, <3>1 DEF AllHeard
    <3> QED
      BY <1>13, <3>2, <3>3
  <2> QED
    BY <2>1, <2>2
<1>15. OutOf(g).out = o /\ OutOf(g).tail = TailAfter(kept, e.tail)
  BY <1>7 DEF o
<1> QED
  BY <1>10, <1>11, <1>13, <1>14, <1>15 DEF SoFar

\* The whole screen.
LEMMA AllSoFar ==
  ASSUME NEW s \in Screen
  PROVE  FileOf(s) \in Seq(Item) /\ SoFar(s, FileOf(s), Len(s.cues))
<1> DEFINE N == Len(s.cues)
<1>1. PICK file : Writes(file, s) /\ FileOf(s) = file[N]
  BY FileWrites
<1>2. N \in Nat /\ s.cues \in Seq(ShownCue)
  BY DEF Screen
<1>3. \A i \in 0..N : file[i] \in Seq(Item)
  BY <1>1, WritesItems
<1> DEFINE S == {i \in 0..N : SoFar(s, file[i], i)}
<1>4. 0 \in S
  <2>1. file[0] = <<Header>> /\ 0 \in 0..N
    BY <1>1, <1>2 DEF Writes
  <2> QED
    BY <2>1, SoFarInit
<1>5. ASSUME NEW i \in 0..(N - 1), i \in S  PROVE i + 1 \in S
  <2> DEFINE f == file[i]
             g == file[i + 1]
             k == i + 1
             a == s.cues[k].start
             b == s.cues[k].end
             lines == LinesOf(s, k)
  <2>1. k \in 1..N /\ k \in 0..N /\ k # 0 /\ k - 1 = i /\ i \in 0..N
    BY <1>2
  <2>2. g = f \o (<<Times(a, b)>> \o TextsOf(lines))
    BY <1>1, <2>1 DEF Writes, BlockOf
  <2>3. a \in Nat /\ b \in Nat /\ lines \in Seq(Line)
    BY <1>2, <2>1, FreshLines, LinesOfIsLines
  <2>4. f \in Seq(Item) /\ g \in Seq(Item) /\ SoFar(s, f, i)
    BY <1>3, <1>5, <2>1
  <2>5. ReadAll(g) = OpenCue(ReadAll(f), a, b, lines)
    <3> HIDE DEF f, g, a, b, lines
    <3> QED
      BY <2>2, <2>3, <2>4, ReadBlock
  <2>6. CuesOf(g) = IF lines = <<>> THEN CuesOf(f)
                    ELSE Append(CuesOf(f), [start |-> a, end |-> b, lines |-> lines])
    <3> HIDE DEF f, g, a, b, lines
    <3> QED
      BY <2>5, FlushOpen DEF CuesOf
  <2>7. SoFar(s, g, k)
    <3>1. CASE lines = <<>>
      <4>1. CuesOf(g) = CuesOf(f)
        BY <2>6, <3>1
      <4> QED
        BY <2>4, <3>1, <4>1, SoFarUnseen
    <3>2. CASE lines # <<>>
      <4>1. CuesOf(g) = Append(CuesOf(f), [start |-> a, end |-> b, lines |-> lines])
        BY <2>6, <3>2
      <4> QED
        BY <2>4, <3>2, <4>1, SoFarSeen
    <3> QED
      BY <3>1, <3>2
  <2> QED
    BY <2>1, <2>7
<1>6. 0..N \subseteq S
  <2> HIDE DEF S, N
  <2> QED
    BY ONLY <1>2, <1>4, <1>5, InductionUpTo
<1>7. N \in 0..N
  BY <1>2
<1> QED
  BY <1>1, <1>3, <1>6, <1>7

\* The two passes are what parse_vtt runs.
LEMMA ParseVttIs ==
  ASSUME NEW f  PROVE ParseVtt(f) = OutOf(f).out
BY DEF ParseVtt, DedupRolling, ParseVttCues, OutOf, EmitAll, CuesOf, ReadAll

\* For every screen: of each cue shown with lines, the chunkers get its times and
\* the words of its new lines, less those at its start that repeat the residue
\* (chunking/vtt.py, parse_vtt and dedup_rolling).
THEOREM SpeechIsHeardOnce == FileSpec => []SaidOnce
<1>1. FileInit => SaidOnce
  <2> SUFFICES ASSUME FileInit PROVE SaidOnce
    OBVIOUS
  <2>1. shown \in Screen
    BY ScreensAssumption DEF FileInit, Screen, ShownCue, Line
  <2>2. SoFar(shown, FileOf(shown), Len(shown.cues))
    BY <2>1, AllSoFar
  <2>3. cues = OutOf(FileOf(shown)).out
    BY ParseVttIs DEF FileInit
  <2> DEFINE N == Len(shown.cues)
  <2>4. Len(cues) = Cardinality(Visible(shown, N)) /\ AllHeard(shown, cues, N)
    BY <2>2, <2>3 DEF SoFar
  <2>5. \A i \in Visible(shown, N) : HeardAs(shown, cues[Cardinality(Visible(shown, i))], i)
    BY <2>4 DEF AllHeard
  <2> QED
    BY <2>4, <2>5 DEF SaidOnce, Visible, HeardAs
<1>2. SaidOnce /\ [FileNext]_<<vars, shown>> => SaidOnce'
  <2> SUFFICES ASSUME SaidOnce, [FileNext]_<<vars, shown>> PROVE SaidOnce'
    OBVIOUS
  <2>1. UNCHANGED <<cues, shown>>
    BY DEF FileNext, Next, vars, ByWindow, BySentence, FW!Next, FW!Emit, FW!Pass, FW!Finish,
           TS!Next, TS!Skip, TS!AppendCue, TS!Finish
  <2> QED
    BY <2>1 DEF SaidOnce
<1> QED
  BY <1>1, <1>2, PTL DEF FileSpec
=============================================================================
