------------------------------ MODULE Chunking ------------------------------
(***************************************************************************)
(* The registry of chunking strategies: chunk_handler parses a transcript  *)
(* and gives it to the chunker the message names, the production one by    *)
(* default.  Both get the same cues.                                       *)
(***************************************************************************)
EXTENDS Captions

VARIABLES strategy, cues, out, done, window_start, next, cur

vars == <<strategy, cues, out, done, window_start, next, cur>>

FW == INSTANCE FixedWindow
TS == INSTANCE TranscriptSegment

FIXED_WINDOW == "fixed_window"
TRANSCRIPT_SEGMENT == "transcript_segment"

Init ==
  /\ strategy \in {FIXED_WINDOW, TRANSCRIPT_SEGMENT}
  /\ FW!Init
  /\ TS!Init

ByWindow ==
  /\ strategy = FIXED_WINDOW
  /\ FW!Next
  /\ UNCHANGED <<strategy, next, cur>>

BySentence ==
  /\ strategy = TRANSCRIPT_SEGMENT
  /\ TS!Next
  /\ UNCHANGED <<strategy, window_start>>

Next == ByWindow \/ BySentence

Spec == Init /\ [][Next]_vars

-----------------------------------------------------------------------------
TypeOK ==
  /\ strategy \in {FIXED_WINDOW, TRANSCRIPT_SEGMENT}
  /\ cues \in Transcripts
  /\ out \in Seq(ChunksOf(cues))
  /\ done \in BOOLEAN
  /\ window_start \in Nat /\ next \in Nat \ {0}
  /\ cur \subseteq DOMAIN cues

\* The properties of each chunker, when it is the one that runs.
WindowsCover ==
  strategy = FIXED_WINDOW => FW!EveryCueCovered /\ FW!AllCuesCovered
SentencesPartition ==
  strategy = TRANSCRIPT_SEGMENT => TS!EveryCueKept /\ TS!ChunksInOrder

\* Every chunk is a row the table takes, of captions in the order of time: its
\* span is not empty, its tokens are within the limit, and its key repeats only
\* for the same cues (a window) or not at all (a segment).  Its text is what was
\* said in its span, up to a bounded loss at the end.
ChunkRows ==
  /\ strategy = FIXED_WINDOW => FW!SameKeySameCues /\ FW!RowsAreAccepted
  /\ strategy = TRANSCRIPT_SEGMENT => TS!RowsOfTheirOwn /\ TS!LossIsBounded
=============================================================================
