--------------------------- MODULE TranscriptChunks ---------------------------
(***************************************************************************)
(* From a caption file to chunks: chunk_handler parses the file YouTube    *)
(* gave and chunks its cues.  What was shown on screen is known here: each *)
(* cue brings new lines, and in roll-up captions it first repeats the last *)
(* line before it, with cues in between that bring nothing new.            *)
(***************************************************************************)
EXTENDS Chunking, VttParser

CONSTANT Screens   \* what may have been shown: whether it rolls up, and the cues
                   \* with their times and new lines

VARIABLE shown

\* The line that is still on screen when cue i starts.
Residue(s, i) ==
  LET before == {j \in 1..(i - 1) : s[j].fresh # <<>>}
  IN IF before = {} THEN <<>> ELSE <<Last(s[Max(before)].fresh)>>

LinesOf(screen, i) ==
  (IF screen.rolls THEN Residue(screen.cues, i) ELSE <<>>) \o screen.cues[i].fresh

\* The file YouTube makes of it: header, and for each cue its times and lines.
FileOf(screen) ==
  LET Block(i) ==
        <<Times(screen.cues[i].start, screen.cues[i].end)>>
        \o [k \in DOMAIN LinesOf(screen, i) |-> Text(LinesOf(screen, i)[k])]
      file[i \in 0..Len(screen.cues)] ==
        IF i = 0 THEN <<Header>> ELSE file[i - 1] \o Block(i)
  IN file[Len(screen.cues)]

ASSUME ScreensAssumption ==
  /\ Screens \subseteq
       [rolls : BOOLEAN, cues : Seq([start : Nat, end : Nat, fresh : Seq(DOMAIN WordsOf)])]
  /\ {ParseVtt(FileOf(s)) : s \in Screens} \subseteq Transcripts

FileInit ==
  /\ shown \in Screens
  /\ cues = ParseVtt(FileOf(shown))
  /\ Init

FileNext == Next /\ UNCHANGED shown

FileSpec == FileInit /\ [][FileNext]_<<vars, shown>>

-----------------------------------------------------------------------------
\* The chunkers get what was said, once, at the time it was said: a cue for each
\* one shown that has lines, with its times, and as its words those of its new
\* lines.  Only a speaker who repeats a line word for word is not heard twice.
\* Hazard: nothing in the file tells a repeated line from residue, and cues that
\* bring nothing new lie between a line and its residue.
SaidOnce ==
  LET s == shown.cues
      Visible(i) == {j \in 1..i : LinesOf(shown, j) # <<>>}
  IN /\ Len(cues) = Cardinality(Visible(Len(s)))
     /\ \A i \in Visible(Len(s)) :
          LET cue == cues[Cardinality(Visible(i))]
              fresh == s[i].fresh
          IN /\ cue.start = s[i].start /\ cue.end = s[i].end
             /\ \E n \in 0..Len(fresh) :
                  /\ \A j \in 1..n : Residue(s, i) = <<fresh[j]>>
                  /\ n < Len(fresh) => Residue(s, i) # <<fresh[n + 1]>>
                  /\ cue.words = Said(SubSeq(fresh, n + 1, Len(fresh)))
=============================================================================
