------------------------------ MODULE VttParser ------------------------------
(***************************************************************************)
(* chunking/vtt.py: a WebVTT file becomes cues.  A file is the sequence of *)
(* its lines by kind: a header, the times of a cue, or text; a blank line  *)
(* changes nothing and is left out.  A line of text stands for what        *)
(* normalize_line leaves of it.                                            *)
(***************************************************************************)
EXTENDS Integers, Sequences, SequencesExt

CONSTANTS
  WordsOf,   \* WordsOf[line]: its words, as in Captions
  Numbers,   \* the lines that are digits only
  NoLine     \* Python's None

ASSUME LinesAssumption == Numbers \subseteq DOMAIN WordsOf /\ NoLine \notin DOMAIN WordsOf

Header == [kind |-> "header"]
Times(start, end) == [kind |-> "times", start |-> start, end |-> end]
Text(line) == [kind |-> "text", line |-> line]

-----------------------------------------------------------------------------
\* parse_vtt_cues.

Closed(cues) == [cues |-> cues, open |-> FALSE, start |-> 0, end |-> 0, lines |-> <<>>]

\* flush: a cue without lines is dropped.
Flush(p) ==
  Closed(IF p.open /\ p.lines # <<>>
         THEN Append(p.cues, [start |-> p.start, end |-> p.end, lines |-> p.lines])
         ELSE p.cues)

\* A number is text inside a cue only.
ReadLine(p, item) ==
  CASE item.kind = "header" -> Flush(p)
    [] item.kind = "times" ->
         [Flush(p) EXCEPT !.open = TRUE, !.start = item.start, !.end = item.end]
    [] item.kind = "text" ->
         IF item.line \in Numbers /\ ~p.open THEN p
         ELSE [p EXCEPT !.lines = Append(@, item.line)]

ParseVttCues(file) ==
  LET read[n \in 0..Len(file)] ==
        IF n = 0 THEN Closed(<<>>) ELSE ReadLine(read[n - 1], file[n])
  IN Flush(read[Len(file)]).cues

-----------------------------------------------------------------------------
\* dedup_rolling.

\* Bug: every cue is taken to start with residue.
KeptAfterFirst(lines, tail) == IF tail = NoLine THEN lines ELSE Tail(lines)

\* The lines from the first one on that does not repeat the tail.
Kept(lines, tail) ==
  LET repeated == {n \in 0..Len(lines) : \A i \in 1..n : lines[i] = tail}
  IN SubSeq(lines, 1 + CHOOSE n \in repeated : \A m \in repeated : m <= n, Len(lines))

TailAfter(kept, tail) == IF kept = <<>> THEN tail ELSE Last(kept)

Said(lines) == FlattenSeq([i \in DOMAIN lines |-> WordsOf[lines[i]]])

EmitCue(p, cue) ==
  LET kept == Kept(cue.lines, p.tail) IN
  [tail |-> TailAfter(kept, p.tail),
   out |-> Append(p.out, [start |-> cue.start, end |-> cue.end, words |-> Said(kept)])]

DedupRolling(parsed) ==
  LET emitted[n \in 0..Len(parsed)] ==
        IF n = 0 THEN [tail |-> NoLine, out |-> <<>>] ELSE EmitCue(emitted[n - 1], parsed[n])
  IN emitted[Len(parsed)].out

ParseVtt(file) == DedupRolling(ParseVttCues(file))
=============================================================================
