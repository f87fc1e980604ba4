------------------------- MODULE MCTranscriptChunks -------------------------
(***************************************************************************)
(* Instances of TranscriptChunks for TLC.                                  *)
(***************************************************************************)
EXTENDS TranscriptChunks, TLC

CONSTANTS number, sentence, across

\* One word, the number; a sentence; the end of one and the start of another.
LineWords ==
  (number :> <<FALSE>>) @@ (sentence :> <<FALSE, TRUE>>) @@ (across :> <<TRUE, FALSE, FALSE>>)
OneNumber == {number}

NewLines == {<<>>, <<number>>, <<sentence>>, <<across>>, <<number, number>>}
Cue == {[start |-> s, end |-> s + d, fresh |-> f] : s \in 0..5, d \in {1, 4}, f \in NewLines}

\* Captions in the order of time: both edges move on from cue to cue.
Follows(a, b) == a.start < b.start /\ a.end < b.end
Shown ==
  {<<>>} \cup {<<a>> : a \in Cue}
  \cup {ab \in Cue \X Cue : Follows(ab[1], ab[2])}
  \cup {abc \in Cue \X Cue \X Cue : Follows(abc[1], abc[2]) /\ Follows(abc[2], abc[3])}

\* Without rolling up, a cue has new lines.
SomeScreens ==
  {[rolls |-> TRUE, cues |-> s] : s \in Shown}
  \cup {[rolls |-> FALSE, cues |-> s] :
          s \in {c \in Shown : \A i \in DOMAIN c : c[i].fresh # <<>>}}

\* Sequences of cues, whatever their order and words.
SomeWords == {<<>>, <<FALSE, FALSE>>} \cup {LineWords[l] : l \in DOMAIN LineWords}
SpokenCue == {[start |-> s, end |-> s + d, words |-> w] : s \in 0..5, d \in {1, 4}, w \in SomeWords}
CueSeqs == {<<>>} \cup [1..1 -> SpokenCue] \cup [1..2 -> SpokenCue] \cup [1..3 -> SpokenCue]
=============================================================================
