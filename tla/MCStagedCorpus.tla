---------------------------- MODULE MCStagedCorpus ----------------------------
(***************************************************************************)
(* Instances of StagedCorpus for TLC.                                      *)
(***************************************************************************)
EXTENDS StagedCorpus, TLC

CONSTANTS t1, t2, t3, c1, m1, m2

ThreeTalks == {t1, t2, t3}
OneCorpus == {c1}
TwoMovies == {m1, m2}
ByPath == (m1 :> 1) @@ (m2 :> 2)

\* t1 and t2 are chapters of one source, t3 is a video of its own.
Sources == (t1 :> m1) @@ (t2 :> m1) @@ (t3 :> m2)
TwoChapters == {t1, t2}
Ends == (t1 :> 1) @@ (t2 :> 3)
AllListed == {ThreeTalks}
AllOfIt == [t \in ThreeTalks |-> c1]

OneVisual == {t1}
TwoVisual == {t1, t3}
NoTalks == {}
=============================================================================
