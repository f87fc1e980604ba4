---------------------------- MODULE MCCorpusDriver ----------------------------
(***************************************************************************)
(* Instances of CorpusDriver for TLC.                                      *)
(***************************************************************************)
EXTENDS CorpusDriver, TLC

CONSTANTS t1, t2, t3, c1, c2, m1, m2

TwoTalks == {t1, t2}
ThreeTalks == {t1, t2, t3}
TwoCorpora == {c1, c2}
TwoMovies == {m1, m2}
FirstIsGold == {t1}

\* c1: t1 and t2, visual, a file each, t2 in no gold example.  c2: t3, text
\* only, without text.
Mixed == (t1 :> c1) @@ (t2 :> c1) @@ (t3 :> c2)
MixedMovies == (t1 :> m1) @@ (t2 :> m2) @@ (t3 :> m2)
ThirdIsEmpty == {t3}
=============================================================================
