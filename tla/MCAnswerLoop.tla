---------------------------- MODULE MCAnswerLoop ----------------------------
(***************************************************************************)
(* Instances of AnswerLoop for TLC.                                        *)
(***************************************************************************)
EXTENDS AnswerLoop, TLC

CONSTANTS query, sub1, sub2, rewrite, none, qwen, qwenSmall, deepseek

\* The planner may also return an empty list, or two sub-queries.
Decompositions == {<<>>, <<sub1, sub2>>}
Models == {qwen, qwenSmall, deepseek}
Vendors == (qwen :> "alibaba") @@ (qwenSmall :> "alibaba") @@ (deepseek :> "deepseek")

\* Below, at and above the default threshold of 0.6.
Scores == {0, 6, 10}
=============================================================================
