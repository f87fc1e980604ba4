--------------------------- MODULE MCQuestionPath ---------------------------
(***************************************************************************)
(* Instances of QuestionPath for TLC: two talks, four chunks of which two  *)
(* overlap and two touch, five frames.                                     *)
(***************************************************************************)
EXTENDS QuestionPath, TLC

CONSTANTS v1, v2, tree, graph, nosuch

Chunk(id, video, start, end, text) ==
  [id |-> id, video |-> video, start |-> start, end |-> end, text |-> text]

a == Chunk(1, v1, 0, 4, {tree})
b == Chunk(2, v1, 3, 7, {tree, graph})
c == Chunk(3, v1, 7, 9, {})
d == Chunk(4, v2, 2, 6, {tree, graph})

Frame(id, video, sec, text) == [id |-> id, video |-> video, sec |-> sec, text |-> text]
f1 == Frame(1, v1, 3, {tree})
f2 == Frame(2, v1, 7, {tree, graph})
f3 == Frame(3, v2, 3, {tree, graph})
f4 == Frame(4, v1, 9, Unreadable)
f5 == Frame(5, v2, 9, {})
AllFrames == {f1, f2, f3, f4, f5}
SomePatched == {AllFrames, {f1, f3}, {f3}}

Gold(start, end, evidence) ==
  [kind |-> "gold", video |-> v1, start |-> start, end |-> end, evidence |-> evidence]
Negative == [kind |-> "negative"]

Runs ==
  [answer |-> <<[kind |-> "query"]>>,
   bakeoff |-> <<Gold(0, 4, <<>>), Gold(3, 7, <<>>), Negative>>,
   channels |-> <<Gold(4, 7, <<>>)>>,
   visual |-> <<Gold(4, 7, <<<<graph, nosuch>>, <<tree>>>>), Gold(0, 3, <<>>)>>]

\* The generator of the bakeoff is allowed fewer than the code's 3.
Budgets == [p \in DOMAIN Runs |-> [generator |-> 1, judge |-> 3]]

AllChunks == {a, b, c, d}
AllQuestions == UNION {ToSet(Runs[p]) : p \in DOMAIN Runs}
Talks == {v1, v2}

Some == {<<>>, <<b>>, <<c, a>>, <<d, b, c>>}
Orders == {<<a, b, c, d>>, <<d, c, b, a>>}

Every ==
  [precise : {<<>>, <<c>>, <<a, b>>}, meaningful : BOOLEAN, broad : {<<>>, <<d, a>>},
   dense : Some \cup {<<a, c, b, d>>, <<c, d>>}, sparse : Some, byMaxSim : Orders,
   frames : {<<>>}, byPatches : {<<>>}, up : {{}, {b}, {c, d}}]

Few(frameOrders, lists, sparse) ==
  [precise : {<<a>>}, meaningful : {TRUE}, broad : {<<>>}, dense : lists, sparse : sparse,
   byMaxSim : {<<b, a, c, d>>}, frames : frameOrders, byPatches : Orders, up : {{}, {b}}]

Tables ==
  [answer |-> Few({<<f1, f2, f3, f4, f5>>}, {<<>>, <<c, a, d>>}, {<<b>>}),
   bakeoff |-> Few({<<>>}, {<<c, a>>}, {<<b>>}),
   channels |-> Every,
   visual |-> Few({<<f3, f1, f4, f2, f5>>, <<f2, f3, f1, f5, f4>>, <<f1, f2, f3, f5, f4>>,
                   <<f3, f5, f1, f2, f4>>, <<f4, f1, f2, f3, f5>>},
                  {<<>>, <<c, a>>, <<d>>}, {<<>>, <<b>>})]

Levels == {0, 1}

Citation(video, start, end, claim) ==
  [video |-> video, start |-> start, end |-> end, claim |-> claim]
Output(abstain, claims, citations) ==
  [parse_ok |-> FALSE, abstain |-> abstain, claims |-> claims, citations |-> citations]
Plain(output) == [text |-> output, fenced |-> NotJson]

Cited == Output(FALSE, <<3, 5>>, <<Citation(v1, 2, 6, 0), Citation(v2, 2, 4, 1)>>)
Miscited == Output(FALSE, <<3>>, <<Citation(v1, 3, 4, 1), Citation(v1, 5, 5, 0),
                                   Citation(v1, 6, 9, 0)>>)

SomeReplies ==
  {Plain(Cited), Plain(Miscited), Plain(Output(TRUE, <<>>, <<>>)), Plain(NotObject),
   Plain(Output(FALSE, <<0>>, <<>>)), [text |-> NotJson, fenced |-> Cited], NullContent}

Verdicts(claims, citations) == [object |-> TRUE, claims |-> claims, citations |-> citations]
SomeVerdicts ==
  {[object |-> FALSE],
   Verdicts(<<<<0, "true">>, <<1, "true">>, <<2, "true">>>>, <<<<0, "true">>, <<1, "true">>>>),
   Verdicts(<<<<0, "true">>, <<0, "false">>, <<1, "string">>>>, <<<<1, "true">>>>)}
=============================================================================
