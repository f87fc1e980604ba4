---------------------------- MODULE QuestionPath ----------------------------
(***************************************************************************)
(* The way of a question, from the search over the channels to an answer   *)
(* or a score.  Four programs go parts of it, and a run is one of them:    *)
(*   "answer"    retrieve, rerank, generate and cite of generate/graph.py; *)
(*   "bakeoff"   one candidate of run_generator_bakeoff: the gold          *)
(*               questions answered and judged, then the negatives;        *)
(*   "channels"  the retrieval metrics of measure_embeddings;              *)
(*   "visual"    run_visual_eval.                                          *)
(* The tables do not change meanwhile, so that a search repeated for       *)
(* another metric finds the same.                                          *)
(***************************************************************************)
EXTENDS ProviderCall, ReplyParser, CiteCheck, JudgeScores, VisualMetrics

CONSTANTS
  Asked,         \* Asked[path]: the questions of a run, gold before negatives
  Searches,      \* Searches[path]: what the tables may hold for a question
  Frames,        \* the frames with a pooled vector
  Patched,       \* the sets of frames that may have patches
  Confidences,   \* what the cross-encoder may say of a chunk
  Retries,       \* Retries[path][model]: max_retries of the path's calls
  Replies,       \* what the generator may reply
  JudgeReplies,  \* what the judge may reply
  NullContent,   \* a reply whose content is null
  K,             \* k of the metrics
  P95Max,        \* p95_latency_sec_max, in ticks
  Questions,
  Stored,        \* the rows of chunks
  Videos         \* talks, and those a model makes up

ASSUME KAssumption == K \in Nat \ {0} /\ P95Max \in Int
\* The primary key of chunks, and its CHECK of the span.
ASSUME StoredAssumption ==
  \A c \in Stored :
    /\ c.id \in Int /\ c.start \in Int /\ c.end \in Int /\ c.start < c.end
    /\ \A d \in Stored : c.id = d.id => c = d
\* A query finds a row once.
Listings(S) == {s \in Seq(S) : \A i, j \in DOMAIN s : s[i] = s[j] => i = j}
Hits == {s \in Listings(Stored) : Len(s) <= MaxRank}
ASSUME SearchesAssumption ==
  \A p \in DOMAIN Asked :
    Searches[p] \subseteq [precise : Hits, meaningful : BOOLEAN, broad : Hits, dense : Hits,
                          sparse : Hits, byMaxSim : Hits, frames : Listings(Frames),
                          byPatches : Hits, up : SUBSET Stored]
GoldQuestions ==
  {q \in Questions : q.kind = "gold" /\ q.start \in Int /\ q.end \in Int /\ q.start < q.end}
ASSUME AskedAssumption ==
  /\ DOMAIN Asked \subseteq {"answer", "bakeoff", "channels", "visual"}
  /\ \A p \in DOMAIN Asked :
       Asked[p] \in Seq(IF p \in {"channels", "visual"} THEN GoldQuestions ELSE Questions)
  /\ "answer" \in DOMAIN Asked => Len(Asked["answer"]) = 1
  /\ "bakeoff" \in DOMAIN Asked =>
       \E n \in 0..Len(Asked["bakeoff"]) :
         \A i \in DOMAIN Asked["bakeoff"] :
           Asked["bakeoff"][i].kind = IF i <= n THEN "gold" ELSE "negative"
\* What json.loads makes of an output that has the fields.
Outputs ==
  [parse_ok : BOOLEAN, abstain : BOOLEAN, claims : Seq(Nat),
   citations : Seq([video : Videos, start : Int, end : Int, claim : Int])]
ASSUME ModelsAssumption ==
  /\ Retries \in [DOMAIN Asked -> [{"generator", "judge"} -> Nat]]
  /\ Confidences \subseteq Int
  /\ \A reply \in Replies \ {NullContent} :
       {reply.text, reply.fenced} \subseteq {NotJson, NotObject} \cup Outputs
  /\ \A reply \in JudgeReplies :
       /\ reply.object \in BOOLEAN
       /\ reply.object => {reply.claims, reply.citations} \subseteq Seq(Int \X STRING)

VARIABLES
  path, stage,
  todo,       \* questions left, the current one first
  patched,    \* the frames with patches
  found,      \* what each channel found for the current question
  frames,     \* the nearest frames
  fused,      \* its fusion; and, for the lift, the one without the visual channel
  fusedText,
  reranked,
  parsed,     \* GenerationOutput
  judgement,  \* JudgeResult
  rows,       \* the records of the gold questions so far
  refusals,   \* those of the negatives
  result      \* the answer, or the summary

search == <<found, frames, fused, fusedText>>
records == <<rows, refusals>>
provider == <<call, now>>
vars == <<path, stage, todo, patched, search, reranked, parsed, judgement, records,
          result, provider>>

TextChannels == {"bm25", "dense", "sparse", "multivec"}
NotYet == [done |-> FALSE]
NoJudgement == [ok |-> FALSE, claims |-> <<>>, citations |-> <<>>]

Init ==
  /\ path \in DOMAIN Asked
  /\ stage = IF path = "visual" THEN "substrate" ELSE "search"
  /\ todo = Asked[path]
  /\ patched \in IF path = "visual" THEN Patched ELSE {Frames}
  /\ found = [name \in TextChannels \cup {"visual"} |-> <<>>]
  /\ frames = <<>> /\ fused = <<>> /\ fusedText = <<>> /\ reranked = <<>>
  /\ parsed = Failed /\ judgement = NoJudgement
  /\ rows = <<>> /\ refusals = <<>>
  /\ result = NotYet
  /\ CallInit

Question == Head(todo)

\* The chunks the generator is shown.
Given == IF path = "answer" THEN Chunks(reranked) ELSE Chunks(fused)

-----------------------------------------------------------------------------
\* The search.

\* run_visual_eval skips unless every talk asked about has frames with patches.
CheckSubstrate ==
  /\ stage = "substrate"
  /\ LET Ready(video) == \E f \in patched : f.video = video
         needed == {q.video : q \in ToSet(Asked[path])}
     IN stage' = IF \A video \in needed : Ready(video) THEN "search" ELSE "skipped"
  /\ UNCHANGED <<path, todo, patched, search, reranked, parsed, judgement, records,
                 result, provider>>

Found(s) ==
  [name \in TextChannels \cup {"visual"} |->
     CASE name = "bm25" -> Bm25(s.precise, s.meaningful, s.broad)
       [] name = "dense" -> s.dense
       [] name = "sparse" -> s.sparse
       [] name = "multivec" -> Multivec(s.dense, s.sparse, s.byMaxSim)
       [] name = "visual" -> Visual(s.frames, patched, s.byPatches)]

FuseTop == [answer |-> 30, bakeoff |-> 8, channels |-> K, visual |-> K]

Search ==
  /\ stage = "search" /\ todo # <<>>
  /\ \E s \in Searches[path] :
       LET all == Found(s)
           text == [name \in TextChannels |-> all[name]]
           withVisual == path \in {"answer", "visual"}
       IN /\ found' = [all EXCEPT !.visual = IF withVisual THEN @ ELSE <<>>]
          /\ frames' = IF withVisual THEN s.frames ELSE <<>>
          /\ fused' = Fuse(IF withVisual THEN all ELSE text, s.up, FuseTop[path])
          /\ fusedText' = IF path = "visual" THEN Fuse(text, s.up, K) ELSE <<>>
  /\ stage' = CASE path = "answer" -> "rerank"
                [] path = "bakeoff" -> "generate"
                [] path \in {"channels", "visual"} -> "score"
  /\ UNCHANGED <<path, todo, patched, reranked, parsed, judgement, records, result, provider>>

RerankHits ==
  /\ stage = "rerank"
  /\ \E confidence \in [ToSet(Chunks(fused)) -> Confidences] :
       reranked' = Rerank(fused, confidence, 8)
  /\ stage' = "generate"
  /\ UNCHANGED <<path, todo, patched, search, parsed, judgement, records, result, provider>>

-----------------------------------------------------------------------------
\* The calls.

\* A call for the generator, or for the judge.
Asks(model, from, to) ==
  /\ stage = from
  /\ Ask(Retries[path][model]) \/ CannotAsk
  /\ stage' = to
  /\ UNCHANGED <<path, todo, patched, search, reranked, parsed, judgement, records, result>>

Generate == Asks("generator", "generate", "generating")
Judge == Asks("judge", "judge", "judging")

ServerReplies ==
  /\ Answered \/ Rejected \/ Transient \/ TryAgain
  /\ UNCHANGED <<path, stage, todo, patched, search, reranked, parsed, judgement, records,
                 result>>

\* The graph's generate node makes an unparsed output of a ProviderError; the
\* evaluation lets it pass, and records nothing.
CallFails ==
  /\ call.phase = "failed"
  /\ parsed' = IF path = "answer" THEN Failed ELSE parsed
  /\ stage' = IF path = "answer" THEN "cite" ELSE "raised"
  /\ TakeResult
  /\ UNCHANGED <<path, todo, patched, search, reranked, judgement, records, result>>

\* The parsers do not expect that there is no text, nor _parse_judge_output a
\* JSON value that is no list where it loops over the assessments.
NoContent ==
  /\ call.phase = "answered"
  /\ NullContent \in Replies
  /\ stage' = "raised"
  /\ TakeResult
  /\ UNCHANGED <<path, todo, patched, search, reranked, parsed, judgement, records, result>>

ReadReply ==
  /\ stage = "generating" /\ call.phase = "answered"
  /\ \E reply \in Replies \ {NullContent} : parsed' = ParseGenerationOutput(reply)
  /\ LET record == Record(Question, parsed', call.latency)
         negative == path = "bakeoff" /\ Question.kind = "negative"
         gold == path = "bakeoff" /\ Question.kind = "gold"
     IN /\ rows' = IF gold THEN Append(rows, record) ELSE rows
        /\ refusals' = IF negative THEN Append(refusals, record) ELSE refusals
        /\ todo' = IF negative \/ (gold /\ ~record.judgeable) THEN Tail(todo) ELSE todo
        /\ stage' = IF path = "answer" THEN "cite"
                    ELSE IF gold /\ record.judgeable THEN "judge" ELSE "search"
  /\ TakeResult
  /\ UNCHANGED <<path, patched, search, reranked, judgement, result>>

ReadJudgement ==
  /\ stage = "judging" /\ call.phase = "answered"
  /\ \E reply \in JudgeReplies :
       /\ judgement' = ParseJudgeOutput(reply, parsed)
       /\ rows' = [rows EXCEPT ![Len(rows)] = Judged(@, judgement')]
  /\ todo' = Tail(todo)
  /\ stage' = "search"
  /\ TakeResult
  /\ UNCHANGED <<path, patched, search, reranked, parsed, refusals, result>>

CiteAnswer ==
  /\ stage = "cite"
  /\ result' = Cite(parsed, Given)
  /\ stage' = "done"
  /\ UNCHANGED <<path, todo, patched, search, reranked, parsed, judgement, records, provider>>

-----------------------------------------------------------------------------
\* The scores.

Scored(scores) ==
  /\ rows' = Append(rows, [question |-> Question, scores |-> scores])
  /\ todo' = Tail(todo)
  /\ stage' = "search"

ScoreChannels ==
  /\ stage = "score" /\ path = "channels"
  /\ Scored(MeasureAllChannels(found, fused, Question, K))
  /\ UNCHANGED <<path, patched, search, reranked, parsed, judgement, refusals, result, provider>>

ScoreVisual ==
  /\ stage = "score" /\ path = "visual"
  /\ ~OcrRaises(frames, Question, K)
  /\ Scored(MeasureVisual(found, frames, fused, fusedText, Question, K))
  /\ UNCHANGED <<path, patched, search, reranked, parsed, judgement, refusals, result, provider>>

FrameUnreadable ==
  /\ stage = "score" /\ path = "visual"
  /\ OcrRaises(frames, Question, K)
  /\ stage' = "raised"
  /\ UNCHANGED <<path, todo, patched, search, reranked, parsed, judgement, records, result,
                 provider>>

Summary ==
  CASE path = "bakeoff" ->
         LET s == GeneratorSummary(rows, refusals)
         IN [scores |-> s, meets |-> CheckMinimums(s, P95Max)]
    [] path = "channels" -> EmbeddingsSummary(rows)
    [] path = "visual" -> VisualSummary(rows)

Finish ==
  /\ stage = "search" /\ todo = <<>>
  /\ result' = Summary
  /\ stage' = "done"
  /\ UNCHANGED <<path, todo, patched, search, reranked, parsed, judgement, records, provider>>

\* The program has ended.
Ended == stage \in {"done", "raised", "skipped"} /\ UNCHANGED vars

Next ==
  \/ CheckSubstrate \/ Search \/ RerankHits
  \/ Generate \/ Judge \/ ServerReplies \/ CallFails \/ NoContent
  \/ ReadReply \/ ReadJudgement \/ CiteAnswer
  \/ ScoreChannels \/ ScoreVisual \/ FrameUnreadable \/ Finish
  \/ Ended

Spec == Init /\ [][Next]_vars

-----------------------------------------------------------------------------
(***************************************************************************)
(* Properties (ImplementsCall is that of ProviderCall).                    *)
(***************************************************************************)

\* Fusion (rrf.fuse) orders what the channels found and neither
\* adds nor forgets: no chunk twice; the ranks kept with a chunk are exactly its
\* places in the channels that found it; a chunk that every channel ranks no
\* lower, and that is found wherever the other is, comes first; and what is cut
\* off is not better than what stays.  Reranking keeps ranks and fused score with
\* their chunk.
FusedInOrder ==
  LET all == {name \in DOMAIN found : found[name] # <<>>}
      every == UNION {ToSet(found[name]) : name \in all}
      Place(c, name) == CHOOSE i \in DOMAIN found[name] : found[name][i] = c
      Beats(c, d) ==
        /\ \A name \in all : d \in ToSet(found[name]) =>
             c \in ToSet(found[name]) /\ Place(c, name) <= Place(d, name)
        /\ \E name \in all : c \in ToSet(found[name]) /\
             (d \in ToSet(found[name]) => Place(c, name) < Place(d, name))
      kept == ToSet(Chunks(fused))
  IN stage # "substrate" /\ fused # <<>> =>
       /\ Cardinality(kept) = Len(fused)
       /\ Len(fused) = Smaller(FuseTop[path], Cardinality(every))
       /\ \A i \in DOMAIN fused :
            LET r == fused[i] IN
            /\ DOMAIN r.ranks = {name \in all : r.chunk \in ToSet(found[name])}
            /\ \A name \in DOMAIN r.ranks : found[name][r.ranks[name]] = r.chunk
            /\ \A c \in every : Beats(c, r.chunk) =>
                 \E j \in 1..(i - 1) : fused[j].chunk = c
       /\ ToSet(reranked) \subseteq ToSet(fused)

\* An answer (cite.py) shows as valid only the citations that the chunks the
\* generator was given bear out, and loses none (Grounded of CiteCheck).
CitedIsGrounded ==
  path = "answer" /\ stage = "done" => Grounded(parsed, Given, result)

\* A generator's scores are earned (measure_generation.py): a claim
\* or citation is credited only if the judge's last word on it is the literal
\* true; a finished run has one record for each question, in their order, and none
\* of a failed call; every answer put to the judge is scored or counted as a judge
\* failure, and the others are in no rate of the judge; the reported p95 is the
\* latency of a call that at most one in twenty exceeds; and a candidate meets the
\* minimums only if something was judged, the p95 is within its limit, and at most
\* one reply in fifty could not be read and one negative in ten was answered.
ScoresAreEarned ==
  LET LastWord(assessments, i) ==
        \E k \in DOMAIN assessments :
          /\ assessments[k] = <<i - 1, "true">>
          /\ \A l \in (k + 1)..Len(assessments) : assessments[l][1] # i - 1
      judgeable == {i \in DOMAIN rows : rows[i].judgeable}
      judged == {i \in DOMAIN rows : rows[i].judged}
      unread == {i \in DOMAIN rows : ~rows[i].parse_ok}
      answered == {i \in DOMAIN refusals : ~refusals[i].abstain}
      slow == {i \in DOMAIN rows : rows[i].latency > result.scores.p95}
  IN path = "bakeoff" =>
       /\ judgement.ok =>
            /\ \A i \in DOMAIN judgement.claims :
                 judgement.claims[i] <=> LastWord(judgement.raw.claims, i)
            /\ \A i \in DOMAIN judgement.citations :
                 judgement.citations[i] <=> LastWord(judgement.raw.citations, i)
       /\ result # NotYet <=> stage = "done"
       /\ stage = "done" =>
            /\ [i \in DOMAIN rows |-> rows[i].question]
                 \o [i \in DOMAIN refusals |-> refusals[i].question] = Asked["bakeoff"]
            /\ \A i \in DOMAIN rows : rows[i].question.kind = "gold"
            /\ \A i \in DOMAIN refusals : refusals[i].question.kind = "negative"
            /\ judged \subseteq judgeable
            /\ result.scores.judge_failures = Cardinality(judgeable \ judged)
            /\ {i \in DOMAIN rows : rows[i].claims # NoFraction} = judged
            /\ result.scores.grounded # NoFraction =>
                 result.scores.grounded[2] = Cardinality(judged)
            /\ rows # <<>> =>
                 /\ 20 * Cardinality(slow) <= Len(rows)
                 /\ \E i \in DOMAIN rows : rows[i].latency = result.scores.p95
            /\ result.meets =>
                 /\ judged # {} /\ result.scores.p95 <= P95Max
                 /\ 50 * Cardinality(unread) <= Len(rows)
                 /\ 10 * Cardinality(answered) <= Len(refusals)

\* The metrics say what they mean, second by second: the region IoU
\* is the seconds of gold found over the seconds of either (however the chunks
\* overlap); it is positive exactly when a chunk passes, full coverage contains,
\* and the IoU of the first chunk is the region IoU at 1.  On visual rows the
\* audited grounding agrees with the plain one and names its reason; a grounded
\* row passes by its frames and a term hit by its chunks; and only rows with
\* evidence are in the rates of the evidence.
MeasuresAgree ==
  LET Region(results, gold, k) ==
        LET seen == UNION {Seconds(c) : c \in {d \in ToSet(Top(results, k)) : d.video = gold.video}}
        IN <<Cardinality(seen \cap Seconds(gold)), Cardinality(seen \cup Seconds(gold))>>
      Same(f, g) == f[1] * g[2] = g[1] * f[2]
      gold == Question
      results == ChannelResults(found, fused)
      audit == FrameOcrGrounding(frames, gold, K)
  IN /\ stage = "score" /\ path = "channels" =>
          \A name \in DOMAIN results :
            LET score == ChannelRecall(results[name], gold, K)
                region == Region(results[name], gold, K) IN
            /\ Same(score.region, region)
            /\ Same(score.iou, Region(results[name], gold, 1))
            /\ score.passes <=> region[1] > 0
            /\ score.contained => region[1] = Cardinality(Seconds(gold))
     /\ stage = "score" /\ path = "visual" /\ ~OcrRaises(frames, gold, K) /\ gold.evidence # <<>> =>
          /\ audit.passed <=> FrameOcrMatches(frames, gold, K)
          /\ audit.passed => FramePasses(frames, gold, K)
          /\ audit.passed <=> audit.failure = "none"
          /\ audit.failure = "no_in_window_frame" <=> ~FramePasses(frames, gold, K)
          /\ AnswerTermMatches(found.visual, gold, K) => Passes(found.visual, gold, K)
     /\ path = "visual" /\ stage = "done" =>
          LET evaluable == {i \in DOMAIN rows : rows[i].question.evidence # <<>>} IN
          /\ result.term_evaluable = Cardinality(evaluable)
          /\ result.grounding_evaluable = Cardinality(evaluable)
          /\ result.term <= result.chunk /\ result.grounded <= result.frame
          /\ result.n = Len(Asked["visual"])
=============================================================================
