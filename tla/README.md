# Lensgraph, specified

Lensgraph answers questions about recorded talks. An offline pipeline turns each
talk's transcript into chunks and embeddings and each talk's video into frames
and page-image vectors, all in one PostgreSQL database; an online loop retrieves,
judges, generates and cites. This directory holds TLA+ specifications of that
code, the TLC runs that check them on small instances, and TLAPS proofs of the
most important results for every instance. Paths below are relative to `src/`.

Run a check with `tlc -config IngestWorkers.cfg MCIngestWorkers` and a proof
with `tlapm IngestWorkersProofs.tla`. `PROJECT.json` lists the runs, the source
lines each definition models, the hazards, and for every property a plausible
bug (an operator whose comment starts with "Bug:") under which TLC finds the
property violated.

## 1. Inventory

| Component | State it keeps | Operations | Talks to |
|---|---|---|---|
| Job queues (`queues/pgmq_client.py`) | pgmq tables | send, send_batch, read, archive | every lane |
| Worker step (`queues/workers.py`) | one transaction | process_one: read, claim, handler, complete, archive | queues, status table, handlers |
| Status table (`db/repos/ingest_step_status.py`) | `ingest_step_status` by (step, video, entity) | upsert, claim_for_update, mark_completed | all handlers |
| Text lane (`ingest/pipeline.py`, `ingest/handlers.py`) | `talks`, `chunks`, three embedding tables | fetch_reconcile, chunk_handler, embed_text_handler | transcripts on disk |
| Visual lane (`ingest/frames.py`, `ingest/handlers.py`) | PNG files, `frames`, `frame_patches` | frames_handler, embed_frames_handler | videos on disk |
| Video download (`scripts/fetch_video.py`) | files under `videos/` | plan, skip, download, check, exit code | corpus driver, visual lane |
| Chunking (`chunking/*`) | none | parse_vtt, fixed_window, transcript_segment | chunk_handler |
| Corpus driver (`ingest/cli_all.py`) | phase, exit code | reconcile all, drain text, gate, drain visual, report | both lanes, readiness |
| Chunking ablation (`scripts/run_chunking_ablation.py`) | second strategy's rows, `eval_runs` | re-chunk, drain, query, count, record | text lane's tables and queue |
| Answer loop (`generate/*`) | AgentState | plan, retrieve, rerank, verify, generate, cite | retrieval, providers, bakeoff winners |
| Trace recording (`generate/trace.py`, `db/repos/traces.py`) | `traces`, `trace_spans`, span buffer | start, span, flush, end | answer loop |
| Bakeoff ledger (`db/repos/eval_runs.py`, `scripts/run_*bakeoff*.py`, `scripts/run_visual_eval.py`) | `eval_runs`, `eval_results` | insert, lock winner, load winner | answer loop |
| Retrieval (`retrieve/*`) | reads the tables | five channels, fusion, reranking | answer loop, evaluation |
| Provider calls (`eval/runners/providers.py`) | attempt, clock | call with retries and back-off | answer loop, bakeoffs |
| Parser and citation check (`generate/parser.py`, `generate/nodes/cite.py`) | none | parse a reply, check every citation | answer loop, evaluation |
| Evaluation runners (`eval/runners/measure_*.py`) | records of a run | judge, score, aggregate | retrieval, providers, ledger |
| Migrations (`db/migrate.py`) | `schema_migrations` | apply all | by hand, before anything else |
| Gold data validator, one-off reports and curation tools | none shared | read and print | — |

What is hard in this system, and what correctness means for each part:

* **Queues, status rows and handlers (interleaving, atomicity).** Several worker
  processes, re-fetches, and edits of the input files run at once. Correct means:
  a pending row always has a message, a message always has a row, a completed
  embed job's vectors belong to the text the chunk has *now*, a job runs once per
  request, no workers wait in a circle, and every pending job is served.
* **The visual lane (crash recovery).** PNG files are purged and written outside
  the transaction that records them. Correct means: once a sample is completed,
  the files, hashes and vectors of its frames agree, whatever crashed in between.
  For the rows of frames a shorter re-sample no longer has, section 6 says what
  the code does instead.
* **Video download (stale checks, one of several failing).** A run is planned with
  the files that are there when it starts, and chapters share a file. Correct
  means: exit code 0 vouches for files that are there, and no file is replaced by
  one too short for another chapter.
* **The driver (partial failure, stale checks).** Its exit code is what an
  operator trusts. Correct means: 0 implies the corpus really is ingested, and a
  run that failed left nothing behind that the next one cannot find.
* **The answer loop (ordering, one of several writes failing).** Autocommitted
  calls, a loop back through an LLM judge, and winners that change meanwhile.
  Correct means: judge and generator never share a family, the loop is bounded,
  what is generated rests on evidence retrieved and ranked for the refined query
  that is in force, the trace says what happened.
* **Provider calls (timeouts, retries).** Correct means: a bounded number of
  tries, no retry of a permanent error, the latency of the whole call.
* **The ledger (atomicity, commit order).** Several scripts write it at once, with
  two different transaction disciplines. Correct means: a run is whole or absent,
  the lock follows the selection rule, a later winner never gives way to an
  earlier one.
* **From hits to an answer or a score (edges).** Fusion with ties, half-open
  intervals, thresholds met exactly, replies that do not parse, denominators of
  zero. Correct means: nothing is shown or counted that the evidence, or the
  judge, does not bear out.
* **Chunking (boundaries).** Correct means: what was said is heard once, no speech
  is lost between windows, no cue is in two segments (a forced cut may split a
  sentence), every row passes the table's CHECKs, and no row replaces one with
  other cues.
* **The ablation (shared tables, counts that are not one snapshot).** Correct
  means: the production strategy is untouched, and a strategy recorded as aligned
  really was complete when it was counted; every chunk that is not embedded is
  still in the queue. When its recall was measured it need not have been complete
  (section 6).

The hazards, each at its line, are in `PROJECT.json`.

## 2. Modules

| Module | Models | Grain |
|---|---|---|
| `IngestSchema` | vocabulary of the text lane: job keys, messages, and the effect each operation has on the tables | operators |
| `IngestJobs` | what the text lane promises: every operation is one atomic step | abstract specification |
| `IngestWorkers` | the text lane with workers, transactions and row locks | one SQL statement that can block, or one read of shared state, per step |
| `IngestWorkersProofs` | theorems about `IngestWorkers` | proofs |
| `FramesWorkers` | the visual lane, files included | one statement or file operation per step |
| `FramesWorkersProofs` | theorems about `FramesWorkers` | proofs |
| `Catalog` | talks and the video files they share | constants |
| `CorpusState` | what the driver's runs keep and share, and what they promise | state |
| `CorpusDriver` | `ingest.cli_all`, run after run | one message or one phase change per step |
| `VideoFetch` | `fetch_video`, run after run | one command per step |
| `StagedCorpus` | composes `VideoFetch` with the driver | — |
| `StagedCorpusProofs` | theorems about the composition and about `CorpusDriver` | proofs |
| `AnswerLoop` | one call of `answer()` with its trace | one node or database call per step |
| `AnswerLoopProofs` | theorems about `AnswerLoop` | proofs |
| `BakeoffLedger` | four scripts on the ledger | one statement per step |
| `BakeoffLedgerProofs` | theorems about `BakeoffLedger` | proofs |
| `ModelCall` | what a caller of a hosted model may rely on | abstract specification |
| `ProviderCall` | `chat_completion` with its retries | one request or one sleep per step |
| `Lists` | Python's `sorted` and conditional comprehensions | operators |
| `RankFusion` | channels, `rrf.fuse`, the reranker's order | operators |
| `ReplyParser`, `CiteCheck` | what a reply parses to; which citations stand | operators |
| `JudgeScores` | `measure_generation`: credits, records, aggregates | operators |
| `SpanMetrics`, `VisualMetrics` | `measure_embeddings`, `measure_visual` | operators |
| `QuestionPath` | composes the seven above and `ProviderCall` | one stage of a question per step |
| `QuestionPathProofs` | theorems about `QuestionPath` and its parts | proofs |
| `ChunkingAblation` | the ablation beside the pipeline | a transaction is a claim and a commit; each counting query is a step |
| `ChunkingAblationProofs` | theorems about `ChunkingAblation` | proofs |
| `VttParser` | a caption file becomes cues | operators, a recursion over the lines |
| `Captions` | what the chunkers work on: cues, words, chunks | operators |
| `FixedWindow`, `TranscriptSegment` | the two chunkers | one window, one cue per step |
| `Chunking` | the registry: composes the two over the same cues | — |
| `ChunkingProofs` | theorems about `Chunking` and `TranscriptChunks` | proofs |
| `TranscriptChunks` | composes `VttParser` with `Chunking` | — |
| `MC*` | the constants of the runs | — |

### Text lane: `IngestSchema`, `IngestJobs`, `IngestWorkers`

`process_one` is `Read`, `Claim` (`SELECT ... FOR UPDATE`), then either
`Acknowledge` (the row is done) or the handler and the commit: `ReadTranscript`,
one `UpsertEmbedRow` per chunk and `FinishChunk`, or `ReadText` and `FinishEmbed`.
`fetch_reconcile` is `Fetch` (hash of the file), `UpsertTalk`, `UpsertChunkRow`
and `Publish`. `held[w]` is the set of rows the transaction has locked; a step
that needs a row another worker holds is not enabled. Writes become visible in
the step that commits. `Abort` is a crash, a raised exception or a failed
statement at any point: locks and message go back. `Edit` is an operator
replacing a transcript at any time, also between two reads of it.

Abstractions. A text is the version of the transcript it was cut from. A chunk is
its natural key (video, span), because this lane only upserts chunks. The three
embedding tables are one mapping: each job writes all three in one transaction.
`read_ct`, the visibility timeout, `attempts` beyond its change and timestamps
decide nothing that another transaction can see. A message's id is assigned at
commit; pgmq assigns it at insert, so two senders that overlap may commit in the
other order, which only permutes their messages. `in_progress` never commits and
is not a status here. `mark_failed` and the dead-letter queue have no caller.
Fetch, asr and frame_sample messages are sent but served elsewhere (visual lane)
or by nobody (asr).

`IngestWorkers` implements `IngestJobs` (`ImplementsJobs`) under the identity on
the shared variables: every commit is one atomic job, everything else stutters.

### Visual lane: `FramesWorkers`

`Purge` (delete one old PNG), `OpenVideo`, `Render` (ffmpeg, one frame per step),
one `UpsertFrame` and one `UpsertEmbedRow` per file the directory then lists
(`Files`), `FinishFrames`; `ReadImage`, `UpdatePooled`, `FinishEmbed`. Files change
at once, tables only at the commit. A process may die in the middle of the purge.
That the directory lists the worker's own frames and no other is not built in:
it holds because of the row lock on the sampling job. A frame is its number in the
sample, which is what ffmpeg names the file by and what the code computes
`frame_sec` from; a row outlives the sample it was made for.
`Unstable` names the frames whose encoding is not finite: those lose their
vectors. `frames_handler` locks frames rows and then embed_frames rows,
`embed_frames_handler` the other way round; `DeadlockVictim` is PostgreSQL's
detection.

### Driver: `CorpusDriver`

`Start`, `Reconcile`/`ReconcileFails` per talk, `Fetched`, the two text drains
(`Handle`, `AlreadyDone`, `HandlerRaises`), `Gate`, the two visual drains,
`Report`. `process_one` is one step here: one driver runs at a time, and the
statements inside are the subject of the two worker modules. Tables and queues
are shared by corpora and survive between runs; `StageOrRemove` changes the
staged videos at any moment.

### Video download: `VideoFetch`, `StagedCorpus`

A run of `fetch_video` is `FetchStart` (the commands, with what `path.exists()`
says at that moment), then `SkipCommand`, `Download` or `DownloadFails` for each
command in turn, and `FetchEnds` with the exit code; `FetchDies` may come at any
time, and `RemoveFile` is the operator. The plan is a set of commands, of which
the one whose path sorts first is next (`IsNext`, `PathOrder`). A download that
fails may have written the file all the same: ffprobe is asked after the write. A
file is the seconds of its source it holds and whether it is of the accepted
height. `vouched` is not in the code: it notes the files a run exited with 0 for.

`StagedCorpus` runs this beside `CorpusDriver`, which sees the files through
`path.exists()` only. `ImplementsDriver` says that the composition is a
behaviour of `CorpusDriver`: whatever the downloads do, to the driver it is an
operator staging and removing one file at a time, so what is checked of the
driver alone holds with real downloads.

### Answer loop: `AnswerLoop`

One step per node and per database call: `Resolve` for generator and judge,
`StartTrace`, the six nodes, `FlushSpans`, `EndTrace`. A judgement, a plan, a
parse result and a failure are free choices. A failing write may have failed
before or after it committed. `Lock` is another process locking a bakeoff winner.
A span keeps, of the snapshots the code stores, whether it failed, the loop it
belongs to and the refined query its node was given; `EvidenceIsCurrent` compares
the evidence with the latter, for retrieval and for reranking.

### Bakeoff ledger: `BakeoffLedger`

`MeasureEmbeddings`, `MeasureGenerators` and `MeasureVisual` stand for everything
a script does before it writes; what it measured is a set of candidates with
score, price and whether the minimums are met. `Begin`, `InsertRun`,
`InsertResult`, `LockWinner`, `Commit` are the statements of one transaction, and
`created` is the time it began, as `now()` is in PostgreSQL. The sweep's
`GenerateForBakeoff` and `SweepResult` commit one by one. `SelectWinner` and
`SelectGeneratorWinner` are the two copies of the selection rule; the generator's
has no caller that locks, so it appears only where the two are compared.

### From a question to a score: `QuestionPath` and its parts

`QuestionPath` follows one of four programs (`path`): the answer graph, one
candidate of the generator bakeoff, the retrieval metrics, the visual evaluation.
They share the channels, the fusion and the provider call and differ in what
comes after, which is where `Search`, `RerankHits`, `Generate`, `ReadReply`,
`Judge`, `ReadJudgement`, `CiteAnswer`, `ScoreChannels`, `ScoreVisual` and
`Finish` belong. `AnswerLoop` has the loop, the trace and the failures of one
question and leaves the evidence abstract; `QuestionPath` has the evidence.

* `Lists`. Sorting and filtering are written by counting, because the tools'
  built-in operators for them have no definition a proof could use.
* `RankFusion`. A channel is a sequence of chunks. `bm25` has a precise and a
  broad query, `multivec` re-ranks what dense and sparse found, `visual` groups
  frames by chunk. Scores of the fusion are exact: sums of 1/(60 + rank) over a
  common denominator (`Scale`). The code adds floats, so the order of chunks whose exact
  scores tie is the chunk id or, for three and more terms, may be decided by the
  last bit; `up` names the chunks rounding favours.
* `ReplyParser`. A reply is the shape of its text and of what a code fence in it
  holds. `CiteCheck`. Overlaps are seconds of half-open spans, the threshold is a
  half, a tie goes to the first chunk. `Grounded` says the same of a result second
  by second, without the arithmetic of the code. Each citation keeps its place in
the reply, so that none can be lost or counted twice.
* `JudgeScores`. The judge's reply is a list of verdicts by index, of which the
  last one counts and only the literal `true`. Rates are pairs (numerator,
  denominator), and `NoFraction` is Python's `None`. The p95 is the code's index
  into the sorted latencies.
* `SpanMetrics`, `VisualMetrics`. Interval recall, precision and IoU as pairs;
  frames by closed windows, as in the code; the answer terms of a row as sets of
  alternatives; `Unreadable` is a frame whose file is gone.
* `ProviderCall`. `Ask` enters the loop; `Answered`, `Rejected` and `Transient`
  are one request with its outcome, `TryAgain` is the sleep. Time is in ticks of
  half a second. It implements `ModelCall` (`ImplementsCall`), which is all its
  callers rely on, and that is checked inside `QuestionPath`, with the callers'
  own retry budgets.

### Chunking: `VttParser`, `Captions`, `FixedWindow`, `TranscriptSegment`, `Chunking`, `TranscriptChunks`

A caption file is the sequence of its lines by kind (header, times, text); a line
of text stands for what `normalize_line` leaves of it, and a blank line, which
decides nothing, is left out. `ParseVttCues` is a recursion over the lines,
`DedupRolling` one over the cues (`EmitCue` is what it does with one).
`TranscriptChunks` starts one step earlier, with what was shown on screen, and
lets `FileOf` write the file YouTube makes of it: roll-up captions repeat the last
line, others do not, and nothing in the file says which it is.

A cue is its times and, per word, whether it ends on terminal punctuation; a text
is a set of word occurrences ordered by cue and position. `FixedWindow` takes one
window per step (`Emit` or `Pass`), `TranscriptSegment` one cue (`Skip`,
`AppendCue`), and both end in `Finish`. A model token is a word. The last tenth
of the *characters* of a truncated window, where a sentence end is preferred, is
left open (`Truncated` allows both outcomes).

### Ablation: `ChunkingAblation`

Chunk ids matter here, unlike in `IngestWorkers`: the ablation deletes and
re-inserts its chunks, and a queued message names an id. Pipeline workers and the
ablation's own drain share the queue; chunk jobs of the pipeline run meanwhile.
A strategy is measured by recall queries (`Recall`: they change nothing and their
figures are left out) and then counted (`CountChunks`, `CountEmbeds`, `CountTsv`).
`complete` in a result is not in the code: it notes whether the strategy was in
fact fully embedded at the last count, and `AlignedIsComplete` compares it with
what the script records. It vouches for the counts, not for the recall figures,
which are older (section 6). What a recall query may miss is bounded by
`EmbeddingIsDue`: a chunk without embeddings has its message in the queue.
`TextHits` and `VisualHits` are what the retrieval channels may return.

## 3. Runs

| Run | Instance | Question |
|---|---|---|
| `ingest_workers` | 1 video, 2 spans, 2 versions, 3 workers, 3 reconciles, 1 abort | do tables, queues, locks and vectors agree in every interleaving; does the lane implement `IngestJobs` |
| `ingest_live` | 2 videos, 2 workers, 2 reconciles, 1 abort | is every pending job served |
| `frames_workers` | 1 video that is replaced by a shorter one, 2 workers, 2 requests, 1 crash, deadlocks | do files, hashes and vectors agree; is every sampling served, and every embedding unless the shorter sample strands it |
| `frames_resume` | the same without the crash | a statement of the code that it does not keep (section 6) |
| `corpus_driver` | 3 talks, 2 corpora, 2 video files, 3 runs | does exit code 0 mean what it says; does a failed run lose work |
| `fetch` | 3 talks of which two are chapters of one source, 2 files, 2 downloads beside 1 driver run | does exit code 0 vouch for the files; is a shared file ever cut too short; is the driver still the driver |
| `answer_loop` | 3 models of 2 families, 3 confidences, every failure | families, bounds, evidence, trace; does every call end |
| `ledger` | casts of 2 or 3 processes of the four scripts, 2 examples, 6 outcomes of a measurement | are runs whole, locks by the rule, winners in order |
| `question_path` | 4 chunks, 5 frames, 2 gold questions and a negative, k = 2 | fusion, citations, scores, metrics, provider calls |
| `ablation` | 2 talks, 2 pipeline workers, 2 ablation runs, 2 chunk jobs, 1 fault | is the baseline kept; has every chunk without embeddings its message; does "aligned" mean complete when counted |
| `chunking` | all caption files of up to 3 cues in time order, rolling up or not | is what was said heard once; do the chunkers cover, partition and respect the row limits and keys |
| `visual_baseline` | 1 talk in the ablation's list and one outside | a statement of the code that it does not keep (section 6) |

The bounds are where the cases happen.

* *Text and visual lane.* Two versions of a file suffice for stale reads, since
  properties compare "old" with "now"; three reconciles make a third message that
  finds a row done, reset, and done again; three workers can be one embedding, one
  chunking and one reconciling the same video. In the visual lane two workers are
  one sampling and one embedding, and two requests a sample of each version. One
  abort at any point exercises every rollback; a second one repeats it from a
  state that is already reachable.
* *Scripts.* Two runs of the ablation are a run after one that died; three runs of
  the driver are two corpora and a retry. Two downloads are one that leaves a file
  and one that finds it, from every set of files an earlier run may have left, and
  with `--force` or without. The casts of the ledger are the pairs that can
  meet on one row or one winner: two embeddings bakeoffs, two sweeps under one id,
  and one process of each script. The six measurements are nobody eligible, an
  ineligible leader, a cheaper candidate at the edge of the band and just outside,
  equal prices, and candidates equal but for the id.
* *A question.* The four chunks are two that overlap, one that only touches its
  neighbour, and one of another talk; the channels find none, one, some or all of
  them in two orders, so that chunks tie, lead everywhere, or are found by one
  channel only. With k = 2 both the cut and what is cut off are visible. The
  frames lie inside, at the edge of and outside the gold window. The judge's
  retry budget is the code's 3, the answer path's 1; the bakeoff generator's is 1
  instead of 3, as the two share one loop. A request takes 0 or 1 tick
  (`PostTicks`), the first back-off is 2 ticks as in the code.
* *Captions.* Cues start at 0..5 and last 1 or 4, with windows of 3 and overlap 1,
  so that cues lie in two windows, span several windows, or fall into a gap
  between others, and texts of up to three words cross the token limit of 4 and
  the trim limit of 1. Three cues are a line, one that adds nothing, and one that
  repeats the line before both; a cue with the same line twice has both dropped when
  the line before it is the same too.

Worker symmetry is used only in runs without liveness properties.
`CHECK_DEADLOCK FALSE` appears where the system may really stop: no more runs of
a script, or a function that has returned. In `question_path` and `corpus_driver`
tables and winners do not change during one measurement except where a step says
so.

**Fairness.** A worker process runs its loop (weak fairness of `Work` per worker):
the drain scripts loop until the queues are empty. Nothing forces anyone to edit,
fetch or fail. In the visual lane a statement that waits for a row gets it when
it is freed again and again (PostgreSQL queues lock waiters), each queue is read
again and again (both drains are re-run by the operator), and a deadlock is
broken. One call of `answer()` is a single process that takes its next step (weak
fairness). Failures are bounded in the worker runs because with endless failures
nothing can be promised. All other runs check safety and refinement and assume no
fairness.

**Refinements.** `IngestWorkers` implements `IngestJobs`, `StagedCorpus`
implements `CorpusDriver`, and the calls of `QuestionPath` implement `ModelCall`.

## 4. Proofs

Every theorem holds for all values of the constants that satisfy the named
assumptions of the modules: any number of videos, talks, workers, processes,
runs, candidates, and any interleaving, failure and abort. `TypeCorrect` of each
proof module is the type invariant. No other property is inductive alone; the
sections below say with what it becomes inductive. Each module has one lemma per
action, a lemma that joins them, and theorems that read a property off the
invariant `IInv`.

**Text lane** (`IngestWorkersProofs`). `LockInv` says what a worker knows at each
label: which rows it has locked (`Locks`), that no one else has them
(`Exclusive`), and what it has read under those locks (`Views`: the text an embed
worker has read is still the chunk's text, because the chunk job that would
replace it needs the row lock; the version a chunk job has read lies between the
recorded and the current one). `DataInv` relates the tables: fresh embeddings,
messages for pending rows, rows and chunks for messages, the complete fan-out.
`LockInv` is proved first and then used for `DataInv`.

* `ClaimsExclusive`, `EmbeddingsFresh`, `WorkNeverLost`, `NoPoison`,
  `FanOutComplete`, `ChunksRecent`, `DoneIsReady` follow from the two.
* `NoDeadlock`: no transactions wait in a circle. Rows are locked in the order
  talks, chunk, embed_text; of any set of waiting workers one holds nothing the
  others want, because two fan-outs of one video exclude each other by its chunk
  row.
* `RunsOncePerRequest`: `attempts` grows only with a status that goes from
  pending to completed.
* `LaneImplementsJobs`: the refinement of `IngestJobs`, step by step; the last
  statement of a transaction is the atomic job, and what `Views` says of the
  worker's reads makes them the reads the atomic job would do.

**Visual lane** (`FramesWorkersProofs`). `LocksOf` says which rows a worker holds
at each label, `Exclusive` that no row is locked twice, and `ViewOf` what stays
true meanwhile: from the purge to the commit a video's sampling is pending and the
files are those its worker has drawn, so that what the directory lists is its own
sample; the image an embedding worker has read is the file on disk if the video is
sampled at all. `OwnPosition` says that vectors belong to a frame of the version
they were made from, which is all that is true of the rows a shorter sample leaves
behind. With `WorkNeverLost` this makes `FilesAreAudited` and `VectorsAreCurrent`
inductive, although the files change outside every transaction and stay behind
when one is rolled back.

**Driver and downloads** (`StagedCorpusProofs`). The driver's own theorems are about
`CD == INSTANCE CorpusDriver`, whose videos come and go at will; `CorpusState` has
the properties, so that they are the same for the driver and for the composition.

* `NothingIsLost`, `ZeroIsDone`. `DriverPhase` says what the run has got done by
  the phase it is in: which queues it has drained and that it reconciled all talks
  but those it counts as failed. `DriverLanes` says what a drained queue means: a
  chunk that is not embedded has a job to come. An exit code of 0 then leaves
  no talk of the corpus behind, although readiness only looks at the gold ones.
* `ZeroIsFetched`, `SourcesStayWhole`. `Plans`: a run has one command
  per file, and it asks for as much as every chapter of the source needs.
  `Progress`: nobody vouches for a file while it is fetched, and what is fetched
  is tall or a failure is counted. `PathAssumption` says that a talk outside the
  list a run was made from does not have its file among that list's (files are
  named by video or source id), and that paths sort.
* `StagedImplementsDriver`: so all that is proved of the driver holds beside
  real downloads.

**Answer loop** (`AnswerLoopProofs`). `EvidenceStaysCurrent`, `SpansArePaths`,
`TablesAgree`. `Asking`: the refined query is in the state exactly when the loop
has been taken, and the evidence is that of the last retrieve span's. `Story`: how
the spans so far lead to the node the call is at, with as many retrievals as
iterations. `Tables`: what is in `traces` and `trace_spans` before each call.

**A question's way** (`QuestionPathProofs`), for all questions, tables, replies,
confidences and budgets. `WayInv` says which stages each of the four programs has,
and that a call is under way only while one of them waits for it.

* `CallsImplement`. `CallInv`: what a call knows in each phase; in particular the
  time since it began is, but for one back-off, at least the wait of the attempt it
  is at, so that the doubling waits of the code add up to the bound of `ModelCall`.
  `Delay` is a recursive function; that it doubles is `DelayDoubles`.
* `CitationsAreGrounded`: for every reply and every list of chunks, `Grounded` of
  `CiteCheck` holds of what `Cite` returns. The overlap the code computes is the
  number of seconds the two spans share; of finitely many chunks one is the first
  of those with most of them (`FirstOfTheGreatest`), so the chunk that is matched
  exists exactly if one overlaps. `AnswersAreGrounded` is the invariant: whatever
  the parser makes of a reply has the fields `Cite` relies on (`ParsedInv`), and
  what it is shown are rows of the table (`SearchInv`).
* `FusionKeepsOrder`. `OrderedSorts`: counting predecessors sorts any finite set by
  any strict total order. `BetterScoresMore`: a chunk that no channel ranks lower,
  and one ranks higher, has the higher score, because every term falls with the
  rank (`TermFalls`, which needs `Scale` to be a multiple of all denominators).
  `FuseIs` and `RerankIs` say what the two sorts return; `SearchInv` that `fused` is
  such a fusion of what was found.
* `GeneratorsEarnScores`. `CreditsAreLastWords`: the fold over the verdicts leaves
  at each index what the last verdict about it says. `P95Is`: at the rank the code
  computes, rounding halves to even, at most one latency in twenty is above.
  `RecordsInv` with `OnTrack` says which questions the records so far are about and
  which are still to come, `JudgementInv` that the judgement is one the parser makes,
  `ResultInv` that the result is the summary of the records; `SummaryIs` reads the
  counts off a list of records.
* `MetricsAgree`. `MergedIs`: what `MergeIntervals` leaves are intervals apart from
  each other that hold the same seconds as those it was given; the step
  (`MergeKeeps`) needs that they come sorted by their starts. `SumOfParts`: summing
  the sizes of disjoint sets in any order gives the size of their union. So the two
  folds of `RegionIouAtK` count seconds (`SumsCount`, `RegionIs`), and passing and
  containing are read off the same sets (`RecallIs`). `AuditIs` does the same for
  the frames. `ScoreInv` says that what is scored is a gold question, that the
  frames are rows of the table, and that a visual run has one consistent record
  (`VisualRecord`) for each row it has measured.

What is assumed: chunk ids are a primary key and spans pass their `CHECK`; a query
finds a row once; gold windows begin before they end, and the gold questions come
before the negatives, as `measure_generation` reads them.

Numbers need an induction in these proofs. `NatSetInduction` has it for sets, from
the least number outside of one; with it `FoldExists` shows that the folds of the
community modules have the value their recursion promises, for any finite set.

**Ledger** (`BakeoffLedgerProofs`). `Runs`: every committed run is the plan of
the process it names, locked or not as the rule says, and no two began at one
time. `Scripts`: what each writer has still to write, under which ids, and what
its open transaction holds. `Whole`: a committed run has all of its results. With
`SweepRows` these are inductive and give `SweepsMatch`, `RunsCommitWhole`,
`LocksFollowRule` and `WinnerNeverFallsBack`. That the rule chooses one candidate
among those that are eligible is a lemma on finite sets with an order.

The assumptions on the constants are what the scripts have: the roles are
disjoint (each is a script), a sweep's id is not a writer's uuid, the gold set is
a list, every measurement is a finite set of candidates with different ids, whose
scores and prices are not negative, and the generator list of
`run_generator_bakeoff.py` names each candidate once and is not empty.

**Ablation** (`ChunkingAblationProofs`). `IdsAreFresh`: no two chunks share an id,
and none is above the last given out, so an embedding of a deleted chunk is never
one of a new chunk. `Measured`: while a strategy is measured its chunks only
become more, so that at the last count there are at least as many as were counted
embedded; if all three counts are equal, every chunk was. This gives
`AlignedWhenCounted`. `BaselineStays` rests on `IdsAreFresh`: what is deleted with
a candidate's chunks belongs to no chunk of the baseline. `EmbeddingStaysDue`
needs that a chunk of the two strategies whose status row says completed has its
embeddings (`DoneIsEmbedded`): only then does a worker throw a message away
unserved. `BoundsAssumption` says the bounds of the model are numbers.

**Chunking** (`ChunkingProofs`), for every transcript whose cues end after they
start, for every caption file, and for every value of the parameters with overlap
smaller than window.

* `WindowsLeaveNothing`: `fixed_window` loses no cue with text. The invariant is
  that every cue whose midpoint lies before `window_start + OVERLAP_SEC` is
  already in a chunk; the step works because a window reaches that far beyond the
  start of its successor.
* `SegmentsPartition`: `transcript_segment` puts every cue with text into exactly
  one chunk, in order. The invariant adds that the open chunk only holds cues the
  loop has passed.
* `RowsAreWhole`: `ChunkRows` for transcripts in which both edges of the cues move
  on (`InTime`). Captions are so, and all transcripts of the run `chunking` are;
  the parser does not enforce it, and with cues out of order a segment may end
  before it starts. Segments have keys of their own because the starts of their
  first cues differ (`SegmentKeys`). `WindowRows` and `SegmentRows` tie the chunks
  so far to the window and to the open segment; the bounds on what is cut off are
  lemmas about cardinalities of starts of texts.
* `SpeechIsHeardOnce`: `SaidOnce` for every screen, rolling up or not, of any number
  of cues with any lines. `Recursion` shows that the functions the two passes define
  exist, `ReadOn` and `EmitOn` that each pass takes one more line, one more cue, after
  those before it. So the file can be followed cue by cue: `ReadBlock` reads what
  `FileOf` writes of a cue, and `SoFar` is the invariant of the induction, of which
  the core is that the tail the deduplication remembers is the residue on screen
  (`TailIsResidue`), however many cues without new lines lie between.

**Only model-checked, and why.** The provers have no fairness and no `ENABLED`, so
liveness stays with TLC: `PendingIsServed` of both lanes, `Terminates`. Every
invariant, action property and refinement of the passing runs is also a theorem. The
library's theorems for induction take an operator and cannot be used; the proofs
use that the order of the naturals and strict inclusion of finite sets are
well-founded instead.

## 5. Not modelled

* Prompts, vector distances, text search, rendering, OCR, tensors: data, not
  control. What they return is a choice.
* Migrations (`db/migrate.py`): applied by hand, one transaction per file, in the
  order of their names, before anything else runs. A second runner that read the
  applied versions too early fails on an object that exists, or on the version's
  primary key, and rolls its file back.
* The asr queue has no handler in the repository; `mark_failed` and pgmq's
  `delete` have no caller.
* `ingest/quality.py`: its verdict is a free choice of `Reconcile`.
* Of the evaluation: the loaders of gold files, the kappa figure, region IoU of
  bounding boxes and the rerank probe. They compute figures from files and decide
  nothing.
* The gold data validator checks one row at a time and keeps nothing. The dated
  evaluation reports and curation tools are one-off scripts nothing depends on.

## 6. What the code does differently from what it says

Shown by a run that TLC finds violated:

* `visual_baseline` — `retrieve/visual.py:148`: the visual channel has no strategy
  filter, so ablation chunks reach the answer loop.
* `frames_resume` — `ingest/frames.py:92`: a shorter re-sample deletes the PNG of a
  frame whose embed job is still queued. That job raises `FileNotFoundError` for
  ever, and since a rollback makes its message visible again at the head of the
  queue, the drain stops at it every time. `scripts/drain_ingest_queue.py:15-17`
  says a partial drain is safe to resume. `PendingIsServed` of the visual lane
  therefore excludes such a frame (`Stranded`), and only such a frame.

Met while modelling, without a run of their own:

* `ingest/readiness.py:42`: readiness counts chunks that have vectors, not completed
  rows. A re-chunk keeps ids and vectors, so the video is reported as complete with
  the vectors of the replaced text until its embed jobs are done.
  `docs/phase-1-design.md:448` counts completed rows. At the end of a drain the two
  agree (`DoneMeansReady`).
* `ingest/handlers.py:144`: the `frames` rows of a longer earlier sample stay, with
  their hash, the path of a file that is gone and, if they were embedded, the
  vectors of the old video, which the visual channel goes on searching.
  `ingest/frames.py:18-21` says leftover frames cannot bleed into the new set, which
  is true of the list `sample` returns. `VisualIsCurrent` says of these rows only
  that their vectors are those of a version that had a frame at that position.
* `scripts/run_chunking_ablation.py:181`: the drain returns when no message is
  visible, though pipeline workers may hold the last ones, and the recall queries
  come before the counts. The row may say aligned over recall figures of a strategy
  that was only half embedded. The script's docstring says it embeds and then
  compares.
* `ingest/cli_all.py:136`: one missing video ends the whole run, though the
  module's docstring says the rest of the corpus continues.
* `generate/nodes/verify.py:118`: an unreadable judge reply gets confidence 0.5 and
  loops back, though the docstring says it must continue.
* Two workers of one video can deadlock (`frames_handler` and
  `embed_frames_handler` lock the same two rows in opposite orders). PostgreSQL
  aborts one, so this costs a retry and an exception, not data; `frames_workers`
  includes it.
* `ingest/cli_all.py:217-219` says the embed_frames queue is empty by construction
  when the frames drain is skipped; after a run that died in that drain, and with
  the videos gone, it is not. The messages wait until the videos are back.
* `generate/api.py:267`: when `flush_spans` fails in the exception path,
  `end_trace` never runs, the trace stays `running`, and the node's exception is
  replaced.
* `scripts/run_chunking_ablation.py:51` calls its re-run idempotent; it deletes the
  status rows of chunks whose embed messages may still be queued from a run that
  died, and such a message makes every worker that reads it raise, so that baseline
  work behind it waits. `BaselineKept` speaks of rows and vectors, not of that wait.
* The ablation's `aligned` counts embeddings of all talks but chunks of its fixed
  list, so a candidate chunk of another talk makes it false for ever.
* `scripts/fetch_video.py:64-66` says a low download fails loudly. The run that
  made it does; but the file stays on disk, the next run skips it as present and
  exits with 0. `ZeroMeansFetched` therefore promises the height only of files the
  run itself fetched. `--force` relies on yt-dlp to replace the file.
* `fetch_video` takes a source that is both a talk of its own and the source of
  chapters for the chapters' length only; `SourceAssumption` excludes it.
* `rrf.fuse` breaks ties by chunk id on sums of floats, which depend on the order
  of their terms: chunks with three or more equal terms need not tie.
* `eval/runners/measure_generation.py:304` computes the nearest rank as
  `round(0.95 n + 0.5)`; Python rounds halves to even, so for n = 20, 60 or 100 the
  p95 is one place too high (for 20 the maximum).
* `measure_visual`'s frame recall is described with an open interval and computed
  with a closed one.
* A reply of status 200 whose content is null passes the provider call as an
  answer, and the parsers raise `TypeError` or `AttributeError` on it
  (`NoContent`).
* A candidate may meet the minimums of the generator bakeoff although it abstained
  on gold questions or the judge failed on some: rates are over judged answers.
* Roll-up captions cannot be told from a speaker who says a line twice: the second
  one is dropped. A cue's index line, if a file has any, is taken for text of the
  cue before it. A spoken line that begins with `NOTE` or `Kind:` closes its cue
  and is lost with what follows it.

## 7. Plan

The modelling is complete but for section 5, and every invariant, action property
and refinement that a run checks is proved. What is left to state and prove are
bounds on the length of a chunk of `FixedWindow` and `TranscriptSegment`.
