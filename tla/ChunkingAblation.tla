-------------------------- MODULE ChunkingAblation --------------------------
(***************************************************************************)
(* scripts/run_chunking_ablation.py beside the running pipeline.  The      *)
(* ablation re-chunks a fixed list of talks under a second strategy in the *)
(* tables and the queue the pipeline uses, drains that queue, and then     *)
(* measures both strategies with a series of separate queries, while       *)
(* pipeline workers go on chunking and embedding.  The retrieval channels  *)
(* of the answer loop read the same tables.                                *)
(*                                                                         *)
(* A talk gives one chunk per strategy.  Chunk ids matter here: the        *)
(* pipeline's upsert keeps the id of a chunk, the ablation deletes its     *)
(* chunks and inserts new ones, and a queued message names an id.          *)
(* A worker's transaction is two steps, the claim and the commit, and      *)
(* holds the row lock of its status row between them.                      *)
(***************************************************************************)
EXTENDS Naturals, Sequences, FiniteSets

CONSTANTS
  Talks,      \* rows of talks
  VIDS,       \* the talks of the ablation, a sequence
  Framed,     \* talks whose frames have vectors
  Pipeline,   \* worker processes of the ingest pipeline
  Ablation,   \* the process of the ablation
  MaxRuns,    \* bound: runs of the ablation
  MaxCuts,    \* bound: chunk jobs the pipeline runs
  MaxFaults   \* bound: transactions and runs that die

ASSUME VidsAssumption == VIDS \in Seq(Talks) /\ VIDS # <<>>
ASSUME FramedAssumption == Framed \subseteq Talks
ASSUME AblationAssumption == Ablation \notin Pipeline
ASSUME BoundsAssumption == MaxRuns \in Nat /\ MaxCuts \in Nat /\ MaxFaults \in Nat

VARIABLES
  chunks,    \* rows of chunks
  embedded,  \* chunk ids with rows in all three embedding tables
  status,    \* status[id]: the embed_text row of chunk id
  queue,     \* ingest_embed_text
  holds,     \* holds[p]: the message p's transaction has claimed
  phase,     \* what the ablation does next
  at,        \* which strategy and talk it measures
  total,     \* chunks it has counted
  dense,     \* embeddings it has counted
  results,   \* what it measured, per strategy
  rows,      \* eval_runs rows of code_path 'chunking_ablation'
  lastChunk, lastMsg,    \* serials
  runs, cuts, faults     \* for the bounds

tables == <<chunks, embedded, status, queue, lastChunk, lastMsg>>
measuring == <<at, total, dense, results>>
bounds == <<runs, cuts, faults>>
vars == <<tables, holds, phase, measuring, rows, bounds>>

BASELINE == "fixed_window"
CANDIDATE == "transcript_segment"
Strategies == <<BASELINE, CANDIDATE>>
Processes == Pipeline \cup {Ablation}
ChunkIds == 1..(MaxCuts + MaxRuns * Len(VIDS))
NoMessage == [id |-> 0, chunk |-> 0]
Start == [strategy |-> 1, vid |-> 1]
NoResults == <<>>

ChunksOf(strategy) == {c \in chunks : c.strategy = strategy}
Ids(cs) == {c.id : c \in cs}

Unlocked(p, ids) == \A q \in Processes \ {p} : holds[q].chunk \notin ids

Init ==
  /\ chunks = {} /\ embedded = {} /\ queue = {}
  /\ status = [i \in ChunkIds |-> "absent"]
  /\ holds = [p \in Processes |-> NoMessage]
  /\ phase = "idle" /\ at = Start /\ total = 0 /\ dense = 0
  /\ results = NoResults /\ rows = {}
  /\ lastChunk = 0 /\ lastMsg = 0
  /\ runs = 0 /\ cuts = 0 /\ faults = 0

-----------------------------------------------------------------------------
\* Workers on ingest_embed_text: the pipeline's, and the ablation's drain.

Serving(p) == p = Ablation => phase = "drain"

\* pgmq.read passes over the messages other transactions have locked.
Visible == {m \in queue : \A p \in Processes : holds[p] # m}
Oldest == {m \in Visible : \A o \in Visible : m.id <= o.id}

\* A claimed row that is still to be done.
Claim(p) ==
  /\ Serving(p) /\ holds[p] = NoMessage
  /\ \E m \in Oldest :
       /\ Unlocked(p, {m.chunk})
       /\ status[m.chunk] = "pending"
       /\ holds' = [holds EXCEPT ![p] = m]
  /\ UNCHANGED <<tables, phase, measuring, rows, bounds>>

\* A message whose row is done: archive it.
Acknowledge(p) ==
  /\ Serving(p) /\ holds[p] = NoMessage
  /\ \E m \in Oldest :
       /\ Unlocked(p, {m.chunk})
       /\ status[m.chunk] = "completed"
       /\ queue' = queue \ {m}
  /\ UNCHANGED <<chunks, embedded, status, lastChunk, lastMsg, holds, phase,
                 measuring, rows, bounds>>

\* A message whose row is gone: claim_for_update raises and the message
\* stays.  A pipeline worker dies without a trace, the ablation's run ends.
RowMissing ==
  /\ Serving(Ablation) /\ holds[Ablation] = NoMessage
  /\ \E m \in Oldest : status[m.chunk] = "absent"
  /\ phase' = "idle"
  /\ UNCHANGED <<tables, holds, measuring, rows, bounds>>

\* The three embedding writes, mark_completed, archive, commit.
Embed(p) ==
  /\ holds[p] # NoMessage
  /\ embedded' = embedded \cup {holds[p].chunk}
  /\ status' = [status EXCEPT ![holds[p].chunk] = "completed"]
  /\ queue' = queue \ {holds[p]}
  /\ holds' = [holds EXCEPT ![p] = NoMessage]
  /\ UNCHANGED <<chunks, lastChunk, lastMsg, phase, measuring, rows, bounds>>

\* The transaction rolls back; an exception ends the ablation's run.
Fails(p) ==
  /\ faults < MaxFaults
  /\ holds[p] # NoMessage
  /\ faults' = faults + 1
  /\ holds' = [holds EXCEPT ![p] = NoMessage]
  /\ phase' = IF p = Ablation THEN "idle" ELSE phase
  /\ UNCHANGED <<tables, measuring, rows, runs, cuts>>

-----------------------------------------------------------------------------
\* chunk_handler run by the pipeline for one talk: the upsert keeps the id
\* of a chunk that exists, its embed_text row is reset and a message sent.
Cut(t) ==
  LET old == {c \in chunks : c.talk = t /\ c.strategy = BASELINE}
      ids == IF old = {} THEN {lastChunk + 1} ELSE Ids(old)
  IN
  /\ cuts < MaxCuts
  /\ cuts' = cuts + 1
  /\ Unlocked(Ablation, ids) /\ holds[Ablation].chunk \notin ids
  /\ chunks' = chunks \cup {[id |-> i, talk |-> t, strategy |-> BASELINE] : i \in ids}
  /\ lastChunk' = IF old = {} THEN lastChunk + 1 ELSE lastChunk
  /\ status' = [i \in ChunkIds |-> IF i \in ids THEN "pending" ELSE status[i]]
  /\ lastMsg' = lastMsg + 1
  /\ queue' = queue \cup {[id |-> lastMsg', chunk |-> i] : i \in ids}
  /\ UNCHANGED <<embedded, holds, phase, measuring, rows, runs, faults>>

-----------------------------------------------------------------------------
\* The ablation.

\* main, with or without --measure-only.
Begin(measureOnly) ==
  /\ phase = "idle" /\ runs < MaxRuns
  /\ runs' = runs + 1
  /\ phase' = IF measureOnly THEN "recall" ELSE "rechunk"
  /\ at' = Start /\ total' = 0 /\ dense' = 0 /\ results' = NoResults
  /\ UNCHANGED <<tables, holds, rows, cuts, faults>>

OldChunksAnyStrategy == {c \in chunks : \E i \in DOMAIN VIDS : c.talk = VIDS[i]}
OldChunks ==
  {c \in ChunksOf(CANDIDATE) : \E i \in DOMAIN VIDS : c.talk = VIDS[i]}
NewChunks ==
  {[id |-> lastChunk + i, talk |-> VIDS[i], strategy |-> CANDIDATE] : i \in DOMAIN VIDS}

\* Bug: the messages of an earlier run are taken for those of the new chunks.
QueueAsBefore ==
  IF queue # {} THEN queue
  ELSE {[id |-> lastMsg + i, chunk |-> lastChunk + i] : i \in DOMAIN VIDS}

QueueAfterRechunk ==
  queue \cup {[id |-> lastMsg + i, chunk |-> lastChunk + i] : i \in DOMAIN VIDS}

\* rechunk_candidate and its commit.  Its DELETEs wait for the workers that
\* have claimed one of the rows; the embeddings go with the chunks.
Rechunk ==
  /\ phase = "rechunk"
  /\ phase' = "drain"
  /\ Unlocked(Ablation, Ids(OldChunks))
  /\ chunks' = (chunks \ OldChunks) \cup NewChunks
  /\ embedded' = embedded \ Ids(OldChunks)
  /\ status' = [i \in ChunkIds |->
                  CASE i \in Ids(NewChunks) -> "pending"
                    [] i \in Ids(OldChunks) -> "absent"
                    [] OTHER -> status[i]]
  /\ queue' = QueueAfterRechunk
  /\ lastChunk' = lastChunk + Len(VIDS)
  /\ lastMsg' = lastMsg + Len(VIDS)
  /\ UNCHANGED <<holds, measuring, rows, bounds>>

\* drain returns when no message is visible, whoever holds the others.
Drained ==
  /\ phase = "drain" /\ holds[Ablation] = NoMessage
  /\ Visible = {}
  /\ phase' = "recall"
  /\ UNCHANGED <<tables, holds, measuring, rows, bounds>>

\* The recall figures come first: the queries of the four channels for every
\* gold example.  They change nothing, and their figures are left out.
Recall ==
  /\ phase = "recall"
  /\ phase' = "count"
  /\ UNCHANGED <<tables, holds, measuring, rows, bounds>>

\* Then chunk_stats counts the chunks of one talk of VIDS after another ...
CountChunks ==
  LET s == Strategies[at.strategy] IN
  /\ phase = "count"
  /\ total' = total + Cardinality({c \in ChunksOf(s) : c.talk = VIDS[at.vid]})
  /\ IF at.vid = Len(VIDS)
     THEN phase' = "embeds" /\ UNCHANGED at
     ELSE at' = [at EXCEPT !.vid = @ + 1] /\ UNCHANGED phase
  /\ UNCHANGED <<tables, holds, dense, results, rows, bounds>>

\* ... then the embedded chunks of the strategy, of whatever talk ...
CountEmbeds ==
  /\ phase = "embeds"
  /\ dense' = Cardinality(Ids(ChunksOf(Strategies[at.strategy])) \cap embedded)
  /\ phase' = "tsv"
  /\ UNCHANGED <<tables, holds, at, total, results, rows, bounds>>

AlignedWithoutTsv(tsv) == dense = total
Aligned(tsv) == dense = total /\ tsv = total

\* ... and last the chunks again, for the text index.  "complete" is not in the
\* code: it notes whether the strategy really was embedded at this count.
CountTsv ==
  LET mine == ChunksOf(Strategies[at.strategy]) IN
  /\ phase = "tsv"
  /\ results' = Append(results,
                  [n |-> total, aligned |-> Aligned(Cardinality(mine)),
                   complete |-> Ids(mine) \subseteq embedded])
  /\ IF at.strategy = Len(Strategies)
     THEN phase' = "persist" /\ at' = Start
     ELSE phase' = "recall" /\ at' = [strategy |-> at.strategy + 1, vid |-> 1]
  /\ total' = 0 /\ dense' = 0
  /\ UNCHANGED <<tables, holds, rows, bounds>>

\* One transaction per strategy.
Persist ==
  /\ phase = "persist"
  /\ rows' = rows \cup
       {[run |-> runs, strategy |-> Strategies[at.strategy],
         result |-> results[at.strategy]]}
  /\ IF at.strategy = Len(Strategies)
     THEN phase' = "idle" /\ UNCHANGED at
     ELSE at' = [at EXCEPT !.strategy = @ + 1] /\ UNCHANGED phase
  /\ UNCHANGED <<tables, holds, total, dense, results, bounds>>

\* The ablation is killed between two transactions.
Killed ==
  /\ phase # "idle" /\ holds[Ablation] = NoMessage
  /\ faults < MaxFaults
  /\ faults' = faults + 1
  /\ phase' = "idle"
  /\ UNCHANGED <<tables, holds, measuring, rows, runs, cuts>>

Next ==
  \/ \E p \in Processes : Claim(p) \/ Acknowledge(p) \/ Embed(p) \/ Fails(p)
  \/ RowMissing
  \/ \E t \in Talks : Cut(t)
  \/ \E measureOnly \in BOOLEAN : Begin(measureOnly)
  \/ Rechunk \/ Drained
  \/ Recall \/ CountChunks \/ CountEmbeds \/ CountTsv \/ Persist \/ Killed

Spec == Init /\ [][Next]_vars

-----------------------------------------------------------------------------
\* What a query of the answer loop may retrieve.

\* dense, sparse and multivec join the embeddings with the chunks of one
\* strategy, bm25 reads the chunks of one strategy.
TextHits == {c \in chunks : c.strategy = BASELINE}

\* visual maps the best frames to the chunks they lie in.
VisualHits == {c \in chunks : c.talk \in Framed}

-----------------------------------------------------------------------------
\* The strategies coexist: re-chunking the candidate neither removes a chunk
\* of the baseline nor takes away its embeddings, and a baseline chunk that
\* waits for its embeddings stops waiting only by getting them.
BaselineKept ==
  [][LET ids == Ids(ChunksOf(BASELINE)) IN
     /\ ChunksOf(BASELINE) \subseteq chunks'
     /\ embedded \cap ids \subseteq embedded'
     /\ \A i \in ids :
          status[i] = "pending" => status'[i] = "pending" \/ i \in embedded']_vars

\* A row that says "aligned" was written by a run whose last count found every
\* chunk of the strategy embedded, though the counts come from separate queries
\* with chunk and embed jobs committing in between: the text index is counted
\* last and nothing but the ablation deletes, so equal counts mean equal sets.
\* It vouches for the counts only: the recall figures of the row are older, and
\* drain may have returned while another worker embedded the last chunk.
AlignedIsComplete ==
  \A r \in rows : r.result.aligned => r.result.complete

\* What a recall query may miss: a chunk of either strategy that is not embedded
\* has a message in the queue, held by a worker or still to be read.  So the
\* recall of a strategy is that of all its chunks whenever the queue is empty.
\* Hazard: runs that die leave messages of chunks the next run deletes, chunk
\* jobs send a second message for a chunk, and whoever reads it after the first
\* was served acknowledges it by the status row alone.
EmbeddingIsDue ==
  \A c \in chunks : c.id \notin embedded => \E m \in queue : m.chunk = c.id

\* "Defaults to fixed_window - the production strategy - so the answer loop
\* is unaffected by ablation rows" (retrieve/dense.py).
AnswersUseBaseline ==
  \A c \in TextHits \cup VisualHits : c.strategy = BASELINE
=============================================================================
