---------------------------- MODULE IngestSchema ----------------------------
(***************************************************************************)
(* The vocabulary of the text-ingest lane: transcripts, chunks, the        *)
(* ingest_step_status table and the pgmq queues, and the writes that one   *)
(* committed run of each operation makes to them.  The specifications of   *)
(* the lane (IngestJobs, one job per step; IngestWorkers, one SQL          *)
(* statement per step) share these definitions and add the control.        *)
(*                                                                         *)
(* Text is abstracted to the version of the transcript it was cut from:    *)
(* version n of a transcript is the n-th content of its file, 0 stands for *)
(* "no row".  A chunk is identified by its natural key (video, span); the  *)
(* serial chunk_id is the same for the same key, because this lane never   *)
(* deletes a chunk.                                                        *)
(***************************************************************************)
EXTENDS Naturals, Sequences

CONSTANTS
  Videos,       \* talks of the corpus
  Spans,        \* the (start_sec, end_sec) keys a chunker may emit
  Whole,        \* entity_id = 0: the job is about the whole video
  MaxVersion,   \* bound: contents a transcript file goes through
  Cut,          \* Cut[v][n]: the spans the chunker emits, in order, for
                \* version n of v's transcript (a span may occur twice)
  CaptionsOk,   \* the <<video, version>> pairs that pass the quality probe
  Visual        \* the videos with a format tag in VISUAL_TAGS

Versions == 1..MaxVersion

ASSUME WholeAssumption == Whole \notin Spans
ASSUME MaxVersionAssumption == MaxVersion \in Nat \ {0}
ASSUME CutAssumption == Cut \in [Videos -> [Versions -> Seq(Spans)]]
ASSUME CaptionsAssumption == CaptionsOk \subseteq Videos \X Versions
ASSUME VisualAssumption == Visual \subseteq Videos

-----------------------------------------------------------------------------
\* Rows of ingest_step_status, by their key (step, video_id, entity_id).

WholeJobs == {"fetch", "asr", "frame_sample", "chunk"} \X Videos \X {Whole}
EmbedJobs == {"embed_text"} \X Videos \X Spans
Jobs == WholeJobs \cup EmbedJobs

Job(step, v) == <<step, v, Whole>>
EmbedJob(v, s) == <<"embed_text", v, s>>
StepOf(j) == j[1]
VideoOf(j) == j[2]
SpanOf(j) == j[3]

\* "in_progress" exists only inside a transaction (see IngestWorkers) and
\* "failed" is written by mark_failed alone, which no module calls.
Statuses == {"absent", "pending", "skipped", "completed"}
Done == {"completed", "skipped"}

\* A queue is named by the step of the jobs it carries.
Queues == {"asr", "frame_sample", "chunk", "embed_text"}
Messages == [id : Nat \ {0}, job : Jobs]

\* The messages pgmq adds for a batch of jobs sent to one queue.
Sent(last, batch) ==
  {[id |-> last + i, job |-> batch[i]] : i \in DOMAIN batch}

\* What pgmq.read returns first: the lowest id of a set of messages.
Oldest(msgs) == {m \in msgs : \A o \in msgs : m.id <= o.id}

-----------------------------------------------------------------------------
\* The writes of one committed operation.

\* (Definitions marked "Bug" are not the code: each is a plausible mistake in
\* the definition after it, used to show that a property can fail.)

\* Bug: a re-fetch leaves an existing chunk row alone (DO NOTHING).
ReconciledStatusKept(st, v, probed) ==
  [st EXCEPT ![Job("chunk", v)] = IF @ = "absent" THEN "pending" ELSE @]

\* fetch_reconcile's iss.upsert calls; probed is the version the quality
\* probe read.
ReconciledStatus(st, v, probed) ==
  [st EXCEPT ![Job("fetch", v)] = "completed",
             ![Job("asr", v)] =
               IF <<v, probed>> \in CaptionsOk THEN "skipped" ELSE "pending",
             ![Job("frame_sample", v)] =
               IF v \in Visual THEN "pending" ELSE "skipped",
             ![Job("chunk", v)] = "pending"]

\* fetch_reconcile's pgmq sends, per queue.
ReconcileSends(v, probed) ==
  [q \in Queues |->
     IF \/ q = "chunk"
        \/ q = "asr" /\ <<v, probed>> \notin CaptionsOk
        \/ q = "frame_sample" /\ v \in Visual
     THEN <<Job(q, v)>>
     ELSE <<>>]

SpansCut(v, n) == {Cut[v][n][i] : i \in DOMAIN Cut[v][n]}

\* chunks_repo.upsert: the text of every emitted span is overwritten, the
\* spans of earlier versions stay.
ChunkedText(tx, v, n) ==
  [tx EXCEPT ![v] =
     [s \in Spans |-> IF s \in SpansCut(v, n) THEN n ELSE tx[v][s]]]

\* Bug: the loop upserts the row of the last chunk only.
ChunkedStatusLast(st, v, n) ==
  [j \in Jobs |->
     IF j = Job("chunk", v) THEN "completed"
     ELSE IF Cut[v][n] # <<>> /\ j = EmbedJob(v, Cut[v][n][Len(Cut[v][n])])
     THEN "pending"
     ELSE st[j]]

\* Bug: the upsert leaves an existing embed_text row alone (DO NOTHING).
ChunkedStatusKept(st, v, n) ==
  [j \in Jobs |->
     IF j = Job("chunk", v) THEN "completed"
     ELSE IF /\ \E s \in SpansCut(v, n) : j = EmbedJob(v, s)
             /\ st[j] = "absent"
     THEN "pending"
     ELSE st[j]]

\* chunk_handler's iss.upsert of every emitted chunk, and mark_completed of
\* its own row.
ChunkedStatus(st, v, n) ==
  [j \in Jobs |->
     IF j = Job("chunk", v) THEN "completed"
     ELSE IF \E s \in SpansCut(v, n) : j = EmbedJob(v, s) THEN "pending"
     ELSE st[j]]

\* Bug: the batch misses its last message.
ChunkSendsShort(v, n) ==
  [i \in DOMAIN Cut[v][n] \ {Len(Cut[v][n])} |-> EmbedJob(v, Cut[v][n][i])]

\* chunk_handler's send_batch: one message per emitted chunk, in order.
ChunkSends(v, n) ==
  [i \in DOMAIN Cut[v][n] |-> EmbedJob(v, Cut[v][n][i])]
=============================================================================
