---------------------------- MODULE FramesWorkers ----------------------------
(***************************************************************************)
(* The visual lane at the grain of its SQL statements and file writes.     *)
(* frames_handler samples a video into PNG files and frames rows and fans  *)
(* out one embed_frames job per frame; embed_frames_handler encodes a PNG  *)
(* into the vectors of its row.  Transactions and row locks are those of   *)
(* IngestWorkers; what is new is the directory of PNGs, which              *)
(* frames_handler purges and rewrites outside the transaction: a rollback  *)
(* restores the tables but not the files, and an embed worker reads        *)
(* whatever file is there.                                                 *)
(*                                                                         *)
(* An image is abstracted to the version of the video it was sampled from. *)
(* ffmpeg numbers the files of a sample from 1, and the i-th one is the    *)
(* frame at (i - 1) * every_sec: that number stands for frame_sec.  A      *)
(* frame is identified by (video, frame_sec); frame_id is the same for the *)
(* same key, because nothing deletes a frames row.                         *)
(***************************************************************************)
EXTENDS Naturals, FiniteSets

CONSTANTS
  Videos,       \* talks with a visual format tag
  MaxFrames,    \* bound: frames of a sample
  MaxVersion,   \* bound: contents a video file goes through
  Sampled,      \* Sampled[v][n]: how many files ffmpeg writes for version n of
                \* v's file and the duration of its talks row
  Unstable,     \* <<video, position, version>> triples whose encoding is not
                \* finite
  Workers,      \* processes connected to the database
  MaxRequests,  \* bound: fetch_reconcile runs
  MaxAborts     \* bound: transactions that crash

Versions == 1..MaxVersion
Secs == 1..MaxFrames
Whole == 0  \* entity_id = 0: the job is about the whole video

ASSUME MaxVersionAssumption == MaxVersion \in Nat \ {0}
ASSUME MaxFramesAssumption == MaxFrames \in Nat
ASSUME SampledAssumption == Sampled \in [Videos -> [Versions -> 0..MaxFrames]]
ASSUME BoundsAssumption == MaxRequests \in Nat /\ MaxAborts \in Nat

VARIABLES
  movie,    \* movie[v]: version of v's .mp4 on disk, 0: not staged
  png,      \* png[v][s]: version of the frame file on disk, 0: no file
  sha,      \* sha[v][s]: version whose sha256 the frames row has, 0: no row
  pooled,   \* pooled[v][s]: version its vectors encode, 0: NULL
  status, queue, lastId,       \* ingest_step_status and the two queues
  pc, msg, job, seen, next,    \* per worker, as in IngestWorkers
  held,     \* held[w]: rows its transaction has locked
  requests, aborts             \* for the bounds

disk == <<movie, png>>
database == <<sha, pooled, status, queue, lastId>>
bounds == <<requests, aborts>>
vars == <<disk, database, pc, msg, job, seen, next, held, bounds>>

SampleJobs == {"frame_sample"} \X Videos \X {Whole}
EmbedJobs == {"embed_frames"} \X Videos \X Secs
Jobs == SampleJobs \cup EmbedJobs
SampleJob(v) == <<"frame_sample", v, Whole>>
EmbedJob(v, s) == <<"embed_frames", v, s>>
FrameRow(v, s) == <<"frames", v, s>>
StepOf(j) == j[1]
VideoOf(j) == j[2]
SecOf(j) == j[3]
NoJob == <<"none", Whole, Whole>>
NoMessage == [id |-> 0]

Queues == {"frame_sample", "embed_frames"}
Messages == [id : Nat \ {0}, job : Jobs]
Oldest(msgs) == {m \in msgs : \A o \in msgs : m.id <= o.id}

Positions(v, n) == 1..Sampled[v][n]
\* What target_dir.glob("frame_*.png") lists.
Files(v) == {s \in Secs : png[v][s] # 0}

Init ==
  /\ movie \in [Videos -> {0, 1}]
  /\ png = [v \in Videos |-> [s \in Secs |-> 0]]
  /\ sha = [v \in Videos |-> [s \in Secs |-> 0]]
  /\ pooled = [v \in Videos |-> [s \in Secs |-> 0]]
  /\ status = [j \in Jobs |-> "absent"]
  /\ queue = [q \in Queues |-> {}]
  /\ lastId = [q \in Queues |-> 0]
  /\ pc = [w \in Workers |-> "idle"]
  /\ msg = [w \in Workers |-> NoMessage]
  /\ job = [w \in Workers |-> NoJob]
  /\ seen = [w \in Workers |-> 0]
  /\ next = [w \in Workers |-> 0]
  /\ held = [w \in Workers |-> {}]
  /\ requests = 0 /\ aborts = 0

-----------------------------------------------------------------------------
\* FOR UPDATE, and the row lock of an upsert or an update.
Take(w, row) ==
  /\ \A u \in Workers \ {w} : row \notin held[u]
  /\ held' = [held EXCEPT ![w] = @ \cup {row}]

\* (Definitions marked "Bug" are not the code, see IngestSchema.)

Visible(q) == {m \in queue[q] : \A u \in Workers : msg[u] # m}

Goto(w, to) == pc' = [pc EXCEPT ![w] = to]

EndTransaction(w) ==
  /\ pc' = [pc EXCEPT ![w] = "idle"]
  /\ msg' = [msg EXCEPT ![w] = NoMessage]
  /\ job' = [job EXCEPT ![w] = NoJob]
  /\ seen' = [seen EXCEPT ![w] = 0]
  /\ next' = [next EXCEPT ![w] = 0]
  /\ held' = [held EXCEPT ![w] = {}]

\* Rollback: the tables are as before, the files are not.
Rollback(w) ==
  /\ EndTransaction(w)
  /\ UNCHANGED <<disk, database, requests>>

-----------------------------------------------------------------------------
\* process_one.

Read(w, q) ==
  /\ pc[w] = "idle"
  /\ Goto(w, "claim")
  /\ \E m \in Oldest(Visible(q)) :
       /\ msg' = [msg EXCEPT ![w] = m]
       /\ job' = [job EXCEPT ![w] = m.job]
  /\ UNCHANGED <<disk, database, seen, next, held, bounds>>

Claim(w) ==
  /\ pc[w] = "claim"
  /\ Goto(w, IF status[job[w]] \in {"completed", "skipped"} THEN "acknowledge"
             ELSE IF StepOf(job[w]) = "frame_sample" THEN "video" ELSE "image")
  /\ Take(w, job[w])
  /\ UNCHANGED <<disk, database, msg, job, seen, next, bounds>>

Acknowledge(w) ==
  /\ pc[w] = "acknowledge"
  /\ msg[w] \in queue[StepOf(job[w])]
  /\ queue' = [queue EXCEPT ![StepOf(job[w])] = @ \ {msg[w]}]
  /\ EndTransaction(w)
  /\ UNCHANGED <<disk, sha, pooled, status, lastId, bounds>>

-----------------------------------------------------------------------------
\* frames_handler.

\* The file is there: _purge_stale_frames unlinks the old frames one by one.
Purge(w) ==
  LET v == VideoOf(job[w]) IN
  /\ pc[w] = "video"
  /\ movie[v] # 0
  /\ \E s \in Files(v) : png' = [png EXCEPT ![v][s] = 0]
  /\ UNCHANGED <<movie, database, pc, msg, job, seen, next, held, bounds>>

\* Bug: stale frame files are left in the directory.
OpenUnpurged(w) ==
  LET v == VideoOf(job[w]) IN
  /\ pc[w] = "video"
  /\ movie[v] # 0
  /\ seen' = [seen EXCEPT ![w] = movie[v]]
  /\ next' = [next EXCEPT ![w] = 1]
  /\ Goto(w, IF Sampled[v][movie[v]] = 0 THEN "finish_frames" ELSE "render")
  /\ UNCHANGED <<disk, database, msg, job, held, bounds>>

\* ffmpeg opens the video.
OpenVideo(w) ==
  LET v == VideoOf(job[w]) IN
  /\ pc[w] = "video"
  /\ movie[v] # 0
  /\ Files(v) = {}
  /\ seen' = [seen EXCEPT ![w] = movie[v]]
  /\ next' = [next EXCEPT ![w] = 1]
  /\ Goto(w, IF Sampled[v][movie[v]] = 0 THEN "finish_frames" ELSE "render")
  /\ UNCHANGED <<disk, database, msg, job, held, bounds>>

\* What a loop goes through: ffmpeg's the frames of the video, the upserts'
\* the files that are in the directory when it has ended.
Frames(w) ==
  IF pc[w] = "render" THEN Positions(VideoOf(job[w]), seen[w])
  ELSE Files(VideoOf(job[w]))

\* The next element of the loop at label `at`, or its end.
Advance(w, at, to) ==
  LET more == next[w] + 1 \in Frames(w) IN
  /\ pc[w] = at
  /\ Goto(w, IF more THEN at ELSE to)
  /\ next' = [next EXCEPT ![w] = IF more THEN @ + 1 ELSE 1]
  /\ UNCHANGED <<database, msg, job, seen, bounds>>

\* ffmpeg writes one file.
Render(w) ==
  /\ Advance(w, "render", "frame_rows")
  /\ png' = [png EXCEPT ![VideoOf(job[w])][next[w]] = seen[w]]
  /\ UNCHANGED <<movie, held>>

\* frames_repo.upsert locks the frames rows one by one.
UpsertFrame(w) ==
  /\ Advance(w, "frame_rows", "embed_rows")
  /\ Take(w, FrameRow(VideoOf(job[w]), next[w]))
  /\ UNCHANGED disk

\* iss.upsert waits for a worker that has claimed the embed_frames row.
UpsertEmbedRow(w) ==
  /\ Advance(w, "embed_rows", "finish_frames")
  /\ Take(w, EmbedJob(VideoOf(job[w]), next[w]))
  /\ UNCHANGED disk

\* iss.upsert of every sampled frame, and mark_completed.
SampledStatus(v) ==
  [j \in Jobs |->
     IF j = SampleJob(v) THEN "completed"
     ELSE IF \E s \in Files(v) : j = EmbedJob(v, s) THEN "pending"
     ELSE status[j]]

\* Bug: the batch misses its last message.
FanOutShort(v) ==
  {[id |-> lastId["embed_frames"] + s, job |-> EmbedJob(v, s)] :
     s \in {x \in Files(v) : x + 1 \in Files(v)}}

\* The send_batch of frames_handler.
FanOut(v) ==
  {[id |-> lastId["embed_frames"] + s, job |-> EmbedJob(v, s)] : s \in Files(v)}

\* send_batch, mark_completed, archive, commit.  The upsert leaves the vectors
\* of an existing row alone.
FinishFrames(w) ==
  LET v == VideoOf(job[w]) IN
  /\ pc[w] = "finish_frames"
  /\ msg[w] \in queue["frame_sample"]
  /\ sha' = [sha EXCEPT ![v] =
               [s \in Secs |-> IF s \in Files(v) THEN png[v][s] ELSE sha[v][s]]]
  /\ status' = SampledStatus(v)
  /\ queue' = [queue EXCEPT
                 !["frame_sample"] = @ \ {msg[w]},
                 !["embed_frames"] = @ \cup FanOut(v)]
  /\ lastId' = [lastId EXCEPT !["embed_frames"] = @ + Cardinality(Files(v))]
  /\ EndTransaction(w)
  /\ UNCHANGED <<disk, pooled, bounds>>

-----------------------------------------------------------------------------
\* embed_frames_handler.

\* The image is read from disk and encoded.
ReadImage(w) ==
  LET v == VideoOf(job[w])
      s == SecOf(job[w])
  IN
  /\ pc[w] = "image"
  /\ sha[v][s] # 0 /\ png[v][s] # 0
  /\ Goto(w, "pooled")
  /\ seen' = [seen EXCEPT ![w] = png[v][s]]
  /\ UNCHANGED <<disk, database, msg, job, next, held, bounds>>

\* update_pooled, or clear_embeddings, waits for a worker upserting the row.
UpdatePooled(w) ==
  /\ pc[w] = "pooled"
  /\ Goto(w, "finish_embed")
  /\ Take(w, FrameRow(VideoOf(job[w]), SecOf(job[w])))
  /\ UNCHANGED <<disk, database, msg, job, seen, next, bounds>>

\* Bug: a non-finite encoding is skipped without clearing the row.
VectorsKept(v, s, n) == IF <<v, s, n>> \in Unstable THEN pooled[v][s] ELSE n

\* The vectors a row has after an encoding of version n.
Vectors(v, s, n) == IF <<v, s, n>> \in Unstable THEN 0 ELSE n

FinishEmbed(w) ==
  LET v == VideoOf(job[w])
      s == SecOf(job[w])
  IN
  /\ pc[w] = "finish_embed"
  /\ msg[w] \in queue["embed_frames"]
  /\ pooled' = [pooled EXCEPT ![v][s] = Vectors(v, s, seen[w])]
  /\ status' = [status EXCEPT ![job[w]] = "completed"]
  /\ queue' = [queue EXCEPT !["embed_frames"] = @ \ {msg[w]}]
  /\ EndTransaction(w)
  /\ UNCHANGED <<disk, sha, lastId, bounds>>

-----------------------------------------------------------------------------
\* Failures.

\* The handler raises FileNotFoundError: no video, or no image.
Fails(w) ==
  /\ \/ pc[w] = "video" /\ movie[VideoOf(job[w])] = 0
     \/ pc[w] = "image" /\ png[VideoOf(job[w])][SecOf(job[w])] = 0
  /\ Rollback(w)
  /\ UNCHANGED aborts

\* The row the next statement of w waits for, if another worker has it.
Wanted(w) ==
  CASE pc[w] = "claim" -> {job[w]}
    [] pc[w] = "frame_rows" -> {FrameRow(VideoOf(job[w]), next[w])}
    [] pc[w] = "embed_rows" -> {EmbedJob(VideoOf(job[w]), next[w])}
    [] pc[w] = "pooled" -> {FrameRow(VideoOf(job[w]), SecOf(job[w]))}
    [] OTHER -> {}

Blocked(W) ==
  \A w \in W : \E u \in W \ {w} : Wanted(w) \cap held[u] # {}

\* PostgreSQL finds transactions waiting in a circle and aborts one of them.
DeadlockVictim(w) ==
  /\ \E W \in SUBSET Workers : w \in W /\ Blocked(W)
  /\ Rollback(w)
  /\ UNCHANGED aborts

\* The process dies, or a statement or ffmpeg fails.
Abort(w) ==
  /\ pc[w] # "idle"
  /\ aborts < MaxAborts
  /\ aborts' = aborts + 1
  /\ Rollback(w)

-----------------------------------------------------------------------------
\* The environment.

\* fetch_reconcile of a visual talk, as far as this lane sees it: it waits for
\* the row, makes it pending again and sends a message.
Request(v) ==
  /\ requests < MaxRequests
  /\ \A w \in Workers : SampleJob(v) \notin held[w]
  /\ status' = [status EXCEPT ![SampleJob(v)] = "pending"]
  /\ queue' = [queue EXCEPT
       !["frame_sample"] = @ \cup {[id |-> lastId["frame_sample"] + 1,
                                     job |-> SampleJob(v)]}]
  /\ lastId' = [lastId EXCEPT !["frame_sample"] = @ + 1]
  /\ requests' = requests + 1
  /\ UNCHANGED <<disk, sha, pooled, pc, msg, job, seen, next, held, aborts>>

\* The operator stages the video, or replaces it.
Stage(v) ==
  /\ movie[v] < MaxVersion
  /\ movie' = [movie EXCEPT ![v] = @ + 1]
  /\ UNCHANGED <<png, database, pc, msg, job, seen, next, held, bounds>>

Drained ==
  /\ \A w \in Workers : pc[w] = "idle"
  /\ \A q \in Queues : queue[q] = {}
  /\ UNCHANGED vars

Work(w) ==
  \/ \E q \in Queues : Read(w, q)
  \/ Claim(w) \/ Acknowledge(w)
  \/ Purge(w) \/ OpenVideo(w) \/ Render(w)
  \/ UpsertFrame(w) \/ UpsertEmbedRow(w) \/ FinishFrames(w)
  \/ ReadImage(w) \/ UpdatePooled(w) \/ FinishEmbed(w)
  \/ Fails(w)

Next ==
  \/ \E w \in Workers : Work(w)
  \/ \E w \in Workers : DeadlockVictim(w)
  \/ \E w \in Workers : Abort(w)
  \/ \E v \in Videos : Request(v)
  \/ \E v \in Videos : Stage(v)
  \/ Drained

Spec == Init /\ [][Next]_vars

\* A worker is restarted after a failure, both queues are drained again and
\* again, and a transaction goes on; PostgreSQL breaks every deadlock; a
\* statement that waits for a row gets it when the row is freed again and again
\* (strong fairness: another may be faster some times).
Fairness ==
  /\ \A w \in Workers :
       /\ WF_vars(Work(w))
       /\ SF_vars(Claim(w)) /\ SF_vars(UpsertFrame(w))
       /\ SF_vars(UpsertEmbedRow(w)) /\ SF_vars(UpdatePooled(w))
  /\ \A q \in Queues : SF_vars(\E w \in Workers : Read(w, q))
  /\ WF_vars(\E w \in Workers : DeadlockVictim(w))
FairSpec == Spec /\ Fairness

-----------------------------------------------------------------------------
\* Once a video is sampled, the files on disk are one whole sample of one
\* version of it, and the frames rows of its frames have the hashes of those
\* files.  Hazard: the files are written outside the transaction, by a process
\* that may die while it deletes the old ones or writes the new, or roll back
\* after it; the rows are made from what the directory lists then.
AuditTrail ==
  \A v \in Videos :
    status[SampleJob(v)] = "completed" =>
      \E n \in Versions : \A s \in Secs :
        IF s \in Positions(v, n) THEN png[v][s] = n /\ sha[v][s] = n
        ELSE png[v][s] = 0

\* What the visual channel searches of a sampled video, row by row.  A frame of
\* the sample, once embedded, has the vectors of the file on disk, or none when
\* its encoding is not finite.  A row of a frame the sample no longer has (a
\* longer one had it: nothing deletes the row) may keep vectors, but only of
\* another version of the video, one that had a frame at that position.
\* Hazard: upsert never touches the vectors, and an embed worker may have read
\* the image before, or after, a new sample wrote it but before that sample
\* commits.
VisualIsCurrent ==
  \A v \in Videos, s \in Secs :
    status[SampleJob(v)] = "completed" /\ status[EmbedJob(v, s)] = "completed" =>
      IF png[v][s] # 0
        THEN pooled[v][s] = IF <<v, s, png[v][s]>> \in Unstable THEN 0 ELSE png[v][s]
        ELSE pooled[v][s] # 0 =>
               s \in Positions(v, pooled[v][s]) /\ <<v, s, pooled[v][s]>> \notin Unstable

\* Every pending job of the lane has a message in its queue.
NoLostWork ==
  \A j \in Jobs :
    status[j] = "pending" => \E m \in queue[StepOf(j)] : m.job = j

\* A frame whose embed job waits for a file that a shorter re-sample purged.
Stranded ==
  \E v \in Videos, s \in Secs :
    /\ status[SampleJob(v)] = "completed" /\ png[v][s] = 0
    /\ status[EmbedJob(v, s)] = "pending"

\* Once the videos are staged, every sampling is eventually served, and every
\* embedding too unless a shorter re-sample strands a frame, whatever crashes or
\* deadlocks meanwhile.  Hazard: a rollback makes the message visible again at
\* once, in front of every later one, and a sampling that fails has already
\* purged the files of the jobs that wait.
PendingIsServed ==
  \A j \in Jobs :
    status[j] = "pending" /\ (\A v \in Videos : movie[v] # 0)
      ~> status[j] = "completed" \/ (j \in EmbedJobs /\ Stranded)

\* What src/scripts/drain_ingest_queue.py:15-17 says: a handler failure rolls
\* back and redelivers, so a partial drain is safe to resume.  Every pending job
\* whose video is staged is eventually served by draining again.
ResumedDrainServes ==
  \A j \in Jobs :
    status[j] = "pending" /\ (\A v \in Videos : movie[v] # 0)
      ~> status[j] = "completed"
=============================================================================
