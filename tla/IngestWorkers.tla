---------------------------- MODULE IngestWorkers ----------------------------
(***************************************************************************)
(* The text-ingest lane at the grain of its SQL statements.  A worker      *)
(* process runs one transaction at a time: process_one on a text queue     *)
(* (queues/workers.py with chunk_handler or embed_text_handler) or         *)
(* fetch_reconcile (ingest/pipeline.py).  PostgreSQL runs the transactions *)
(* at READ COMMITTED, so                                                   *)
(*   - a statement reads what is committed when it starts, which is why    *)
(*     every action reads the shared variables of that moment;             *)
(*   - a row written or locked by a transaction blocks the others that     *)
(*     write or lock it until it commits or rolls back ("held");           *)
(*   - a transaction's own writes are seen by nobody else before commit,   *)
(*     so they appear in the shared variables all at once, in the action   *)
(*     of the last statement and the commit;                               *)
(*   - a crash, or an exception of a handler, undoes them all (Abort).     *)
(* The visibility timeout and read_ct that pgmq.read writes belong to the  *)
(* same transaction: a rollback restores them and a commit always archives *)
(* the message, so no other transaction ever sees them.                    *)
(***************************************************************************)
EXTENDS IngestSchema

CONSTANTS
  Workers,        \* processes connected to the database
  MaxReconciles,  \* bound: fetch_reconcile runs
  MaxAborts       \* bound: transactions that roll back

ASSUME WorkersAssumption == Workers # {}
ASSUME BoundsAssumption == MaxReconciles \in Nat /\ MaxAborts \in Nat

VARIABLES
  file, talk, text, embed, status, attempts, queue, lastId,  \* see IngestJobs
  pc,      \* pc[w]: the statement worker w runs next
  msg,     \* msg[w]: the message its transaction read, NoMessage if none
  job,     \* job[w]: the status row its transaction is about
  seen,    \* seen[w]: the version it read, hashed or embeds, 0: none yet
  next,    \* next[w]: index of the next chunk whose row it upserts
  held,    \* held[w]: rows its transaction has locked
  runs,    \* fetch_reconcile runs started
  aborts   \* transactions rolled back

database == <<talk, text, embed, status, attempts, queue, lastId>>
bounds == <<runs, aborts>>
vars == <<file, database, pc, msg, job, seen, next, held, bounds>>

NoMessage == [id |-> 0]
NoJob == <<"none", Whole, Whole>>
TalkRow(v) == Job("talks", v)

Init ==
  /\ file = [v \in Videos |-> 1]
  /\ talk = [v \in Videos |-> 0]
  /\ text = [v \in Videos |-> [s \in Spans |-> 0]]
  /\ embed = [v \in Videos |-> [s \in Spans |-> 0]]
  /\ status = [j \in Jobs |-> "absent"]
  /\ attempts = [j \in Jobs |-> 0]
  /\ queue = [q \in Queues |-> {}]
  /\ lastId = [q \in Queues |-> 0]
  /\ pc = [w \in Workers |-> "idle"]
  /\ msg = [w \in Workers |-> NoMessage]
  /\ job = [w \in Workers |-> NoJob]
  /\ seen = [w \in Workers |-> 0]
  /\ next = [w \in Workers |-> 0]
  /\ held = [w \in Workers |-> {}]
  /\ runs = 0
  /\ aborts = 0

-----------------------------------------------------------------------------
\* Row locks and the end of a transaction.

Free(w, row) == \A u \in Workers \ {w} : row \notin held[u]

\* Bug (definitions marked so are explained in IngestSchema): no row lock.
TakeAnyway(w, row) == held' = [held EXCEPT ![w] = @ \cup {row}]

Take(w, row) ==
  /\ Free(w, row)
  /\ held' = [held EXCEPT ![w] = @ \cup {row}]

\* Bug: read without SKIP LOCKED.
VisibleAlways(q) == queue[q]

\* pgmq.read locks the message it returns and skips those others locked.
Visible(q) == {m \in queue[q] : \A u \in Workers : msg[u] # m}

Goto(w, to) == pc' = [pc EXCEPT ![w] = to]

\* Commit or rollback: the locks go and the worker's variables with them.
EndTransaction(w) ==
  /\ pc' = [pc EXCEPT ![w] = "idle"]
  /\ msg' = [msg EXCEPT ![w] = NoMessage]
  /\ job' = [job EXCEPT ![w] = NoJob]
  /\ seen' = [seen EXCEPT ![w] = 0]
  /\ next' = [next EXCEPT ![w] = 0]
  /\ held' = [held EXCEPT ![w] = {}]

-----------------------------------------------------------------------------
\* fetch_reconcile.

\* fetcher.fetch hashes the file before the transaction writes anything.
Fetch(w, v) ==
  /\ runs < MaxReconciles
  /\ pc[w] = "idle"
  /\ Goto(w, "talk")
  /\ job' = [job EXCEPT ![w] = Job("chunk", v)]
  /\ seen' = [seen EXCEPT ![w] = file[v]]
  /\ runs' = runs + 1
  /\ UNCHANGED <<file, database, msg, next, held, aborts>>

\* upsert_talk.  Two reconciliations of a video take turns from here on, so
\* the rows only they write (fetch, asr, frame_sample) need no lock of
\* their own.
UpsertTalk(w) ==
  /\ pc[w] = "talk"
  /\ Goto(w, "chunk_row")
  /\ Take(w, TalkRow(VideoOf(job[w])))
  /\ UNCHANGED <<file, database, msg, job, seen, next, bounds>>

\* iss.upsert of the chunk row waits for a worker that has claimed it.
UpsertChunkRow(w) ==
  /\ pc[w] = "chunk_row"
  /\ Goto(w, "publish")
  /\ Take(w, job[w])
  /\ UNCHANGED <<file, database, msg, job, seen, next, bounds>>

\* The sends and the commit; the probe read the file since the hash.
Publish(w) ==
  LET v == VideoOf(job[w]) IN
  /\ pc[w] = "publish"
  /\ \E probed \in seen[w]..file[v] :
       LET sends == ReconcileSends(v, probed) IN
       /\ status' = ReconciledStatus(status, v, probed)
       /\ queue' = [q \in Queues |-> queue[q] \cup Sent(lastId[q], sends[q])]
       /\ lastId' = [q \in Queues |-> lastId[q] + Len(sends[q])]
  /\ talk' = [talk EXCEPT ![v] = seen[w]]
  /\ EndTransaction(w)
  /\ UNCHANGED <<file, text, embed, attempts, bounds>>

-----------------------------------------------------------------------------
\* process_one, and the handlers it calls.

Read(w, q) ==
  /\ pc[w] = "idle"
  /\ Goto(w, "claim")
  /\ \E m \in Oldest(Visible(q)) :
       /\ msg' = [msg EXCEPT ![w] = m]
       /\ job' = [job EXCEPT ![w] = m.job]
  /\ UNCHANGED <<file, database, seen, next, held, bounds>>

\* Bug: a row attempted before counts as done.
ClaimFirstAttempt(w) ==
  /\ pc[w] = "claim"
  /\ status[job[w]] # "absent"
  /\ Goto(w, IF attempts[job[w]] > 0 THEN "acknowledge"
             ELSE IF StepOf(job[w]) = "chunk" THEN "transcript" ELSE "text")
  /\ Take(w, job[w])
  /\ UNCHANGED <<file, database, msg, job, seen, next, bounds>>

\* claim_for_update: SELECT ... FOR UPDATE waits for the row and then sees
\* its committed status; a missing row raises (no step here, see Abort).
Claim(w) ==
  /\ pc[w] = "claim"
  /\ status[job[w]] # "absent"
  /\ Goto(w,
          IF status[job[w]] \in Done THEN "acknowledge"
          ELSE IF StepOf(job[w]) = "chunk" THEN "transcript"
          ELSE "text")
  /\ Take(w, job[w])
  /\ UNCHANGED <<file, database, msg, job, seen, next, bounds>>

\* An already completed or skipped row: archive the message and commit.
Acknowledge(w) ==
  /\ pc[w] = "acknowledge"
  /\ msg[w] \in queue[StepOf(job[w])]
  /\ queue' = [queue EXCEPT ![StepOf(job[w])] = @ \ {msg[w]}]
  /\ EndTransaction(w)
  /\ UNCHANGED <<file, talk, text, embed, status, attempts, lastId, bounds>>

\* chunk_handler reads the transcript as it is on disk now, whatever sha256
\* the talks row has, and cuts it.
ReadTranscript(w) ==
  LET v == VideoOf(job[w]) IN
  /\ pc[w] = "transcript"
  /\ talk[v] # 0
  /\ Goto(w,
          IF Cut[v][file[v]] = <<>> THEN "finish_chunk" ELSE "embed_rows")
  /\ seen' = [seen EXCEPT ![w] = file[v]]
  /\ next' = [next EXCEPT ![w] = 1]
  /\ UNCHANGED <<file, database, msg, job, held, bounds>>

\* Bug: the fan-out also updates the talks row at its end (ingested_at).
UpsertEmbedRowThenTalk(w) ==
  LET spans == Cut[VideoOf(job[w])][seen[w]] IN
  /\ pc[w] = "embed_rows"
  /\ Goto(w, IF next[w] = Len(spans) THEN "talk" ELSE "embed_rows")
  /\ Take(w, EmbedJob(VideoOf(job[w]), spans[next[w]]))
  /\ next' = [next EXCEPT ![w] = @ + 1]
  /\ UNCHANGED <<file, database, msg, job, seen, bounds>>

\* The chunk upserts, then iss.upsert of the embed_text row of each chunk in
\* order; each waits for the worker that may be embedding that chunk.
UpsertEmbedRow(w) ==
  LET spans == Cut[VideoOf(job[w])][seen[w]] IN
  /\ pc[w] = "embed_rows"
  /\ Goto(w,
          IF next[w] = Len(spans) THEN "finish_chunk" ELSE "embed_rows")
  /\ Take(w, EmbedJob(VideoOf(job[w]), spans[next[w]]))
  /\ next' = [next EXCEPT ![w] = @ + 1]
  /\ UNCHANGED <<file, database, msg, job, seen, bounds>>

\* send_batch, mark_completed, archive, commit.
FinishChunk(w) ==
  LET v == VideoOf(job[w])
      batch == ChunkSends(v, seen[w])
  IN
  /\ pc[w] = "finish_chunk"
  /\ msg[w] \in queue["chunk"]
  /\ text' = ChunkedText(text, v, seen[w])
  /\ status' = ChunkedStatus(status, v, seen[w])
  /\ attempts' = [attempts EXCEPT ![job[w]] = @ + 1]
  /\ queue' = [queue EXCEPT
                 !["chunk"] = @ \ {msg[w]},
                 !["embed_text"] = @ \cup Sent(lastId["embed_text"], batch)]
  /\ lastId' = [lastId EXCEPT !["embed_text"] = @ + Len(batch)]
  /\ EndTransaction(w)
  /\ UNCHANGED <<file, talk, embed, bounds>>

\* embed_text_handler: chunks_repo.get_text, then the encoder.
ReadText(w) ==
  LET v == VideoOf(job[w])
      s == SpanOf(job[w])
  IN
  /\ pc[w] = "text"
  /\ text[v][s] # 0
  /\ Goto(w, "finish_embed")
  /\ seen' = [seen EXCEPT ![w] = text[v][s]]
  /\ UNCHANGED <<file, database, msg, job, next, held, bounds>>

\* The three embedding writes, mark_completed, archive, commit.
FinishEmbed(w) ==
  /\ pc[w] = "finish_embed"
  /\ msg[w] \in queue["embed_text"]
  /\ embed' = [embed EXCEPT ![VideoOf(job[w])][SpanOf(job[w])] = seen[w]]
  /\ status' = [status EXCEPT ![job[w]] = "completed"]
  /\ attempts' = [attempts EXCEPT ![job[w]] = @ + 1]
  /\ queue' = [queue EXCEPT !["embed_text"] = @ \ {msg[w]}]
  /\ EndTransaction(w)
  /\ UNCHANGED <<file, talk, text, lastId, bounds>>

-----------------------------------------------------------------------------
\* The environment.

\* The operator replaces a transcript file.
Edit(v) ==
  /\ file[v] < MaxVersion
  /\ file' = [file EXCEPT ![v] = @ + 1]
  /\ UNCHANGED <<database, pc, msg, job, seen, next, held, bounds>>

\* The process dies, or a statement or handler raises: rollback.
Abort(w) ==
  /\ pc[w] # "idle"
  /\ aborts < MaxAborts
  /\ aborts' = aborts + 1
  /\ EndTransaction(w)
  /\ UNCHANGED <<file, database, runs>>

\* process_one returns False to every worker: the drain is over.
Drained ==
  /\ \A w \in Workers : pc[w] = "idle"
  /\ queue["chunk"] = {} /\ queue["embed_text"] = {}
  /\ UNCHANGED vars

\* The steps of a worker that has something to do.
Work(w) ==
  \/ UpsertTalk(w) \/ UpsertChunkRow(w) \/ Publish(w)
  \/ \E q \in {"chunk", "embed_text"} : Read(w, q)
  \/ Claim(w) \/ Acknowledge(w)
  \/ ReadTranscript(w) \/ UpsertEmbedRow(w) \/ FinishChunk(w)
  \/ ReadText(w) \/ FinishEmbed(w)

Next ==
  \/ \E w \in Workers : Work(w)
  \/ \E w \in Workers, v \in Videos : Fetch(w, v)
  \/ \E w \in Workers : Abort(w)
  \/ \E v \in Videos : Edit(v)
  \/ Drained

Spec == Init /\ [][Next]_vars

\* A worker process keeps running its loop, and PostgreSQL grants a lock
\* that stays free.  Nothing makes anyone edit, fetch or fail.
Fairness == \A w \in Workers : WF_vars(Work(w))
FairSpec == Spec /\ Fairness

-----------------------------------------------------------------------------
Labels ==
  {"idle", "talk", "chunk_row", "publish", "claim", "acknowledge",
   "transcript", "embed_rows", "finish_chunk", "text", "finish_embed"}
Rows == Jobs \cup {TalkRow(v) : v \in Videos}

DatabaseTypes ==
  /\ talk \in [Videos -> 0..MaxVersion]
  /\ text \in [Videos -> [Spans -> 0..MaxVersion]]
  /\ embed \in [Videos -> [Spans -> 0..MaxVersion]]
  /\ status \in [Jobs -> Statuses]
  /\ attempts \in [Jobs -> Nat]
  /\ queue \in [Queues -> SUBSET Messages]
  /\ lastId \in [Queues -> Nat]

WorkerTypes ==
  /\ pc \in [Workers -> Labels]
  /\ msg \in [Workers -> Messages \cup {NoMessage}]
  /\ job \in [Workers -> Jobs \cup {NoJob}]
  /\ seen \in [Workers -> 0..MaxVersion]
  /\ next \in [Workers -> Nat]
  /\ held \in [Workers -> SUBSET Rows]

TypeOK ==
  /\ file \in [Videos -> Versions]
  /\ DatabaseTypes
  /\ WorkerTypes
  /\ runs \in 0..MaxReconciles /\ aborts \in 0..MaxAborts

\* A chunk whose embed_text row is completed is retrieved by embeddings of
\* the text it has now.  Hazard: an embed worker has read the old text when
\* chunk_handler overwrites it; the row lock taken by claim_for_update and by
\* iss.upsert makes one wait for the other, and the upsert resets the row.
EmbedFresh ==
  \A v \in Videos, s \in Spans :
    status[EmbedJob(v, s)] = "completed" => embed[v][s] = text[v][s]

\* Every pending row a worker can serve has a message in its queue, so a
\* drained queue means nothing is left to do.  Hazard: a message archived by
\* a worker that saw the row done just before it became pending again.
NoLostWork ==
  \A j \in Jobs :
    status[j] = "pending" => \E m \in queue[StepOf(j)] : m.job = j

\* No message is a poison message: its status row exists (claim_for_update
\* finds it) and, for an embed job, so does the chunk it names.  Hazard: the
\* fan-out commits partly, or a message becomes visible before its row.
NoOrphanMessage ==
  \A q \in Queues : \A m \in queue[q] :
    /\ status[m.job] # "absent"
    /\ q = "embed_text" => text[VideoOf(m.job)][SpanOf(m.job)] # 0

\* The fan-out is complete: a stored chunk has its embed_text row.
FannedOut ==
  \A v \in Videos, s \in Spans :
    text[v][s] # 0 => status[EmbedJob(v, s)] # "absent"

\* A completed chunk row means the stored chunks are a whole cut of some
\* transcript at least as recent as the one the talks row records.  Hazard:
\* a worker cuts the old file while a re-fetch records the new one.
ChunkedAsRecorded ==
  \A v \in Videos :
    status[Job("chunk", v)] = "completed" =>
      \E n \in talk[v]..file[v] : \A s \in SpansCut(v, n) : text[v][s] = n

\* readiness.for_video counts the chunks of a video and those that have dense,
\* sparse and token rows (which one transaction writes), and complete compares
\* the counts.
Stored(v) == {s \in Spans : text[v][s] # 0}
Complete(v) ==
  /\ talk[v] # 0
  /\ Stored(v) # {}
  /\ \A s \in Stored(v) : embed[v][s] # 0

\* When all rows of a video are done and its file is the recorded one, the
\* chunks of that file are all searchable with its text, and readiness reports
\* the video as complete if the file has any.  Hazard: readiness looks at
\* neither statuses nor hashes, so nothing but the order of the lane's writes
\* makes its report true at the end of a drain (before that it need not be: after
\* a re-chunk the old vectors count until the embed jobs have run).
DoneMeansReady ==
  \A v \in Videos :
    /\ talk[v] = file[v]
    /\ status[Job("chunk", v)] = "completed"
    /\ \A s \in Spans : status[EmbedJob(v, s)] # "pending"
    => /\ \A s \in SpansCut(v, file[v]) : text[v][s] = file[v] /\ embed[v][s] = file[v]
       /\ Cut[v][file[v]] # <<>> => Complete(v)

\* mark_completed and archive never fail: whoever is about to archive its
\* message is the only worker holding it and the message is still queued, and
\* a row is claimed by one transaction at a time.  WorkerArchiveFailedError
\* and WorkerCompletionFailedError are unreachable.
ClaimsAreExclusive ==
  \A w \in Workers :
    /\ pc[w] \in {"acknowledge", "finish_chunk", "finish_embed"} =>
         msg[w] \in queue[StepOf(job[w])]
    /\ \A u \in Workers \ {w} :
         /\ held[u] \cap held[w] = {}
         /\ msg[w] # NoMessage => msg[u] # msg[w]

\* The row the next statement of w waits for, if another worker has it.
Wanted(w) ==
  CASE pc[w] = "talk" -> {TalkRow(VideoOf(job[w]))}
    [] pc[w] \in {"chunk_row", "claim"} -> {job[w]}
    [] pc[w] = "embed_rows" ->
         {EmbedJob(VideoOf(job[w]), Cut[VideoOf(job[w])][seen[w]][next[w]])}
    [] OTHER -> {}

\* No set of transactions waits in a circle, so PostgreSQL never has to kill
\* one of them.  Hazard: fetch_reconcile, the chunk fan-out and the embed
\* workers lock rows of the same table one after the other.
NoWaitCycle ==
  \A W \in (SUBSET Workers) \ {{}} :
    \E w \in W : \A u \in W \ {w} : Wanted(w) \cap held[u] = {}

\* A job runs once per time it was made pending, however many messages name
\* it: attempts grows only where a pending row becomes completed, by one.
RunOncePerRequest ==
  [][\A j \in Jobs :
       attempts'[j] # attempts[j] =>
         /\ attempts'[j] = attempts[j] + 1
         /\ status[j] = "pending" /\ status'[j] = "completed"]_vars

\* Every statement-level execution is an execution of the atomic jobs.
Atomic == INSTANCE IngestJobs
ImplementsJobs == Atomic!Spec

\* A job that is pending is eventually done, whatever is edited, re-fetched
\* or rolled back meanwhile (finitely often).
PendingIsServed ==
  \A j \in EmbedJobs \cup {Job("chunk", v) : v \in Videos} :
    status[j] = "pending" ~> status[j] = "completed"
=============================================================================
