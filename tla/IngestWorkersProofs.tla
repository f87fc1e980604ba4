------------------------- MODULE IngestWorkersProofs -------------------------
(***************************************************************************)
(* Theorems about IngestWorkers, for every set of videos, spans and        *)
(* workers and every transcript, proved with TLAPS.                        *)
(***************************************************************************)
EXTENDS IngestWorkers, TLAPS

USE WholeAssumption, MaxVersionAssumption, CutAssumption, BoundsAssumption

\* The jobs the operations write are rows of the table.
LEMMA JobsOfVideo ==
  ASSUME NEW v \in Videos
  PROVE  /\ Job("fetch", v) \in Jobs /\ Job("asr", v) \in Jobs
         /\ Job("frame_sample", v) \in Jobs /\ Job("chunk", v) \in Jobs
         /\ \A s \in Spans : EmbedJob(v, s) \in Jobs
BY DEF Jobs, WholeJobs, EmbedJobs, Job, EmbedJob

\* A job names a video, and an embed_text job a span.
LEMMA PartsOfJob ==
  ASSUME NEW j \in Jobs
  PROVE  /\ VideoOf(j) \in Videos
         /\ StepOf(j) \in Queues \cup {"fetch"}
         /\ StepOf(j) = "chunk" => j = Job("chunk", VideoOf(j))
         /\ StepOf(j) = "embed_text" =>
              SpanOf(j) \in Spans /\ j = EmbedJob(VideoOf(j), SpanOf(j))
BY DEF Jobs, WholeJobs, EmbedJobs, Job, EmbedJob, VideoOf, SpanOf, StepOf, Queues

\* Every job but a fetch job has a queue.
LEMMA QueueOfJob ==
  ASSUME NEW j \in Jobs, j # Job("fetch", VideoOf(j))
  PROVE  StepOf(j) \in Queues
BY DEF Jobs, WholeJobs, EmbedJobs, Job, VideoOf, StepOf, Queues

\* A job determines its step, video and span.
LEMMA JobKeys ==
  /\ \A st, v : StepOf(Job(st, v)) = st /\ VideoOf(Job(st, v)) = v
  /\ \A v, s : /\ StepOf(EmbedJob(v, s)) = "embed_text"
               /\ VideoOf(EmbedJob(v, s)) = v /\ SpanOf(EmbedJob(v, s)) = s
BY DEF Job, EmbedJob, VideoOf, SpanOf, StepOf

\* The spans of a cut are spans, and their jobs a batch of embed_text jobs.
LEMMA CutTypes ==
  ASSUME NEW v \in Videos, NEW n \in Versions
  PROVE  /\ Cut[v][n] \in Seq(Spans)
         /\ Len(Cut[v][n]) \in Nat
         /\ DOMAIN Cut[v][n] = 1..Len(Cut[v][n])
         /\ \A i \in DOMAIN Cut[v][n] : Cut[v][n][i] \in Spans
         /\ SpansCut(v, n) \subseteq Spans
         /\ ChunkSends(v, n) \in Seq(EmbedJobs)
<1>1. Cut[v][n] \in Seq(Spans)
  OBVIOUS
<1>2. \A i \in DOMAIN Cut[v][n] : Cut[v][n][i] \in Spans
  BY <1>1
<1>3. ChunkSends(v, n) \in Seq(EmbedJobs)
  BY <1>1, <1>2 DEF ChunkSends, EmbedJobs, EmbedJob
<1> QED
  BY <1>1, <1>2, <1>3 DEF SpansCut

\* A batch has a message for every span of the cut and for nothing else.
LEMMA SentOfCut ==
  ASSUME NEW v \in Videos, NEW n \in Versions, NEW last
  PROVE  LET sent == Sent(last, ChunkSends(v, n)) IN
         /\ \A s \in SpansCut(v, n) : \E m \in sent : m.job = EmbedJob(v, s)
         /\ \A m \in sent : \E s \in SpansCut(v, n) : m.job = EmbedJob(v, s)
<1> DEFINE batch == ChunkSends(v, n)
<1>1. batch = [i \in DOMAIN Cut[v][n] |-> EmbedJob(v, Cut[v][n][i])]
  BY DEF ChunkSends
<1>2. Sent(last, batch) =
        {[id |-> last + i, job |-> batch[i]] : i \in DOMAIN Cut[v][n]}
  BY <1>1 DEF Sent
<1>3. \A i \in DOMAIN Cut[v][n] : batch[i] = EmbedJob(v, Cut[v][n][i])
  BY <1>1
<1>4. SpansCut(v, n) = {Cut[v][n][i] : i \in DOMAIN Cut[v][n]}
  BY DEF SpansCut
<1> HIDE DEF batch
<1>5. ASSUME NEW s \in SpansCut(v, n)
      PROVE  \E m \in Sent(last, batch) : m.job = EmbedJob(v, s)
  <2>1. PICK i \in DOMAIN Cut[v][n] : s = Cut[v][n][i]
    BY <1>4, <1>5
  <2> DEFINE m == [id |-> last + i, job |-> batch[i]]
  <2>2. m \in Sent(last, batch) /\ m.job = batch[i]
    BY <1>2
  <2> QED
    BY <1>3, <2>1, <2>2
<1>6. ASSUME NEW m \in Sent(last, batch)
      PROVE  \E s \in SpansCut(v, n) : m.job = EmbedJob(v, s)
  <2>1. PICK i \in DOMAIN Cut[v][n] : m = [id |-> last + i, job |-> batch[i]]
    BY <1>2, <1>6
  <2> QED
    BY <1>3, <1>4, <2>1
<1> QED
  BY <1>5, <1>6 DEF batch

-----------------------------------------------------------------------------
\* The inductive invariant, by parts.

InChunk == {"transcript", "embed_rows", "finish_chunk"}
InEmbed == {"text", "finish_embed"}
InReconcile == {"talk", "chunk_row", "publish"}

\* A message is in the queue of its job's step.
QueueSteps == \A q \in Queues : \A m \in queue[q] : StepOf(m.job) = q

\* What a worker's variables hold at each statement.
ControlOf(w) ==
  /\ pc[w] = "idle" => msg[w] = NoMessage
  /\ pc[w] \in InReconcile =>
       /\ msg[w] = NoMessage
       /\ job[w] \in Jobs /\ StepOf(job[w]) = "chunk"
       /\ seen[w] \in 1..file[VideoOf(job[w])]
  /\ pc[w] \in {"claim", "acknowledge"} \cup InChunk \cup InEmbed =>
       /\ msg[w] \in Messages /\ msg[w].job = job[w]
       /\ job[w] \in Jobs /\ StepOf(job[w]) \in {"chunk", "embed_text"}
  /\ pc[w] \in InChunk => StepOf(job[w]) = "chunk"
  /\ pc[w] \in InEmbed => StepOf(job[w]) = "embed_text"
  /\ pc[w] \in {"embed_rows", "finish_chunk"} =>
       seen[w] \in 1..file[VideoOf(job[w])]
  /\ pc[w] = "embed_rows" =>
       next[w] \in 1..Len(Cut[VideoOf(job[w])][seen[w]])

Control == \A w \in Workers : ControlOf(w)

TypeInv == TypeOK /\ QueueSteps /\ Control

\* The initial state has the types.
LEMMA InitTypeInv == Init => TypeInv
BY DEF Init, TypeInv, TypeOK, QueueSteps, Control, ControlOf, Versions, Statuses,
       InReconcile, InChunk, InEmbed, Labels, Rows,
       DatabaseTypes, WorkerTypes

-----------------------------------------------------------------------------
\* TypeInv is kept by every step.

\* The variables of worker w and no other's.
OthersKeep(w) ==
  \A u \in Workers \ {w} :
    /\ pc'[u] = pc[u] /\ msg'[u] = msg[u] /\ job'[u] = job[u]
    /\ seen'[u] = seen[u] /\ next'[u] = next[u] /\ held'[u] = held[u]

\* A step of one worker leaves the others' control state valid.
LEMMA OtherControl ==
  ASSUME TypeOK, Control, NEW w \in Workers, OthersKeep(w), UNCHANGED file,
         ControlOf(w)'
  PROVE  Control'
BY DEF OthersKeep, Control, ControlOf

\* A step that writes nothing leaves the tables' types alone.
LEMMA SameDatabase ==
  ASSUME DatabaseTypes, QueueSteps, UNCHANGED database
  PROVE  DatabaseTypes' /\ QueueSteps'
BY DEF DatabaseTypes, QueueSteps, database

\* A transaction that ends leaves its worker idle and the others as they were.
LEMMA EndTypes ==
  ASSUME TypeInv, NEW w \in Workers, EndTransaction(w), UNCHANGED file
  PROVE  WorkerTypes' /\ Control' /\ OthersKeep(w)
<1>1. OthersKeep(w)
  BY DEF OthersKeep, TypeInv, TypeOK, WorkerTypes, EndTransaction
<1>2. pc'[w] = "idle" /\ msg'[w] = NoMessage
  BY DEF TypeInv, TypeOK, WorkerTypes, EndTransaction
<1>3. ControlOf(w)'
  BY <1>2 DEF ControlOf, InReconcile, InChunk, InEmbed
<1>4. Control'
  BY <1>1, <1>3, OtherControl DEF TypeInv
<1>5. WorkerTypes'
  BY DEF TypeInv, TypeOK, WorkerTypes, EndTransaction, Labels
<1> QED
  BY <1>1, <1>4, <1>5

\* What is sent are messages of the queue it is sent to.
LEMMA SentTypes ==
  ASSUME NEW q \in Queues, NEW last \in Nat, NEW batch \in Seq(Jobs),
         \A i \in DOMAIN batch : StepOf(batch[i]) = q
  PROVE  /\ Sent(last, batch) \subseteq Messages
         /\ \A m \in Sent(last, batch) : StepOf(m.job) = q
         /\ last + Len(batch) \in Nat
<1>1. ASSUME NEW i \in DOMAIN batch
      PROVE  last + i \in Nat \ {0} /\ batch[i] \in Jobs
  OBVIOUS
<1> QED
  BY <1>1 DEF Sent, Messages

\* Reconciliation sends each queue jobs of its step.
LEMMA ReconcileSendsTypes ==
  ASSUME NEW v \in Videos, NEW n, NEW q \in Queues
  PROVE  /\ ReconcileSends(v, n)[q] \in Seq(Jobs)
         /\ \A i \in DOMAIN ReconcileSends(v, n)[q] :
              StepOf(ReconcileSends(v, n)[q][i]) = q
<1> DEFINE sends == ReconcileSends(v, n)[q]
<1>1. sends = <<Job(q, v)>> \/ sends = <<>>
  BY DEF ReconcileSends
<1>2. CASE sends = <<Job(q, v)>>
  <2>1. q \in {"chunk", "asr", "frame_sample"} \/ sends = <<>>
    BY DEF ReconcileSends
  <2>2. Job(q, v) \in Jobs
    BY <1>2, <2>1, JobsOfVideo
  <2>3. StepOf(Job(q, v)) = q
    BY JobKeys
  <2> QED
    BY <1>2, <2>2, <2>3
<1>3. CASE sends = <<>>
  BY <1>3
<1> QED
  BY <1>1, <1>2, <1>3

\* The chunk handler sends embedding jobs.
LEMMA ChunkSendsTypes ==
  ASSUME NEW v \in Videos, NEW n \in Versions
  PROVE  /\ ChunkSends(v, n) \in Seq(Jobs)
         /\ \A i \in DOMAIN ChunkSends(v, n) :
              StepOf(ChunkSends(v, n)[i]) = "embed_text"
<1>1. \A s \in Spans : EmbedJob(v, s) \in Jobs /\ StepOf(EmbedJob(v, s)) = "embed_text"
  BY JobsOfVideo, JobKeys
<1>2. Cut[v][n] \in Seq(Spans)
  BY CutTypes
<1> QED
  BY <1>1, <1>2 DEF ChunkSends

\* Beginning to reconcile a talk keeps the types.
LEMMA FetchTypes ==
  ASSUME TypeInv, NEW w \in Workers, NEW v \in Videos, Fetch(w, v)
  PROVE  TypeInv'
<1>1. Job("chunk", v) \in Jobs /\ StepOf(Job("chunk", v)) = "chunk"
      /\ VideoOf(Job("chunk", v)) = v /\ file[v] \in 1..MaxVersion
  BY JobsOfVideo, JobKeys DEF TypeInv, TypeOK, Versions
<1>2. WorkerTypes'
  BY <1>1 DEF TypeInv, TypeOK, WorkerTypes, Fetch, Goto, Labels
<1>3. OthersKeep(w)
  BY DEF OthersKeep, TypeInv, TypeOK, WorkerTypes, Fetch, Goto
<1>4. ControlOf(w)'
  <2>1. /\ pc'[w] = "talk" /\ job'[w] = Job("chunk", v) /\ seen'[w] = file'[v]
        /\ msg'[w] = NoMessage
    BY DEF TypeInv, TypeOK, WorkerTypes, Control, ControlOf, Fetch, Goto
  <2> QED
    BY <1>1, <2>1 DEF ControlOf, InReconcile, InChunk, InEmbed, Fetch
<1>5. DatabaseTypes' /\ QueueSteps' /\ UNCHANGED file
  BY SameDatabase DEF TypeInv, TypeOK, Fetch
<1>6. runs' \in 0..MaxReconciles /\ aborts' \in 0..MaxAborts
  BY DEF TypeInv, TypeOK, Fetch
<1> QED
  BY <1>2, <1>3, <1>4, <1>5, <1>6, OtherControl DEF TypeInv, TypeOK

\* Locking a row keeps the types.
LEMMA LockTypes ==
  ASSUME TypeInv, NEW w \in Workers, UpsertTalk(w) \/ UpsertChunkRow(w) \/ Claim(w)
  PROVE  TypeInv'
<1> USE DEF UpsertTalk, UpsertChunkRow, Claim
<1>1. job[w] \in Jobs /\ VideoOf(job[w]) \in Videos
  BY PartsOfJob DEF TypeInv, Control, ControlOf, InReconcile
<1>2. WorkerTypes'
  <2>1. TalkRow(VideoOf(job[w])) \in Rows /\ job[w] \in Rows
    BY <1>1 DEF Rows
  <2>2. pc' \in [Workers -> Labels]
    <3>1. \E l \in Labels : pc' = [pc EXCEPT ![w] = l]
      BY DEF Goto, Labels
    <3> QED
      BY <3>1 DEF TypeInv, TypeOK, WorkerTypes
  <2>3. held' \in [Workers -> SUBSET Rows]
    <3>1. \E r \in Rows : held' = [held EXCEPT ![w] = @ \cup {r}]
      BY <2>1 DEF Take
    <3> QED
      BY <3>1 DEF TypeInv, TypeOK, WorkerTypes
  <2> QED
    BY <2>2, <2>3 DEF TypeInv, TypeOK, WorkerTypes
<1>3. OthersKeep(w)
  BY DEF OthersKeep, TypeInv, TypeOK, WorkerTypes, Take, Goto
<1>4. ControlOf(w)'
  BY <1>1 DEF TypeInv, TypeOK, WorkerTypes, Goto, Control, ControlOf,
              InReconcile, InChunk, InEmbed
<1>5. DatabaseTypes' /\ QueueSteps' /\ UNCHANGED <<file, bounds>>
  BY SameDatabase DEF TypeInv, TypeOK
<1> QED
  BY <1>2, <1>3, <1>4, <1>5, OtherControl DEF TypeInv, TypeOK, bounds

\* Reading a message keeps the types.
LEMMA ReadTypes ==
  ASSUME TypeInv, NEW w \in Workers, NEW q \in {"chunk", "embed_text"}, Read(w, q)
  PROVE  TypeInv'
<1>1. PICK m \in Oldest(Visible(q)) :
        msg' = [msg EXCEPT ![w] = m] /\ job' = [job EXCEPT ![w] = m.job]
  BY DEF Read
<1>2. m \in Messages /\ m.job \in Jobs /\ StepOf(m.job) = q
  BY DEF TypeInv, TypeOK, DatabaseTypes, QueueSteps, Queues, Oldest, Visible, Messages
<1>3. WorkerTypes'
  BY <1>1, <1>2 DEF TypeInv, TypeOK, WorkerTypes, Read, Goto, Labels
<1>4. OthersKeep(w)
  BY <1>1 DEF OthersKeep, TypeInv, TypeOK, WorkerTypes, Read, Goto
<1>5. ControlOf(w)'
  <2>1. pc'[w] = "claim" /\ msg'[w] = m /\ job'[w] = m.job
    BY <1>1 DEF TypeInv, TypeOK, WorkerTypes, Read, Goto
  <2> QED
    BY <1>2, <2>1 DEF ControlOf, InReconcile, InChunk, InEmbed
<1>6. DatabaseTypes' /\ QueueSteps' /\ UNCHANGED <<file, bounds>>
  BY SameDatabase DEF TypeInv, TypeOK, Read
<1> QED
  BY <1>3, <1>4, <1>5, <1>6, OtherControl DEF TypeInv, TypeOK, bounds

\* The steps within a handler keep the types.
LEMMA HandlerTypes ==
  ASSUME TypeInv, NEW w \in Workers,
         ReadTranscript(w) \/ UpsertEmbedRow(w) \/ ReadText(w)
  PROVE  TypeInv'
<1> USE DEF ReadTranscript, UpsertEmbedRow, ReadText
<1> DEFINE v == VideoOf(job[w])
<1>1. /\ job[w] \in Jobs /\ v \in Videos /\ file[v] \in Versions
      /\ msg[w] \in Messages /\ msg[w].job = job[w]
  BY PartsOfJob DEF TypeInv, TypeOK, Control, ControlOf, InChunk, InEmbed
<1>2. OthersKeep(w)
  BY DEF OthersKeep, TypeInv, TypeOK, WorkerTypes, Take, Goto
<1>3. DatabaseTypes' /\ QueueSteps' /\ UNCHANGED <<file, bounds, msg, job>>
  BY SameDatabase DEF TypeInv, TypeOK
<1>4. CASE ReadTranscript(w)
  <2>1. StepOf(job[w]) = "chunk"
    BY <1>4 DEF TypeInv, Control, ControlOf, InChunk
  <2>2. WorkerTypes'
    BY <1>1, <1>4 DEF TypeInv, TypeOK, WorkerTypes, Goto, Labels, Versions
  <2>3. Cut[v][file[v]] # <<>> => 1 \in 1..Len(Cut[v][file[v]])
    BY <1>1, CutTypes
  <2>4. /\ seen'[w] = file'[v] /\ next'[w] = 1
        /\ pc'[w] = IF Cut[v][file[v]] = <<>> THEN "finish_chunk" ELSE "embed_rows"
    BY <1>4 DEF TypeInv, TypeOK, WorkerTypes, Goto
  <2>5. ControlOf(w)'
    BY <1>1, <1>3, <2>1, <2>3, <2>4 DEF ControlOf, InReconcile, InChunk, InEmbed, Versions
  <2> QED
    BY <1>2, <1>3, <2>2, <2>5, OtherControl DEF TypeInv, TypeOK, bounds
<1>5. CASE UpsertEmbedRow(w)
  <2> DEFINE spans == Cut[v][seen[w]]
  <2>1. /\ StepOf(job[w]) = "chunk" /\ seen[w] \in 1..file[v]
        /\ seen[w] \in Versions /\ next[w] \in 1..Len(spans)
    BY <1>1, <1>5 DEF TypeInv, Control, ControlOf, InChunk, Versions
  <2>2. spans[next[w]] \in Spans /\ Len(spans) \in Nat
    BY <1>1, <2>1, CutTypes
  <2>3. EmbedJob(v, spans[next[w]]) \in Rows
    BY <1>1, <2>2, JobsOfVideo DEF Rows
  <2>4. WorkerTypes'
    BY <1>5, <2>1, <2>3 DEF TypeInv, TypeOK, WorkerTypes, Take, Goto, Labels
  <2>5. /\ seen'[w] = seen[w] /\ next'[w] = next[w] + 1
        /\ pc'[w] = IF next[w] = Len(spans) THEN "finish_chunk" ELSE "embed_rows"
    BY <1>5 DEF TypeInv, TypeOK, WorkerTypes, Goto
  <2>6. ControlOf(w)'
    BY <1>1, <1>3, <2>1, <2>2, <2>5 DEF ControlOf, InReconcile, InChunk, InEmbed
  <2> QED
    BY <1>2, <1>3, <2>4, <2>6, OtherControl DEF TypeInv, TypeOK, bounds
<1>6. CASE ReadText(w)
  <2>1. StepOf(job[w]) = "embed_text" /\ SpanOf(job[w]) \in Spans
    BY <1>1, <1>6, PartsOfJob DEF TypeInv, Control, ControlOf, InEmbed
  <2>2. WorkerTypes'
    BY <1>1, <1>6, <2>1 DEF TypeInv, TypeOK, DatabaseTypes, WorkerTypes, Goto, Labels
  <2>3. pc'[w] = "finish_embed"
    BY <1>6 DEF TypeInv, TypeOK, WorkerTypes, Goto
  <2>4. ControlOf(w)'
    BY <1>1, <1>3, <2>1, <2>3 DEF ControlOf, InReconcile, InChunk, InEmbed
  <2> QED
    BY <1>2, <1>3, <2>2, <2>4, OtherControl DEF TypeInv, TypeOK, bounds
<1> QED
  BY <1>4, <1>5, <1>6

\* Committing a reconciliation keeps the types.
LEMMA PublishTypes ==
  ASSUME TypeInv, NEW w \in Workers, Publish(w)
  PROVE  TypeInv'
<1> DEFINE v == VideoOf(job[w])
<1>1. job[w] \in Jobs /\ v \in Videos /\ seen[w] \in 1..file[v] /\ file[v] \in Versions
  BY PartsOfJob DEF TypeInv, TypeOK, Control, ControlOf, InReconcile, Publish
<1>2. PICK probed \in seen[w]..file[v] :
        /\ status' = ReconciledStatus(status, v, probed)
        /\ queue' = [q \in Queues |->
                       queue[q] \cup Sent(lastId[q], ReconcileSends(v, probed)[q])]
        /\ lastId' = [q \in Queues |-> lastId[q] + Len(ReconcileSends(v, probed)[q])]
  BY DEF Publish
<1>3. status' \in [Jobs -> Statuses]
  BY <1>1, <1>2, JobsOfVideo
  DEF TypeInv, TypeOK, DatabaseTypes, ReconciledStatus, Statuses
<1>4. ASSUME NEW q \in Queues
      PROVE  /\ Sent(lastId[q], ReconcileSends(v, probed)[q]) \subseteq Messages
             /\ \A m \in Sent(lastId[q], ReconcileSends(v, probed)[q]) : StepOf(m.job) = q
             /\ lastId[q] + Len(ReconcileSends(v, probed)[q]) \in Nat
  <2>1. lastId[q] \in Nat
    BY DEF TypeInv, TypeOK, DatabaseTypes
  <2>2. /\ ReconcileSends(v, probed)[q] \in Seq(Jobs)
        /\ \A i \in DOMAIN ReconcileSends(v, probed)[q] :
             StepOf(ReconcileSends(v, probed)[q][i]) = q
    BY <1>1, ReconcileSendsTypes
  <2> HIDE DEF v
  <2> QED
    BY <2>1, <2>2, SentTypes
<1>5. talk' \in [Videos -> 0..MaxVersion]
  BY <1>1 DEF TypeInv, TypeOK, DatabaseTypes, Publish, Versions
<1>6. DatabaseTypes'
  BY <1>2, <1>3, <1>4, <1>5 DEF TypeInv, TypeOK, DatabaseTypes, Publish
<1>7. QueueSteps'
  BY <1>2, <1>4 DEF TypeInv, QueueSteps
<1>8. UNCHANGED <<file, bounds>> /\ EndTransaction(w)
  BY DEF Publish
<1> QED
  BY <1>6, <1>7, <1>8, EndTypes DEF TypeInv, TypeOK, bounds

\* Committing or ending a worker step keeps the types.
LEMMA FinishTypes ==
  ASSUME TypeInv, NEW w \in Workers,
         Acknowledge(w) \/ FinishChunk(w) \/ FinishEmbed(w)
  PROVE  TypeInv'
<1> DEFINE v == VideoOf(job[w])
<1>1. job[w] \in Jobs /\ v \in Videos /\ file[v] \in Versions
  BY PartsOfJob DEF TypeInv, TypeOK, Control, ControlOf, InChunk, InEmbed,
                    Acknowledge, FinishChunk, FinishEmbed
<1>2. UNCHANGED <<file, bounds>> /\ EndTransaction(w)
  BY DEF Acknowledge, FinishChunk, FinishEmbed
<1>3. DatabaseTypes' /\ QueueSteps'
  <2>1. CASE Acknowledge(w)
    BY <2>1 DEF TypeInv, TypeOK, DatabaseTypes, QueueSteps, Acknowledge
  <2>2. CASE FinishEmbed(w)
    <3>1. SpanOf(job[w]) \in Spans /\ seen[w] \in 0..MaxVersion
      BY <1>1, <2>2, PartsOfJob
      DEF TypeInv, TypeOK, WorkerTypes, Control, ControlOf, InEmbed, FinishEmbed
    <3>2. embed' \in [Videos -> [Spans -> 0..MaxVersion]]
      BY <1>1, <2>2, <3>1 DEF TypeInv, TypeOK, DatabaseTypes, FinishEmbed
    <3>3. status' \in [Jobs -> Statuses] /\ attempts' \in [Jobs -> Nat]
      BY <1>1, <2>2 DEF TypeInv, TypeOK, DatabaseTypes, FinishEmbed, Statuses
    <3>4. queue' \in [Queues -> SUBSET Messages] /\ QueueSteps'
      BY <2>2, ZenonT(40) DEF TypeInv, TypeOK, DatabaseTypes, QueueSteps, FinishEmbed
    <3> QED
      BY <2>2, <3>2, <3>3, <3>4 DEF TypeInv, TypeOK, DatabaseTypes, FinishEmbed
  <2>3. CASE FinishChunk(w)
    <3> DEFINE batch == ChunkSends(v, seen[w])
               sent == Sent(lastId["embed_text"], batch)
    <3>1. seen[w] \in Versions
      BY <1>1, <2>3 DEF TypeInv, Control, ControlOf, FinishChunk, Versions
    <3>2. text' \in [Videos -> [Spans -> 0..MaxVersion]]
      <4> DEFINE row == [s \in Spans |-> IF s \in SpansCut(v, seen[w]) THEN seen[w]
                                                                    ELSE text[v][s]]
      <4>1. text \in [Videos -> [Spans -> 0..MaxVersion]]
        BY DEF TypeInv, TypeOK, DatabaseTypes
      <4>2. text[v] \in [Spans -> 0..MaxVersion] /\ seen[w] \in 0..MaxVersion
        BY <1>1, <3>1, <4>1 DEF Versions
      <4>3. row \in [Spans -> 0..MaxVersion]
        BY <4>2
      <4>4. text' = [text EXCEPT ![v] = row]
        BY <2>3 DEF FinishChunk, ChunkedText
      <4> HIDE DEF row
      <4> QED BY <4>1, <4>3, <4>4
    <3>3. status' \in [Jobs -> Statuses]
      BY <2>3 DEF TypeInv, TypeOK, DatabaseTypes, FinishChunk, ChunkedStatus, Statuses
    <3>4. attempts' \in [Jobs -> Nat]
      BY <1>1, <2>3 DEF TypeInv, TypeOK, DatabaseTypes, FinishChunk
    <3>5. /\ sent \subseteq Messages
          /\ \A m \in sent : StepOf(m.job) = "embed_text"
          /\ lastId["embed_text"] + Len(batch) \in Nat
      BY <1>1, <3>1, ChunkSendsTypes, SentTypes, ZenonT(40)
      DEF TypeInv, TypeOK, DatabaseTypes, Queues
    <3>6. queue' \in [Queues -> SUBSET Messages] /\ QueueSteps'
          /\ lastId' \in [Queues -> Nat]
      <4>1. /\ queue' = [queue EXCEPT !["chunk"] = @ \ {msg[w]},
                                      !["embed_text"] = @ \cup sent]
            /\ lastId' = [lastId EXCEPT !["embed_text"] = @ + Len(batch)]
        BY <2>3 DEF FinishChunk
      <4> HIDE DEF sent, batch
      <4> QED
        BY <3>5, <4>1 DEF TypeInv, TypeOK, DatabaseTypes, QueueSteps
    <3> QED
      BY <2>3, <3>2, <3>3, <3>4, <3>6 DEF TypeInv, TypeOK, DatabaseTypes, FinishChunk
  <2> QED
    BY <2>1, <2>2, <2>3
<1> QED
  BY <1>2, <1>3, EndTypes DEF TypeInv, TypeOK, bounds

\* Every step keeps the types.
LEMMA NextTypes == TypeInv /\ [Next]_vars => TypeInv'
<1> SUFFICES ASSUME TypeInv, [Next]_vars  PROVE TypeInv'
  OBVIOUS
<1>1. ASSUME NEW w \in Workers, Work(w)  PROVE TypeInv'
  BY <1>1, LockTypes, ReadTypes, HandlerTypes, PublishTypes, FinishTypes DEF Work
<1>2. ASSUME NEW w \in Workers, NEW v \in Videos, Fetch(w, v)  PROVE TypeInv'
  BY <1>2, FetchTypes
<1>3. ASSUME NEW w \in Workers, Abort(w)  PROVE TypeInv'
  BY <1>3, EndTypes, SameDatabase DEF TypeInv, TypeOK, Abort
<1>4. ASSUME NEW v \in Videos, Edit(v)  PROVE TypeInv'
  <2>1. file' \in [Videos -> Versions] /\ \A x \in Videos : file'[x] >= file[x]
    BY <1>4 DEF TypeInv, TypeOK, Edit, Versions
  <2>2. \A j \in Jobs : VideoOf(j) \in Videos
    BY PartsOfJob
  <2>3. UNCHANGED <<database, pc, msg, job, seen, next, held, bounds>>
    BY <1>4 DEF Edit
  <2>4. Control'
    <3> SUFFICES ASSUME NEW w \in Workers  PROVE ControlOf(w)'
      BY DEF Control
    <3>1. \A x \in Videos : seen[w] \in 1..file[x] => seen[w] \in 1..file'[x]
      BY <2>1, SMTT(40) DEF TypeInv, TypeOK, Versions
    <3>2. ControlOf(w)
      BY DEF TypeInv, Control
    <3> QED
      BY <2>2, <2>3, <3>1, <3>2 DEF ControlOf, InReconcile, InChunk, InEmbed
  <2>5. DatabaseTypes' /\ QueueSteps'
    BY <2>3, SameDatabase DEF TypeInv, TypeOK
  <2>6. WorkerTypes'
    BY <2>3 DEF TypeInv, TypeOK, WorkerTypes
  <2> QED
    BY <2>1, <2>3, <2>4, <2>5, <2>6 DEF TypeInv, TypeOK, bounds
<1>5. CASE UNCHANGED vars
  BY <1>5, SameDatabase
  DEF TypeInv, TypeOK, WorkerTypes, Control, ControlOf, vars, bounds
<1> QED
  BY <1>1, <1>2, <1>3, <1>4, <1>5 DEF Next, Drained

\* Every variable of the workers and the database keeps its type, whatever
\* the corpus, the transcripts and the interleaving.
THEOREM TypeCorrect == Spec => []TypeOK
<1>1. Spec => []TypeInv
  BY InitTypeInv, NextTypes, PTL DEF Spec
<1> QED
  BY <1>1, PTL DEF TypeInv

-----------------------------------------------------------------------------
\* Two-phase locking: what each transaction has locked, and that this keeps
\* what it has read true until it commits.

\* The rows a worker has locked at statement l, for job j, having read
\* version n and being about to upsert the k-th embed_text row.
HeldAt(l, j, n, k) ==
  LET v == VideoOf(j) IN
  CASE l \in {"idle", "talk", "claim"} -> {}
    [] l = "chunk_row" -> {TalkRow(v)}
    [] l = "publish" -> {TalkRow(v), j}
    [] l \in {"acknowledge", "transcript", "text", "finish_embed"} -> {j}
    [] l = "embed_rows" -> {j} \cup {EmbedJob(v, Cut[v][n][i]) : i \in 1..(k - 1)}
    [] l = "finish_chunk" -> {j} \cup {EmbedJob(v, s) : s \in SpansCut(v, n)}

LocksOf(w) == held[w] = HeldAt(pc[w], job[w], seen[w], next[w])

Locks == \A w \in Workers : LocksOf(w)

Exclusive ==
  \A w \in Workers : \A u \in Workers \ {w} :
    /\ held[u] \cap held[w] = {}
    /\ msg[w] # NoMessage => msg[u] # msg[w]

\* What stays true of the database while w is at each statement.
ViewOf(w) ==
  LET v == VideoOf(job[w]) IN
  /\ pc[w] \in {"claim", "acknowledge"} \cup InChunk \cup InEmbed =>
       msg[w] \in queue[StepOf(job[w])]
  /\ pc[w] = "acknowledge" => status[job[w]] \in Done
  /\ pc[w] \in InChunk \cup InEmbed => status[job[w]] = "pending"
  /\ pc[w] \in {"embed_rows", "finish_chunk"} => talk[v] <= seen[w]
  /\ pc[w] = "finish_embed" =>
       seen[w] # 0 /\ seen[w] = text[v][SpanOf(job[w])]

Views == \A w \in Workers : ViewOf(w)

TalkBehindFile == \A v \in Videos : talk[v] <= file[v]

LockInv == TypeInv /\ Locks /\ Exclusive /\ Views /\ TalkBehindFile

\* What a step of w leaves alone: rows it has not locked, messages other
\* than its own.
Frame(w) ==
  /\ \A j \in Jobs : StepOf(j) \in {"chunk", "embed_text"} /\ j \notin held[w] =>
       status'[j] = status[j]
  /\ \A v \in Videos : Job("chunk", v) \notin held[w] => talk'[v] = talk[v]
  /\ \A v \in Videos, s \in Spans : EmbedJob(v, s) \notin held[w] =>
       text'[v][s] = text[v][s]
  /\ \A q \in Queues : queue[q] \ {msg[w]} \subseteq queue'[q]

\* Initially nothing is locked.
LEMMA InitLockInv == Init => LockInv
<1> SUFFICES ASSUME Init  PROVE LockInv
  OBVIOUS
<1>1. Locks /\ Views /\ Exclusive /\ TalkBehindFile
  BY DEF Init, Locks, LocksOf, HeldAt, Views, ViewOf, Exclusive, TalkBehindFile, InChunk, InEmbed
<1> QED
  BY <1>1, InitTypeInv DEF LockInv

\* A step that writes nothing changes no row another worker holds.
LEMMA SameDatabaseFrame ==
  ASSUME NEW w \in Workers, UNCHANGED database
  PROVE  Frame(w)
BY DEF Frame, database

\* The job of a worker in a handler or reconciliation.
LEMMA WorkersJob ==
  ASSUME TypeInv, NEW w \in Workers, pc[w] # "idle"
  PROVE  /\ job[w] \in Jobs /\ VideoOf(job[w]) \in Videos
         /\ StepOf(job[w]) \in {"chunk", "embed_text"}
         /\ StepOf(job[w]) = "chunk" => job[w] = Job("chunk", VideoOf(job[w]))
         /\ StepOf(job[w]) = "embed_text" =>
              /\ SpanOf(job[w]) \in Spans
              /\ job[w] = EmbedJob(VideoOf(job[w]), SpanOf(job[w]))
         /\ file[VideoOf(job[w])] \in Versions
<1>1. job[w] \in Jobs /\ StepOf(job[w]) \in {"chunk", "embed_text"}
  BY DEF TypeInv, TypeOK, WorkerTypes, Labels, Control, ControlOf, InReconcile, InChunk,
         InEmbed
<1> QED
  BY <1>1, PartsOfJob DEF TypeInv, TypeOK

\* A reconciliation writes only rows it holds.
LEMMA PublishFrame ==
  ASSUME LockInv, NEW w \in Workers, Publish(w)
  PROVE  Frame(w)
<1> DEFINE v == VideoOf(job[w])
<1>1. /\ job[w] = Job("chunk", v) /\ v \in Videos /\ job[w] \in held[w]
  BY WorkersJob
  DEF LockInv, TypeInv, Control, ControlOf, InReconcile, Locks, LocksOf, HeldAt, Publish
<1>2. PICK probed \in seen[w]..file[v] :
        /\ status' = ReconciledStatus(status, v, probed)
        /\ queue' = [q \in Queues |->
                       queue[q] \cup Sent(lastId[q], ReconcileSends(v, probed)[q])]
  BY DEF Publish
<1>3. ASSUME NEW j \in Jobs, StepOf(j) \in {"chunk", "embed_text"}, j \notin held[w]
      PROVE  status'[j] = status[j]
  <2>1. \A st \in {"fetch", "asr", "frame_sample"} : j # Job(st, v)
    BY <1>3, JobKeys
  <2>2. j # Job("chunk", v)
    BY <1>1, <1>3
  <2> QED
    BY <1>2, <2>1, <2>2 DEF LockInv, TypeInv, TypeOK, DatabaseTypes, ReconciledStatus
<1>4. \A x \in Videos : Job("chunk", x) \notin held[w] => talk'[x] = talk[x]
  BY <1>1 DEF LockInv, TypeInv, TypeOK, DatabaseTypes, Publish
<1> QED
  BY <1>2, <1>3, <1>4 DEF Frame, Publish

\* A worker step writes only rows it holds.
LEMMA FinishFrame ==
  ASSUME LockInv, NEW w \in Workers,
         Acknowledge(w) \/ FinishChunk(w) \/ FinishEmbed(w)
  PROVE  Frame(w)
<1> USE DEF LockInv, TypeInv, TypeOK, DatabaseTypes
<1> DEFINE v == VideoOf(job[w])
<1>1. job[w] \in held[w] /\ job[w] \in Jobs /\ v \in Videos
  BY WorkersJob DEF Locks, LocksOf, HeldAt, InEmbed, Acknowledge, FinishChunk, FinishEmbed
<1>2. CASE Acknowledge(w)
  BY <1>2 DEF Frame, Acknowledge
<1>3. CASE FinishEmbed(w)
  BY <1>1, <1>3 DEF Frame, FinishEmbed
<1>4. CASE FinishChunk(w)
  <2>1. job[w] = Job("chunk", v)
    BY <1>4, WorkersJob DEF Control, ControlOf, InChunk, FinishChunk
  <2>2. \A s \in SpansCut(v, seen[w]) : EmbedJob(v, s) \in held[w]
    <3>1. pc[w] = "finish_chunk"
      BY <1>4 DEF FinishChunk
    <3>2. held[w] = HeldAt("finish_chunk", job[w], seen[w], next[w])
      BY <3>1 DEF Locks, LocksOf
    <3> QED
      BY <3>2 DEF HeldAt
  <2>3. \A j \in Jobs : j \notin held[w] => status'[j] = status[j]
    BY <1>1, <1>4, <2>1, <2>2 DEF FinishChunk, ChunkedStatus
  <2>4. \A x \in Videos, s \in Spans :
          EmbedJob(x, s) \notin held[w] => text'[x][s] = text[x][s]
    BY <1>1, <1>4, <2>2 DEF FinishChunk, ChunkedText
  <2>5. \A q \in Queues : queue[q] \ {msg[w]} \subseteq queue'[q]
    BY <1>4 DEF FinishChunk
  <2> QED
    BY <1>4, <2>3, <2>4, <2>5 DEF Frame, FinishChunk
<1> QED
  BY <1>2, <1>3, <1>4

\* What the others have read stays true across a step of w.
LEMMA OtherViews ==
  ASSUME LockInv, NEW w \in Workers, Frame(w), OthersKeep(w),
         NEW u \in Workers \ {w}
  PROVE  ViewOf(u)'
<1> USE DEF LockInv
<1>1. ViewOf(u) /\ LocksOf(u) /\ ControlOf(u)
  BY DEF Views, Locks, TypeInv, Control
<1>2. /\ pc'[u] = pc[u] /\ msg'[u] = msg[u] /\ job'[u] = job[u] /\ seen'[u] = seen[u]
      /\ held[u] \cap held[w] = {} /\ (msg[u] # NoMessage => msg[w] # msg[u])
  BY DEF OthersKeep, Exclusive
<1>3. CASE pc[u] \notin {"claim", "acknowledge"} \cup InChunk \cup InEmbed
  BY <1>2, <1>3 DEF ViewOf, InChunk, InEmbed
<1>4. CASE pc[u] \in {"claim", "acknowledge"} \cup InChunk \cup InEmbed
  <2>1. /\ job[u] \in Jobs /\ VideoOf(job[u]) \in Videos
        /\ StepOf(job[u]) \in {"chunk", "embed_text"} /\ StepOf(job[u]) \in Queues
        /\ StepOf(job[u]) = "chunk" => job[u] = Job("chunk", VideoOf(job[u]))
        /\ StepOf(job[u]) = "embed_text" =>
              /\ SpanOf(job[u]) \in Spans
              /\ job[u] = EmbedJob(VideoOf(job[u]), SpanOf(job[u]))
    BY <1>4, WorkersJob DEF InChunk, InEmbed, Queues
  <2>2. msg[u] # NoMessage
    <3>1. msg[u] \in Messages
      BY <1>1, <1>4 DEF ControlOf
    <3> QED
      BY <3>1 DEF Messages, NoMessage
  <2>3. msg[u] \in queue'[StepOf(job[u])]
    BY <1>1, <1>2, <1>4, <2>1, <2>2 DEF ViewOf, Frame
  <2>4. CASE pc[u] = "claim"
    BY <1>2, <2>3, <2>4 DEF ViewOf, InChunk, InEmbed
  <2>5. CASE pc[u] # "claim"
    <3>1. job[u] \in held[u]
      BY <1>1, <1>4, <2>5 DEF LocksOf, HeldAt, InChunk, InEmbed
    <3>2. status'[job[u]] = status[job[u]]
      BY <1>2, <2>1, <3>1 DEF Frame
    <3>3. StepOf(job[u]) = "chunk" => talk'[VideoOf(job[u])] = talk[VideoOf(job[u])]
      BY <1>2, <2>1, <3>1 DEF Frame
    <3>4. StepOf(job[u]) = "embed_text" =>
            text'[VideoOf(job[u])][SpanOf(job[u])] = text[VideoOf(job[u])][SpanOf(job[u])]
      BY <1>2, <2>1, <3>1 DEF Frame
    <3> QED
      BY <1>1, <1>2, <2>3, <3>2, <3>3, <3>4 DEF ViewOf, ControlOf, InChunk, InEmbed
  <2> QED
    BY <2>4, <2>5
<1> QED
  BY <1>3, <1>4

\* The lemmas below are one per action: the locks, the exclusion and the
\* view of the worker that acts; OtherViews does the rest.

\* A step of one worker leaves the others' locks valid.
LEMMA OtherLocks ==
  ASSUME Locks, NEW w \in Workers, OthersKeep(w), LocksOf(w)'
  PROVE  Locks'
BY DEF Locks, LocksOf, OthersKeep

\* A transaction that ends gives its locks back, and no other's view changes.
LEMMA FinishLocks ==
  ASSUME LockInv, NEW w \in Workers, EndTransaction(w), UNCHANGED file, Frame(w)
  PROVE  Locks' /\ Exclusive' /\ Views'
<1>1. OthersKeep(w)
  BY EndTypes DEF LockInv
<1>2. pc'[w] = "idle" /\ held'[w] = {} /\ msg'[w] = NoMessage
  BY DEF EndTransaction, LockInv, TypeInv, TypeOK, WorkerTypes
<1>3. LocksOf(w)' /\ ViewOf(w)'
  BY <1>2 DEF LocksOf, HeldAt, ViewOf, InChunk, InEmbed
<1>4. Exclusive'
  BY <1>1, <1>2 DEF LockInv, Exclusive, OthersKeep
<1>5. \A u \in Workers \ {w} : ViewOf(u)'
  BY <1>1, OtherViews
<1> QED
  BY <1>1, <1>3, <1>4, <1>5, OtherLocks DEF LockInv, Views

\* Ending a transaction keeps the lock invariant.
LEMMA FinishLockInv ==
  ASSUME LockInv, NEW w \in Workers,
         Publish(w) \/ Acknowledge(w) \/ FinishChunk(w) \/ FinishEmbed(w)
  PROVE  LockInv'
<1>1. EndTransaction(w) /\ UNCHANGED file
  BY DEF Publish, Acknowledge, FinishChunk, FinishEmbed
<1>2. Frame(w)
  BY PublishFrame, FinishFrame
<1>3. TypeInv'
  BY PublishTypes, FinishTypes DEF LockInv
<1>4. TalkBehindFile'
  <2>1. CASE Publish(w)
    <3>1. seen[w] \in 1..file[VideoOf(job[w])] /\ VideoOf(job[w]) \in Videos
      BY <2>1, WorkersJob
      DEF LockInv, TypeInv, Control, ControlOf, InReconcile, Publish
    <3> QED
      BY <2>1, <3>1
      DEF LockInv, TalkBehindFile, TypeInv, TypeOK, DatabaseTypes, Versions, Publish
  <2>2. CASE Acknowledge(w) \/ FinishChunk(w) \/ FinishEmbed(w)
    BY <2>2 DEF LockInv, TalkBehindFile, Acknowledge, FinishChunk, FinishEmbed
  <2> QED
    BY <2>1, <2>2
<1> QED
  BY <1>1, <1>2, <1>3, <1>4, FinishLocks DEF LockInv

\* A lock that is taken is held by nobody else.
LEMMA TakeExclusive ==
  ASSUME LockInv, NEW w \in Workers, NEW row, Take(w, row), OthersKeep(w),
         msg'[w] = msg[w]
  PROVE  Exclusive' /\ held'[w] = held[w] \cup {row}
<1>1. held'[w] = held[w] \cup {row}
  BY DEF Take, LockInv, TypeInv, TypeOK, WorkerTypes
<1>2. \A u \in Workers \ {w} : row \notin held[u]
  BY DEF Take, Free
<1> QED
  BY <1>1, <1>2 DEF LockInv, Exclusive, OthersKeep

\* Locking a row keeps the lock invariant.
LEMMA LockLockInv ==
  ASSUME LockInv, NEW w \in Workers, UpsertTalk(w) \/ UpsertChunkRow(w) \/ Claim(w)
  PROVE  LockInv'
<1> USE DEF UpsertTalk, UpsertChunkRow, Claim
<1>1. UNCHANGED <<file, database, msg, job, seen, next>>
  OBVIOUS
<1>2. OthersKeep(w)
  BY DEF OthersKeep, LockInv, TypeInv, TypeOK, WorkerTypes, Take, Goto
<1>3. \A u \in Workers \ {w} : ViewOf(u)'
  BY <1>1, <1>2, SameDatabaseFrame, OtherViews
<1>4. TypeInv' /\ TalkBehindFile'
  BY <1>1, LockTypes DEF LockInv, TalkBehindFile, database
<1>5. Exclusive' /\ LocksOf(w)' /\ ViewOf(w)'
  <2>1. CASE UpsertTalk(w)
    <3>1. Exclusive' /\ held'[w] = held[w] \cup {TalkRow(VideoOf(job[w]))}
      BY <1>1, <1>2, <2>1, TakeExclusive
    <3>2. held[w] = {} /\ pc'[w] = "chunk_row"
      BY <2>1 DEF LockInv, Locks, LocksOf, HeldAt, TypeInv, TypeOK, WorkerTypes, Goto
    <3> QED
      BY <1>1, <3>1, <3>2 DEF LocksOf, HeldAt, ViewOf, InChunk, InEmbed
  <2>2. CASE UpsertChunkRow(w)
    <3>1. Exclusive' /\ held'[w] = held[w] \cup {job[w]}
      BY <1>1, <1>2, <2>2, TakeExclusive
    <3>2. held[w] = {TalkRow(VideoOf(job[w]))} /\ pc'[w] = "publish"
      BY <2>2 DEF LockInv, Locks, LocksOf, HeldAt, TypeInv, TypeOK, WorkerTypes, Goto
    <3> QED
      BY <1>1, <3>1, <3>2 DEF LocksOf, HeldAt, ViewOf, InChunk, InEmbed
  <2>3. CASE Claim(w)
    <3>1. Exclusive' /\ held'[w] = held[w] \cup {job[w]}
      BY <1>1, <1>2, <2>3, TakeExclusive
    <3>2. /\ held[w] = {}
          /\ pc'[w] = IF status[job[w]] \in Done THEN "acknowledge"
                      ELSE IF StepOf(job[w]) = "chunk" THEN "transcript" ELSE "text"
      BY <2>3 DEF LockInv, Locks, LocksOf, HeldAt, TypeInv, TypeOK, WorkerTypes, Goto
    <3>3. status[job[w]] \in Statuses /\ status[job[w]] # "absent"
      BY <2>3, WorkersJob DEF LockInv, TypeInv, TypeOK, DatabaseTypes
    <3>4. msg[w] \in queue[StepOf(job[w])]
      BY <2>3 DEF LockInv, Views, ViewOf
    <3> QED
      BY <1>1, <3>1, <3>2, <3>3, <3>4
      DEF LocksOf, HeldAt, ViewOf, InChunk, InEmbed, Statuses, Done, database
  <2> QED
    BY <2>1, <2>2, <2>3
<1> QED
  BY <1>2, <1>3, <1>4, <1>5, OtherLocks DEF LockInv, Views

\* Beginning a transaction keeps the lock invariant.
LEMMA StartLockInv ==
  ASSUME LockInv, NEW w \in Workers,
         (\E v \in Videos : Fetch(w, v)) \/ (\E q \in {"chunk", "embed_text"} : Read(w, q))
  PROVE  LockInv'
<1>1. UNCHANGED <<file, database, next, held>> /\ pc[w] = "idle"
  BY DEF Fetch, Read
<1>2. OthersKeep(w)
  BY DEF OthersKeep, LockInv, TypeInv, TypeOK, WorkerTypes, Fetch, Read, Goto
<1>3. \A u \in Workers \ {w} : ViewOf(u)'
  BY <1>1, <1>2, SameDatabaseFrame, OtherViews
<1>4. TypeInv' /\ TalkBehindFile'
  BY <1>1, FetchTypes, ReadTypes DEF LockInv, TalkBehindFile, database
<1>5. held[w] = {}
  BY <1>1 DEF LockInv, Locks, LocksOf, HeldAt
<1>6. Exclusive' /\ LocksOf(w)' /\ ViewOf(w)'
  <2>1. CASE \E v \in Videos : Fetch(w, v)
    <3>1. pc'[w] = "talk" /\ UNCHANGED msg
      BY <2>1 DEF LockInv, TypeInv, TypeOK, WorkerTypes, Fetch, Goto
    <3> QED
      BY <1>1, <1>5, <3>1 DEF LockInv, Exclusive, LocksOf, HeldAt, ViewOf, InChunk, InEmbed
  <2>2. CASE \E q \in {"chunk", "embed_text"} : Read(w, q)
    <3> PICK q \in {"chunk", "embed_text"} : Read(w, q)
      BY <2>2
    <3>1. PICK m \in Oldest(Visible(q)) :
            msg' = [msg EXCEPT ![w] = m] /\ job' = [job EXCEPT ![w] = m.job]
      BY DEF Read
    <3>2. m \in queue[q] /\ (\A u \in Workers : msg[u] # m) /\ StepOf(m.job) = q
      BY <3>1 DEF LockInv, TypeInv, QueueSteps, Queues, Oldest, Visible
    <3>3. pc'[w] = "claim" /\ msg'[w] = m /\ job'[w] = m.job
      BY <3>1 DEF LockInv, TypeInv, TypeOK, WorkerTypes, Read, Goto
    <3>4. Exclusive'
      BY <1>1, <1>2, <3>2, <3>3 DEF LockInv, Exclusive, OthersKeep
    <3> QED
      BY <1>1, <1>5, <3>2, <3>3, <3>4 DEF LocksOf, HeldAt, ViewOf, InChunk, InEmbed, database
  <2> QED
    BY <2>1, <2>2
<1> QED
  BY <1>2, <1>3, <1>4, <1>6, OtherLocks DEF LockInv, Views

\* Upserting the k-th row locks it, and after the last one the locks are
\* those of the whole cut.
LEMMA HeldGrows ==
  ASSUME NEW j, NEW n \in Versions, VideoOf(j) \in Videos,
         NEW k \in 1..Len(Cut[VideoOf(j)][n])
  PROVE  HeldAt("embed_rows", j, n, k) \cup {EmbedJob(VideoOf(j), Cut[VideoOf(j)][n][k])}
           = IF k = Len(Cut[VideoOf(j)][n])
             THEN HeldAt("finish_chunk", j, n, k + 1)
             ELSE HeldAt("embed_rows", j, n, k + 1)
<1> DEFINE v == VideoOf(j)
           c == Cut[v][n]
<1>1. Len(c) \in Nat /\ DOMAIN c = 1..Len(c)
  BY CutTypes
<1>2. HeldAt("embed_rows", j, n, k) = {j} \cup {EmbedJob(v, c[i]) : i \in 1..(k - 1)}
  BY DEF HeldAt
<1>3. HeldAt("embed_rows", j, n, k + 1) = {j} \cup {EmbedJob(v, c[i]) : i \in 1..k}
  <2>1. (k + 1) - 1 = k
    BY <1>1
  <2> QED
    BY <2>1 DEF HeldAt
<1>4. HeldAt("finish_chunk", j, n, k + 1)
        = {j} \cup {EmbedJob(v, c[i]) : i \in 1..Len(c)}
  BY <1>1 DEF HeldAt, SpansCut
<1>5. 1..k = (1..(k - 1)) \cup {k}
  BY <1>1
<1>6. {EmbedJob(v, c[i]) : i \in 1..k}
        = {EmbedJob(v, c[i]) : i \in 1..(k - 1)} \cup {EmbedJob(v, c[k])}
  BY <1>5
<1> QED
  BY <1>2, <1>3, <1>4, <1>6

\* The steps within a handler keep the lock invariant.
LEMMA HandlerLockInv ==
  ASSUME LockInv, NEW w \in Workers,
         ReadTranscript(w) \/ UpsertEmbedRow(w) \/ ReadText(w)
  PROVE  LockInv'
<1> DEFINE v == VideoOf(job[w])
<1>1. UNCHANGED <<file, database, msg, job>>
  BY DEF ReadTranscript, UpsertEmbedRow, ReadText
<1>2. OthersKeep(w)
  BY DEF OthersKeep, LockInv, TypeInv, TypeOK, WorkerTypes, Take, Goto,
         ReadTranscript, UpsertEmbedRow, ReadText
<1>3. \A u \in Workers \ {w} : ViewOf(u)'
  BY <1>1, <1>2, SameDatabaseFrame, OtherViews
<1>4. TypeInv' /\ TalkBehindFile'
  BY <1>1, HandlerTypes DEF LockInv, TalkBehindFile, database
<1>5. Exclusive' /\ LocksOf(w)' /\ ViewOf(w)'
  <2> USE DEF InChunk, InEmbed
  <2>0. v \in Videos /\ file[v] \in Versions
    <3>1. pc[w] # "idle"
      BY DEF ReadTranscript, UpsertEmbedRow, ReadText
    <3> QED
      BY <3>1, WorkersJob DEF LockInv
  <2>1. CASE ReadTranscript(w)
    <3>1. /\ pc[w] = "transcript" /\ UNCHANGED held
          /\ seen'[w] = file[v] /\ next'[w] = 1
          /\ pc'[w] = IF Cut[v][file[v]] = <<>> THEN "finish_chunk" ELSE "embed_rows"
      BY <2>1 DEF LockInv, TypeInv, TypeOK, WorkerTypes, ReadTranscript, Goto
    <3>2. ViewOf(w)
      BY DEF LockInv, Views
    <3>3. ViewOf(w)'
      BY <1>1, <2>0, <3>1, <3>2 DEF ViewOf, LockInv, TalkBehindFile, database
    <3>4. Exclusive'
      BY <1>1, <3>1 DEF LockInv, Exclusive
    <3>5. held[w] = {job[w]}
      BY <3>1 DEF LockInv, Locks, LocksOf, HeldAt
    <3>6. Cut[v][file[v]] = <<>> => SpansCut(v, file[v]) = {}
      BY DEF SpansCut
    <3>7. LocksOf(w)'
      <4>1. CASE pc'[w] = "finish_chunk"
        BY <1>1, <3>1, <3>5, <3>6, <4>1 DEF LocksOf, HeldAt
      <4>2. CASE pc'[w] = "embed_rows"
        BY <1>1, <3>1, <3>5, <4>2 DEF LocksOf, HeldAt
      <4> QED
        BY <3>1, <4>1, <4>2
    <3> QED
      BY <3>3, <3>4, <3>7
  <2>2. CASE UpsertEmbedRow(w)
    <3> DEFINE spans == Cut[v][seen[w]]
               row == EmbedJob(v, spans[next[w]])
    <3>1. /\ pc[w] = "embed_rows" /\ seen'[w] = seen[w] /\ next'[w] = next[w] + 1
          /\ pc'[w] = IF next[w] = Len(spans) THEN "finish_chunk" ELSE "embed_rows"
      BY <2>2 DEF LockInv, TypeInv, TypeOK, WorkerTypes, UpsertEmbedRow, Goto
    <3>2. ViewOf(w)'
      BY <1>1, <3>1 DEF ViewOf, LockInv, Views, database
    <3>3. Exclusive' /\ held'[w] = held[w] \cup {row}
      BY <1>1, <1>2, <2>2, TakeExclusive DEF UpsertEmbedRow
    <3>4. seen[w] \in Versions /\ next[w] \in 1..Len(spans)
      BY <2>0, <3>1 DEF LockInv, TypeInv, Control, ControlOf, Versions
    <3>5. held[w] = HeldAt("embed_rows", job[w], seen[w], next[w])
      BY <3>1 DEF LockInv, Locks, LocksOf
    <3>6. held'[w] = HeldAt(pc'[w], job[w], seen[w], next[w] + 1)
      <4>1. HeldAt("embed_rows", job[w], seen[w], next[w]) \cup {row}
              = IF next[w] = Len(spans)
                THEN HeldAt("finish_chunk", job[w], seen[w], next[w] + 1)
                ELSE HeldAt("embed_rows", job[w], seen[w], next[w] + 1)
        BY <2>0, <3>4, HeldGrows
      <4>2. held'[w] = HeldAt("embed_rows", job[w], seen[w], next[w]) \cup {row}
        BY <3>3, <3>5
      <4> HIDE DEF row, spans, v
      <4> QED BY <3>1, <4>1, <4>2
    <3>7. LocksOf(w)'
      BY <1>1, <3>1, <3>6 DEF LocksOf
    <3> QED
      BY <3>2, <3>3, <3>7
  <2>3. CASE ReadText(w)
    <3>1. /\ pc[w] = "text" /\ UNCHANGED held /\ pc'[w] = "finish_embed"
          /\ seen'[w] = text[v][SpanOf(job[w])] /\ text[v][SpanOf(job[w])] # 0
      BY <2>3 DEF LockInv, TypeInv, TypeOK, WorkerTypes, ReadText, Goto
    <3>2. ViewOf(w)'
      BY <1>1, <3>1 DEF ViewOf, LockInv, Views, database
    <3>3. Exclusive'
      BY <1>1, <3>1 DEF LockInv, Exclusive
    <3>4. LocksOf(w)'
      BY <1>1, <3>1 DEF LockInv, Locks, LocksOf, HeldAt
    <3> QED
      BY <3>2, <3>3, <3>4
  <2> QED
    BY <2>1, <2>2, <2>3 DEF ReadTranscript, UpsertEmbedRow, ReadText
<1> QED
  BY <1>2, <1>3, <1>4, <1>5, OtherLocks DEF LockInv, Views

\* Every step keeps the lock invariant.
LEMMA NextLockInv == LockInv /\ [Next]_vars => LockInv'
<1> SUFFICES ASSUME LockInv, [Next]_vars  PROVE LockInv'
  OBVIOUS
<1>1. ASSUME NEW w \in Workers, Work(w)  PROVE LockInv'
  BY <1>1, LockLockInv, StartLockInv, HandlerLockInv, FinishLockInv DEF Work
<1>2. ASSUME NEW w \in Workers, NEW v \in Videos, Fetch(w, v)  PROVE LockInv'
  BY <1>2, StartLockInv
<1>3. TypeInv'
  BY NextTypes DEF LockInv
<1>4. ASSUME NEW w \in Workers, Abort(w)  PROVE LockInv'
  <2>1. EndTransaction(w) /\ UNCHANGED <<file, database>>
    BY <1>4 DEF Abort
  <2> QED
    BY <1>3, <2>1, SameDatabaseFrame, FinishLocks DEF LockInv, TalkBehindFile, database
<1>5. ASSUME NEW v \in Videos, Edit(v)  PROVE LockInv'
  <2>1. UNCHANGED <<database, pc, msg, job, seen, next, held>>
    BY <1>5 DEF Edit
  <2>2. TalkBehindFile'
    BY <1>5 DEF Edit, database, LockInv, TalkBehindFile, TypeInv, TypeOK, DatabaseTypes,
                Versions
  <2>3. Locks' /\ Exclusive' /\ Views'
    BY <2>1 DEF LockInv, Locks, LocksOf, Exclusive, Views, ViewOf, database
  <2> QED
    BY <1>3, <2>2, <2>3 DEF LockInv
<1>6. CASE UNCHANGED vars
  BY <1>3, <1>6 DEF vars, database, LockInv, Locks, LocksOf, Exclusive, Views, ViewOf,
                    TalkBehindFile
<1> QED
  BY <1>1, <1>2, <1>4, <1>5, <1>6 DEF Next, Drained

\* The lock invariant holds throughout.
LEMMA AlwaysLockInv == Spec => []LockInv
BY InitLockInv, NextLockInv, PTL DEF Spec

\* Two transactions never hold one row or one message, and the message a
\* worker is about to archive is still queued: neither of the two "failed"
\* exceptions of process_one can be raised.
THEOREM ClaimsExclusive == Spec => []ClaimsAreExclusive
<1>1. LockInv => ClaimsAreExclusive
  BY DEF LockInv, Views, ViewOf, Exclusive, ClaimsAreExclusive, InChunk, InEmbed
<1> QED
  BY <1>1, AlwaysLockInv, PTL

-----------------------------------------------------------------------------
\* The invariant of the tables and queues.

PlainRows ==
  /\ \A v \in Videos : status[Job("fetch", v)] # "pending"
  /\ \A v \in Videos, s \in Spans : status[EmbedJob(v, s)] # "skipped"

DataInv ==
  /\ EmbedFresh /\ NoLostWork /\ NoOrphanMessage /\ FannedOut
  /\ ChunkedAsRecorded /\ PlainRows

IInv == LockInv /\ DataInv

\* Empty tables satisfy the data invariant.
LEMMA InitDataInv == Init => DataInv
<1> SUFFICES ASSUME Init  PROVE DataInv
  OBVIOUS
<1>1. \A v \in Videos : Job("fetch", v) \in Jobs /\ Job("chunk", v) \in Jobs
                        /\ \A s \in Spans : EmbedJob(v, s) \in Jobs
  BY JobsOfVideo
<1> QED
  BY <1>1 DEF Init, DataInv, EmbedFresh, NoLostWork, NoOrphanMessage, FannedOut,
              ChunkedAsRecorded, PlainRows

\* A step that writes nothing keeps the data invariant.
LEMMA SameData ==
  ASSUME DataInv, UNCHANGED <<file, database>>
  PROVE  DataInv'
BY DEF DataInv, EmbedFresh, NoLostWork, NoOrphanMessage, FannedOut, ChunkedAsRecorded,
       PlainRows, database

\* The rows fetch_reconcile writes.
LEMMA ReconciledRows ==
  ASSUME NEW st \in [Jobs -> Statuses], NEW v \in Videos, NEW n,
         NEW new, new = ReconciledStatus(st, v, n)
  PROVE  /\ new[Job("fetch", v)] = "completed"
         /\ new[Job("asr", v)] =
              IF <<v, n>> \in CaptionsOk THEN "skipped" ELSE "pending"
         /\ new[Job("frame_sample", v)] = IF v \in Visual THEN "pending" ELSE "skipped"
         /\ new[Job("chunk", v)] = "pending"
         /\ \A j \in Jobs :
              (\A x \in {"fetch", "asr", "frame_sample", "chunk"} : j # Job(x, v)) =>
                new[j] = st[j]
<1>1. \A x, y : x # y => Job(x, v) # Job(y, v)
  BY DEF Job
<1>2. /\ Job("fetch", v) \in Jobs /\ Job("asr", v) \in Jobs
      /\ Job("frame_sample", v) \in Jobs /\ Job("chunk", v) \in Jobs
  BY JobsOfVideo
<1> QED
  BY <1>1, <1>2 DEF ReconciledStatus

\* Committing a reconciliation keeps the data invariant: a row it makes pending is
\* queued with it.
LEMMA PublishData ==
  ASSUME IInv, NEW w \in Workers, Publish(w)
  PROVE  DataInv'
<1> DEFINE v == VideoOf(job[w])
           Fixed == {"fetch", "asr", "frame_sample", "chunk"}
<1>1. v \in Videos
  BY WorkersJob DEF IInv, LockInv, Publish
<1>2. PICK n \in seen[w]..file[v] :
        /\ status' = ReconciledStatus(status, v, n)
        /\ queue' = [q \in Queues |->
                       queue[q] \cup Sent(lastId[q], ReconcileSends(v, n)[q])]
  BY DEF Publish
<1>3. UNCHANGED <<file, text, embed>> /\ talk' = [talk EXCEPT ![v] = seen[w]]
  BY DEF Publish
<1>4. /\ status \in [Jobs -> Statuses] /\ queue \in [Queues -> SUBSET Messages]
      /\ talk \in [Videos -> 0..MaxVersion] /\ lastId \in [Queues -> Nat]
  BY DEF IInv, LockInv, TypeInv, TypeOK, DatabaseTypes
<1> HIDE DEF v
<1>5. /\ status'[Job("fetch", v)] = "completed"
      /\ status'[Job("asr", v)] =
           IF <<v, n>> \in CaptionsOk THEN "skipped" ELSE "pending"
      /\ status'[Job("frame_sample", v)] = IF v \in Visual THEN "pending" ELSE "skipped"
      /\ status'[Job("chunk", v)] = "pending"
      /\ \A j \in Jobs : (\A x \in Fixed : j # Job(x, v)) => status'[j] = status[j]
  <2>1. status' = ReconciledStatus(status, v, n)
    BY <1>2
  <2> QED
    BY ONLY <1>1, <1>4, <2>1, ReconciledRows
<1>6. \A x \in Videos, s \in Spans : status'[EmbedJob(x, s)] = status[EmbedJob(x, s)]
  <2> SUFFICES ASSUME NEW x \in Videos, NEW s \in Spans
               PROVE  status'[EmbedJob(x, s)] = status[EmbedJob(x, s)]
    OBVIOUS
  <2>1. EmbedJob(x, s) \in Jobs
    BY JobsOfVideo
  <2>2. \A y \in Fixed : EmbedJob(x, s) # Job(y, v)
    BY DEF EmbedJob, Job
  <2> QED
    BY <1>5, <2>1, <2>2
<1>7. EmbedFresh' /\ FannedOut'
  <2>1. EmbedFresh'
    BY <1>3, <1>6 DEF IInv, DataInv, EmbedFresh
  <2>2. FannedOut'
    BY <1>3, <1>6 DEF IInv, DataInv, FannedOut
  <2> QED
    BY <2>1, <2>2
<1>8. PlainRows'
  <2>1. ASSUME NEW x \in Videos  PROVE status'[Job("fetch", x)] # "pending"
    <3>1. CASE x = v
      BY <1>5, <3>1
    <3>2. CASE x # v
      <4>1. Job("fetch", x) \in Jobs /\ \A y \in Fixed : Job("fetch", x) # Job(y, v)
        BY <3>2, JobsOfVideo DEF Job
      <4> QED
        BY <1>5, <4>1 DEF IInv, DataInv, PlainRows
    <3> QED
      BY <3>1, <3>2
  <2> QED
    BY <1>6, <2>1 DEF IInv, DataInv, PlainRows
<1>9. ChunkedAsRecorded'
  <2> SUFFICES ASSUME NEW x \in Videos, status'[Job("chunk", x)] = "completed"
               PROVE  \E k \in talk'[x]..file'[x] : \A s \in SpansCut(x, k) : text'[x][s] = k
    BY DEF ChunkedAsRecorded
  <2>1. x # v
    BY <1>5
  <2>2. Job("chunk", x) \in Jobs /\ \A y \in Fixed : Job("chunk", x) # Job(y, v)
    BY <2>1, JobsOfVideo DEF Job
  <2>3. status[Job("chunk", x)] = "completed"
    BY <1>5, <2>2
  <2>4. talk'[x] = talk[x]
    BY <1>3, <1>4, <2>1
  <2> QED
    BY <1>3, <2>3, <2>4 DEF IInv, DataInv, ChunkedAsRecorded
<1>10. NoLostWork'
  <2> SUFFICES ASSUME NEW j \in Jobs, status'[j] = "pending"
               PROVE  \E m \in queue'[StepOf(j)] : m.job = j
    BY DEF NoLostWork
  <2>1. CASE \A x \in Fixed : j # Job(x, v)
    <3>1. status[j] = "pending"
      BY <1>5, <2>1
    <3>2. StepOf(j) \in Queues
      <4>1. CASE j \in EmbedJobs
        BY <4>1 DEF EmbedJobs, StepOf, Queues
      <4>2. CASE j \in WholeJobs
        <5>1. j = Job(StepOf(j), VideoOf(j)) /\ VideoOf(j) \in Videos
              /\ StepOf(j) \in Fixed
          BY <4>2 DEF WholeJobs, StepOf, VideoOf, Job
        <5>2. StepOf(j) # "fetch"
          BY <3>1, <5>1 DEF IInv, DataInv, PlainRows
        <5> QED
          BY <5>1, <5>2 DEF Queues
      <4> QED
        BY <4>1, <4>2 DEF Jobs
    <3>3. PICK m \in queue[StepOf(j)] : m.job = j
      BY <3>1 DEF IInv, DataInv, NoLostWork
    <3>4. m \in queue'[StepOf(j)]
      BY <1>2, <3>2
    <3> QED
      BY <3>3, <3>4
  <2>2. CASE \E x \in Fixed : j = Job(x, v)
    <3>1. PICK x \in Fixed : j = Job(x, v)
      BY <2>2
    <3>2. x \in Queues /\ StepOf(j) = x
      BY <1>5, <3>1, JobKeys DEF Queues
    <3>3. ReconcileSends(v, n)[x] = <<j>>
      BY <1>5, <3>1, <3>2 DEF ReconcileSends
    <3>4. [id |-> lastId[x] + 1, job |-> j] \in Sent(lastId[x], <<j>>)
      BY DEF Sent
    <3>5. [id |-> lastId[x] + 1, job |-> j] \in queue'[StepOf(j)]
      BY <1>2, <3>2, <3>3, <3>4
    <3> QED
      BY <3>5
  <2> QED
    BY <2>1, <2>2
<1>11. \A j \in Jobs : status[j] # "absent" => status'[j] # "absent"
  <2> SUFFICES ASSUME NEW j \in Jobs, status[j] # "absent"  PROVE status'[j] # "absent"
    OBVIOUS
  <2>1. CASE \A x \in Fixed : j # Job(x, v)
    BY <1>5, <2>1
  <2>2. CASE \E x \in Fixed : j = Job(x, v)
    BY <1>5, <2>2
  <2> QED
    BY <2>1, <2>2
<1>12. NoOrphanMessage'
  <2> SUFFICES ASSUME NEW q \in Queues, NEW m \in queue'[q]
               PROVE  /\ status'[m.job] # "absent"
                      /\ q = "embed_text" => text'[VideoOf(m.job)][SpanOf(m.job)] # 0
    BY DEF NoOrphanMessage
  <2>1. CASE m \in queue[q]
    <3>1. m.job \in Jobs
      BY <1>4, <2>1 DEF Messages
    <3>2. /\ status[m.job] # "absent"
          /\ q = "embed_text" => text[VideoOf(m.job)][SpanOf(m.job)] # 0
      BY <2>1 DEF IInv, DataInv, NoOrphanMessage
    <3> QED
      BY <1>3, <1>11, <3>1, <3>2
  <2>2. CASE m \in Sent(lastId[q], ReconcileSends(v, n)[q])
    <3>1. /\ q \in {"chunk", "asr", "frame_sample"} /\ m.job = Job(q, v)
          /\ q = "asr" => <<v, n>> \notin CaptionsOk
      <4>1. ReconcileSends(v, n)[q] # <<>>
        BY <2>2 DEF Sent
      <4>2. ReconcileSends(v, n)[q] = <<Job(q, v)>>
        BY <4>1 DEF ReconcileSends
      <4> QED
        BY <2>2, <4>1, <4>2 DEF Sent, ReconcileSends
    <3> QED
      BY <1>5, <3>1
  <2> QED
    BY <1>2, <2>1, <2>2
<1> QED
  BY <1>7, <1>8, <1>9, <1>10, <1>12 DEF DataInv

\* Archiving the message of a finished row keeps the data invariant.
LEMMA AcknowledgeData ==
  ASSUME IInv, NEW w \in Workers, Acknowledge(w)
  PROVE  DataInv'
<1>1. /\ queue' = [queue EXCEPT ![StepOf(job[w])] = @ \ {msg[w]}]
      /\ UNCHANGED <<file, talk, text, embed, status>>
      /\ pc[w] = "acknowledge"
  BY DEF Acknowledge
<1>2. status[job[w]] \in Done /\ msg[w].job = job[w]
  BY <1>1 DEF IInv, LockInv, Views, ViewOf, TypeInv, Control, ControlOf
<1>3. queue \in [Queues -> SUBSET Messages]
  BY DEF IInv, LockInv, TypeInv, TypeOK, DatabaseTypes
<1>4. NoLostWork'
  <2> SUFFICES ASSUME NEW j \in Jobs, status[j] = "pending"
               PROVE  \E m \in queue'[StepOf(j)] : m.job = j
    BY <1>1 DEF NoLostWork
  <2>1. PICK m \in queue[StepOf(j)] : m.job = j
    BY DEF IInv, DataInv, NoLostWork
  <2>2. m # msg[w]
    BY <1>2, <2>1 DEF Done
  <2>3. m \in queue'[StepOf(j)]
    BY <1>1, <1>3, <2>1, <2>2
  <2> QED
    BY <2>1, <2>3
<1>5. NoOrphanMessage'
  BY <1>1, <1>3 DEF IInv, DataInv, NoOrphanMessage
<1> QED
  BY <1>1, <1>4, <1>5
  DEF IInv, DataInv, EmbedFresh, FannedOut, ChunkedAsRecorded, PlainRows

\* Committing an embedding keeps the data invariant: it is of the text it read.
LEMMA FinishEmbedData ==
  ASSUME IInv, NEW w \in Workers, FinishEmbed(w)
  PROVE  DataInv'
<1> DEFINE v == VideoOf(job[w])
           s == SpanOf(job[w])
<1>1. /\ embed' = [embed EXCEPT ![v][s] = seen[w]]
      /\ status' = [status EXCEPT ![job[w]] = "completed"]
      /\ queue' = [queue EXCEPT !["embed_text"] = @ \ {msg[w]}]
      /\ UNCHANGED <<file, talk, text>>
      /\ pc[w] = "finish_embed"
  BY DEF FinishEmbed
<1>2. StepOf(job[w]) = "embed_text"
  BY <1>1 DEF IInv, LockInv, TypeInv, Control, ControlOf, InEmbed
<1>3. v \in Videos /\ s \in Spans /\ job[w] = EmbedJob(v, s) /\ job[w] \in Jobs
  BY <1>1, <1>2, WorkersJob DEF IInv, LockInv
<1>4. seen[w] = text[v][s] /\ msg[w].job = job[w] /\ status[job[w]] = "pending"
  BY <1>1 DEF IInv, LockInv, Views, ViewOf, TypeInv, Control, ControlOf, InEmbed
<1>5. /\ queue \in [Queues -> SUBSET Messages] /\ status \in [Jobs -> Statuses]
      /\ embed \in [Videos -> [Spans -> 0..MaxVersion]]
  BY DEF IInv, LockInv, TypeInv, TypeOK, DatabaseTypes
<1> HIDE DEF v, s
<1>6. EmbedFresh'
  <2> SUFFICES ASSUME NEW x \in Videos, NEW y \in Spans,
                      status'[EmbedJob(x, y)] = "completed"
               PROVE  embed'[x][y] = text[x][y]
    BY <1>1 DEF EmbedFresh
  <2>1. CASE x = v /\ y = s
    BY <1>1, <1>3, <1>4, <1>5, <2>1
  <2>2. CASE ~(x = v /\ y = s)
    <3>1. EmbedJob(x, y) # job[w] /\ EmbedJob(x, y) \in Jobs
      BY <1>3, <2>2, JobsOfVideo DEF EmbedJob
    <3>2. status[EmbedJob(x, y)] = "completed"
      BY <1>1, <1>5, <3>1
    <3>3. embed'[x][y] = embed[x][y]
      BY <1>1, <1>5, <2>2
    <3> QED
      BY <3>2, <3>3 DEF IInv, DataInv, EmbedFresh
  <2> QED
    BY <2>1, <2>2
<1>7. NoLostWork'
  <2> SUFFICES ASSUME NEW j \in Jobs, status'[j] = "pending"
               PROVE  \E m \in queue'[StepOf(j)] : m.job = j
    BY DEF NoLostWork
  <2>1. j # job[w] /\ status[j] = "pending"
    BY <1>1, <1>5
  <2>2. PICK m \in queue[StepOf(j)] : m.job = j
    BY <2>1 DEF IInv, DataInv, NoLostWork
  <2>3. m \in queue'[StepOf(j)]
    BY <1>1, <1>4, <1>5, <2>1, <2>2
  <2> QED
    BY <2>2, <2>3
<1>8. \A j \in Jobs : status'[j] = "absent" => status[j] = "absent"
  BY <1>1, <1>5
<1>9. NoOrphanMessage'
  <2> SUFFICES ASSUME NEW q \in Queues, NEW m \in queue'[q]
               PROVE  /\ status'[m.job] # "absent"
                      /\ q = "embed_text" => text[VideoOf(m.job)][SpanOf(m.job)] # 0
    BY <1>1 DEF NoOrphanMessage
  <2>1. m \in queue[q] /\ m.job \in Jobs
    BY <1>1, <1>5 DEF Messages
  <2> QED
    BY <1>8, <2>1 DEF IInv, DataInv, NoOrphanMessage
<1>10. FannedOut'
  BY <1>1, <1>8, JobsOfVideo DEF IInv, DataInv, FannedOut
<1>11. ASSUME NEW x \in Videos
       PROVE  /\ status'[Job("chunk", x)] = status[Job("chunk", x)]
              /\ status'[Job("fetch", x)] = status[Job("fetch", x)]
  <2>1. Job("chunk", x) # job[w] /\ Job("fetch", x) # job[w]
    BY <1>2, JobKeys
  <2> QED
    BY <1>1, <1>5, <2>1, JobsOfVideo
<1>12. ChunkedAsRecorded'
  BY <1>1, <1>11 DEF IInv, DataInv, ChunkedAsRecorded
<1>13. PlainRows'
  BY <1>1, <1>5, <1>11, JobsOfVideo DEF IInv, DataInv, PlainRows
<1> QED
  BY <1>6, <1>7, <1>9, <1>10, <1>12, <1>13 DEF DataInv

\* Committing new chunks keeps the data invariant: each is queued for embedding.
LEMMA FinishChunkData ==
  ASSUME IInv, NEW w \in Workers, FinishChunk(w)
  PROVE  DataInv'
<1> DEFINE v == VideoOf(job[w])
           n == seen[w]
           sent == Sent(lastId["embed_text"], ChunkSends(v, n))
<1>1. /\ text' = ChunkedText(text, v, n)
      /\ status' = ChunkedStatus(status, v, n)
      /\ queue' = [queue EXCEPT !["chunk"] = @ \ {msg[w]}, !["embed_text"] = @ \cup sent]
      /\ UNCHANGED <<file, talk, embed>>
      /\ pc[w] = "finish_chunk"
  BY DEF FinishChunk
<1>2. /\ v \in Videos /\ job[w] = Job("chunk", v) /\ job[w] \in Jobs
      /\ n \in 1..file[v] /\ n \in Versions /\ talk[v] <= n
      /\ msg[w].job = job[w]
  <2>1. /\ StepOf(job[w]) = "chunk" /\ n \in 1..file[v] /\ talk[v] <= n
        /\ msg[w].job = job[w]
    BY <1>1 DEF IInv, LockInv, TypeInv, Control, ControlOf, InChunk, Views, ViewOf
  <2>2. /\ v \in Videos /\ job[w] = Job("chunk", v) /\ job[w] \in Jobs
        /\ file[v] \in Versions
    BY <1>1, <2>1, WorkersJob DEF IInv, LockInv
  <2> QED
    BY <2>1, <2>2 DEF Versions
<1>3. /\ queue \in [Queues -> SUBSET Messages] /\ status \in [Jobs -> Statuses]
      /\ text \in [Videos -> [Spans -> 0..MaxVersion]]
      /\ talk \in [Videos -> 0..MaxVersion]
  BY DEF IInv, LockInv, TypeInv, TypeOK, DatabaseTypes
<1>4. /\ SpansCut(v, n) \subseteq Spans
      /\ \A s \in SpansCut(v, n) : \E m \in sent : m.job = EmbedJob(v, s)
      /\ \A m \in sent : \E s \in SpansCut(v, n) : m.job = EmbedJob(v, s)
  <2> HIDE DEF v, n
  <2>1. v \in Videos /\ n \in Versions
    BY <1>2
  <2>2. SpansCut(v, n) \subseteq Spans
    BY <2>1, CutTypes
  <2> QED
    BY <2>1, <2>2, SentOfCut
<1> HIDE DEF v, n, sent
<1>5. /\ status'[Job("chunk", v)] = "completed"
      /\ \A s \in SpansCut(v, n) : status'[EmbedJob(v, s)] = "pending"
      /\ \A j \in Jobs : j # Job("chunk", v) /\ (\A s \in SpansCut(v, n) : j # EmbedJob(v, s))
                           => status'[j] = status[j]
  <2>1. \A s : Job("chunk", v) # EmbedJob(v, s)
    BY JobKeys
  <2> QED
    BY <1>1, <1>2, <1>4, <2>1, JobsOfVideo DEF ChunkedStatus
<1>6. /\ \A s \in SpansCut(v, n) : text'[v][s] = n
      /\ \A x \in Videos, s \in Spans :
           ~(x = v /\ s \in SpansCut(v, n)) => text'[x][s] = text[x][s]
  BY <1>1, <1>2, <1>3, <1>4 DEF ChunkedText
<1>7. \A x \in Videos, s \in Spans :
        ~(x = v /\ s \in SpansCut(v, n)) => status'[EmbedJob(x, s)] = status[EmbedJob(x, s)]
  <2>1. \A x, s : EmbedJob(x, s) # Job("chunk", v)
    BY JobKeys
  <2>2. \A x, s, y : EmbedJob(x, s) = EmbedJob(v, y) => x = v /\ s = y
    BY DEF EmbedJob
  <2> QED
    BY <1>5, <2>1, <2>2, JobsOfVideo
<1>8. \A j \in Jobs : status'[j] = "absent" => status[j] = "absent"
  BY <1>5
<1>9. EmbedFresh'
  <2> SUFFICES ASSUME NEW x \in Videos, NEW s \in Spans,
                      status'[EmbedJob(x, s)] = "completed"
               PROVE  embed[x][s] = text'[x][s]
    BY <1>1 DEF EmbedFresh
  <2>1. ~(x = v /\ s \in SpansCut(v, n))
    BY <1>5
  <2> QED
    BY <1>6, <1>7, <2>1 DEF IInv, DataInv, EmbedFresh
<1>10. NoLostWork'
  <2> SUFFICES ASSUME NEW j \in Jobs, status'[j] = "pending"
               PROVE  \E m \in queue'[StepOf(j)] : m.job = j
    BY DEF NoLostWork
  <2>1. CASE \E s \in SpansCut(v, n) : j = EmbedJob(v, s)
    <3>1. PICK s \in SpansCut(v, n) : j = EmbedJob(v, s)
      BY <2>1
    <3>2. StepOf(j) = "embed_text"
      BY <3>1, JobKeys
    <3>3. sent \subseteq queue'["embed_text"]
      BY <1>1, <1>3 DEF Queues
    <3> QED
      BY <1>4, <3>1, <3>2, <3>3
  <2>2. CASE \A s \in SpansCut(v, n) : j # EmbedJob(v, s)
    <3>1. j # job[w] /\ status[j] = "pending"
      BY <1>2, <1>5, <2>2
    <3>2. PICK m \in queue[StepOf(j)] : m.job = j
      BY <3>1 DEF IInv, DataInv, NoLostWork
    <3>3. m # msg[w]
      BY <1>2, <3>1, <3>2
    <3>4. StepOf(j) \in Queues
      <4>1. j # Job("fetch", VideoOf(j))
        BY <3>1, PartsOfJob DEF IInv, DataInv, PlainRows
      <4> QED
        BY <4>1, QueueOfJob
    <3>5. m \in queue'[StepOf(j)]
      <4> DEFINE r == StepOf(j)
      <4>1. r \in Queues /\ m \in queue[r] /\ m # msg[w]
        BY <3>2, <3>3, <3>4
      <4> HIDE DEF r
      <4>2. m \in queue'[r]
        BY <1>1, <1>3, <4>1
      <4> QED
        BY <4>2 DEF r
    <3> QED
      BY <3>2, <3>5
  <2> QED
    BY <2>1, <2>2
<1>11. NoOrphanMessage'
  <2> SUFFICES ASSUME NEW q \in Queues, NEW m \in queue'[q]
               PROVE  /\ status'[m.job] # "absent"
                      /\ q = "embed_text" => text'[VideoOf(m.job)][SpanOf(m.job)] # 0
    BY DEF NoOrphanMessage
  <2>1. m \in queue[q] \/ (q = "embed_text" /\ m \in sent)
    BY <1>1, <1>3
  <2>2. CASE m \in queue[q]
    <3>1. m.job \in Jobs /\ StepOf(m.job) = q
      BY <1>3, <2>2 DEF Messages, IInv, LockInv, TypeInv, QueueSteps
    <3>2. /\ status[m.job] # "absent"
          /\ q = "embed_text" => text[VideoOf(m.job)][SpanOf(m.job)] # 0
      BY <2>2 DEF IInv, DataInv, NoOrphanMessage
    <3>3. q = "embed_text" => VideoOf(m.job) \in Videos /\ SpanOf(m.job) \in Spans
      BY <3>1, PartsOfJob
    <3>4. n # 0
      BY <1>2
    <3>5. q = "embed_text" => text'[VideoOf(m.job)][SpanOf(m.job)] # 0
      BY <1>6, <3>2, <3>3, <3>4
    <3> QED
      BY <1>8, <3>1, <3>2, <3>5
  <2>3. CASE m \in sent
    <3>1. PICK s \in SpansCut(v, n) : m.job = EmbedJob(v, s)
      BY <1>4, <2>3
    <3>2. VideoOf(m.job) = v /\ SpanOf(m.job) = s
      BY <3>1, JobKeys
    <3> QED
      BY <1>2, <1>5, <1>6, <3>1, <3>2
  <2> QED
    BY <2>1, <2>2, <2>3
<1>12. FannedOut'
  <2> SUFFICES ASSUME NEW x \in Videos, NEW s \in Spans, text'[x][s] # 0
               PROVE  status'[EmbedJob(x, s)] # "absent"
    BY DEF FannedOut
  <2> QED
    BY <1>5, <1>6, <1>7 DEF IInv, DataInv, FannedOut
<1>13. ASSUME NEW x \in Videos
       PROVE  /\ x # v => status'[Job("chunk", x)] = status[Job("chunk", x)]
              /\ status'[Job("fetch", x)] = status[Job("fetch", x)]
  <2>1. \A s : Job("chunk", x) # EmbedJob(v, s) /\ Job("fetch", x) # EmbedJob(v, s)
    BY JobKeys
  <2>2. Job("fetch", x) # Job("chunk", v) /\ (x # v => Job("chunk", x) # Job("chunk", v))
    BY JobKeys
  <2> QED
    BY <1>5, <2>1, <2>2, JobsOfVideo
<1>14. ChunkedAsRecorded'
  <2> SUFFICES ASSUME NEW x \in Videos, status'[Job("chunk", x)] = "completed"
               PROVE  \E k \in talk[x]..file[x] : \A s \in SpansCut(x, k) : text'[x][s] = k
    BY <1>1 DEF ChunkedAsRecorded
  <2>1. CASE x = v
    <3>1. file[v] \in Nat /\ talk[v] \in Nat
      BY <1>2, <1>3 DEF IInv, LockInv, TypeInv, TypeOK, Versions
    <3>2. n \in talk[v]..file[v]
      BY <1>2, <3>1
    <3> QED
      BY <1>6, <2>1, <3>2
  <2>2. CASE x # v
    <3>1. PICK k \in talk[x]..file[x] : \A s \in SpansCut(x, k) : text[x][s] = k
      BY <1>13, <2>2 DEF IInv, DataInv, ChunkedAsRecorded
    <3>2. text'[x] = text[x]
      BY <1>1, <1>3, <2>2 DEF ChunkedText
    <3> QED
      BY <3>1, <3>2
  <2> QED
    BY <2>1, <2>2
<1>15. PlainRows'
  <2>1. \A x \in Videos, s \in Spans : status'[EmbedJob(x, s)] # "skipped"
    BY <1>5, <1>7 DEF IInv, DataInv, PlainRows
  <2> QED
    BY <1>13, <2>1 DEF IInv, DataInv, PlainRows
<1> QED
  BY <1>9, <1>10, <1>11, <1>12, <1>14, <1>15 DEF DataInv

\* A transcript that is edited keeps the data invariant.
LEMMA EditData ==
  ASSUME IInv, NEW v \in Videos, Edit(v)
  PROVE  DataInv'
<1>1. UNCHANGED <<talk, text, embed, status, queue>>
  BY DEF Edit, database
<1>2. \A x \in Videos : file[x] \in Nat /\ file'[x] \in Nat /\ file[x] <= file'[x]
                        /\ talk[x] \in Nat
  BY SMTT(40) DEF Edit, IInv, LockInv, TypeInv, TypeOK, DatabaseTypes, Versions
<1>3. ChunkedAsRecorded'
  <2> SUFFICES ASSUME NEW x \in Videos, status[Job("chunk", x)] = "completed"
               PROVE  \E k \in talk[x]..file'[x] : \A s \in SpansCut(x, k) : text[x][s] = k
    BY <1>1 DEF ChunkedAsRecorded
  <2>1. PICK k \in talk[x]..file[x] : \A s \in SpansCut(x, k) : text[x][s] = k
    BY DEF IInv, DataInv, ChunkedAsRecorded
  <2>2. k \in talk[x]..file'[x]
    BY <1>2, <2>1
  <2> QED
    BY <2>1, <2>2
<1> QED
  BY <1>1, <1>3 DEF IInv, DataInv, EmbedFresh, NoLostWork, NoOrphanMessage, FannedOut,
                    PlainRows

\* Every step keeps the inductive invariant.
LEMMA NextIInv == IInv /\ [Next]_vars => IInv'
<1> SUFFICES ASSUME IInv, [Next]_vars  PROVE IInv'
  OBVIOUS
<1>1. LockInv'
  BY NextLockInv DEF IInv
<1>2. CASE UNCHANGED <<file, database>>
  BY <1>1, <1>2, SameData DEF IInv
<1>3. ASSUME NEW w \in Workers, Work(w)  PROVE DataInv'
  <2>1. CASE Publish(w) \/ Acknowledge(w) \/ FinishChunk(w) \/ FinishEmbed(w)
    BY <2>1, PublishData, AcknowledgeData, FinishChunkData, FinishEmbedData
  <2>2. CASE \/ UpsertTalk(w) \/ UpsertChunkRow(w) \/ Claim(w)
             \/ \E q \in {"chunk", "embed_text"} : Read(w, q)
             \/ ReadTranscript(w) \/ UpsertEmbedRow(w) \/ ReadText(w)
    <3>1. UNCHANGED <<file, database>>
      BY <2>2 DEF UpsertTalk, UpsertChunkRow, Claim, Read, ReadTranscript, UpsertEmbedRow,
                  ReadText
    <3> QED
      BY <3>1, SameData DEF IInv
  <2> QED
    BY <1>3, <2>1, <2>2 DEF Work
<1>4. ASSUME NEW v \in Videos, Edit(v)  PROVE DataInv'
  BY <1>4, EditData
<1>5. CASE \/ \E w \in Workers, v \in Videos : Fetch(w, v)
           \/ \E w \in Workers : Abort(w)
           \/ Drained
           \/ UNCHANGED vars
  BY <1>2, <1>5 DEF Fetch, Abort, Drained, vars
<1> QED
  BY <1>1, <1>3, <1>4, <1>5 DEF Next, IInv

\* The inductive invariant holds throughout.
LEMMA AlwaysIInv == Spec => []IInv
<1>1. Init => IInv
  BY InitLockInv, InitDataInv DEF IInv
<1> QED
  BY <1>1, NextIInv, PTL DEF Spec

\* A completed embedding is one of the text its chunk has now.
THEOREM EmbeddingsFresh == Spec => []EmbedFresh
BY AlwaysIInv, PTL DEF IInv, DataInv

\* No pending row is ever without a message that will get it served.
THEOREM WorkNeverLost == Spec => []NoLostWork
BY AlwaysIInv, PTL DEF IInv, DataInv

\* No message names a missing status row or a missing chunk.
THEOREM NoPoison == Spec => []NoOrphanMessage
BY AlwaysIInv, PTL DEF IInv, DataInv

\* Every stored chunk has its embed_text row.
THEOREM FanOutComplete == Spec => []FannedOut
BY AlwaysIInv, PTL DEF IInv, DataInv

\* The stored chunks of a chunked video are never older than its talks row.
THEOREM ChunksRecent == Spec => []ChunkedAsRecorded
BY AlwaysIInv, PTL DEF IInv, DataInv

\* A video all of whose rows are done, and whose file is the recorded one,
\* is searchable with exactly the text of that file, and readiness reports it
\* as complete if that file has a chunk.
THEOREM DoneIsReady == Spec => []DoneMeansReady
<1>1. IInv => DoneMeansReady
  <2> SUFFICES ASSUME IInv, NEW v \in Videos, talk[v] = file[v],
                      status[Job("chunk", v)] = "completed",
                      \A s \in Spans : status[EmbedJob(v, s)] # "pending"
               PROVE  /\ \A s \in SpansCut(v, file[v]) :
                           text[v][s] = file[v] /\ embed[v][s] = file[v]
                      /\ Cut[v][file[v]] # <<>> => Complete(v)
    BY DEF DoneMeansReady
  <2>1. /\ file[v] \in Versions /\ file[v] # 0
        /\ Cut[v][file[v]] \in Seq(Spans) /\ SpansCut(v, file[v]) \subseteq Spans
    BY CutTypes DEF IInv, LockInv, TypeInv, TypeOK, Versions
  <2>2. \A s \in SpansCut(v, file[v]) : text[v][s] = file[v]
    <3>1. PICK n \in talk[v]..file[v] : \A x \in SpansCut(v, n) : text[v][x] = n
      BY DEF IInv, DataInv, ChunkedAsRecorded
    <3>2. n = file[v]
      BY <2>1, <3>1 DEF Versions
    <3> QED
      BY <3>1, <3>2
  <2>3. ASSUME NEW s \in Spans, text[v][s] # 0
        PROVE  embed[v][s] = text[v][s]
    <3>1. status[EmbedJob(v, s)] \in Statuses
      BY JobsOfVideo DEF IInv, LockInv, TypeInv, TypeOK, DatabaseTypes
    <3>2. status[EmbedJob(v, s)] # "absent" /\ status[EmbedJob(v, s)] # "skipped"
      BY <2>3 DEF IInv, DataInv, FannedOut, PlainRows
    <3>3. status[EmbedJob(v, s)] = "completed"
      BY <3>1, <3>2 DEF Statuses
    <3> QED
      BY <3>3 DEF IInv, DataInv, EmbedFresh
  <2>4. Cut[v][file[v]] # <<>> => Stored(v) # {}
    <3> SUFFICES ASSUME Cut[v][file[v]] # <<>>
                 PROVE  Stored(v) # {}
      OBVIOUS
    <3>1. Cut[v][file[v]][1] \in SpansCut(v, file[v])
      BY <2>1 DEF SpansCut
    <3>2. Cut[v][file[v]][1] \in Stored(v)
      BY <2>1, <2>2, <3>1 DEF Stored
    <3> QED
      BY <3>2
  <2> QED
    BY <2>1, <2>2, <2>3, <2>4 DEF Complete, Stored
<1> QED
  BY <1>1, AlwaysIInv, PTL

-----------------------------------------------------------------------------
\* Waiting for rows.

Waiting == {"talk", "chunk_row", "claim", "embed_rows"}

\* What a waiting worker holds: its video's chunk row and embed_text rows
\* during the fan-out, its talks row during a reconciliation, else nothing.
LEMMA WaitingHolds ==
  ASSUME LockInv, NEW u \in Workers, pc[u] \in Waiting
  PROVE  /\ pc[u] \in {"talk", "claim"} => held[u] = {}
         /\ pc[u] = "chunk_row" => held[u] = {TalkRow(VideoOf(job[u]))}
         /\ pc[u] = "embed_rows" =>
              /\ job[u] \in held[u] /\ job[u] = Job("chunk", VideoOf(job[u]))
              /\ \A x, s : EmbedJob(x, s) \in held[u] => x = VideoOf(job[u])
<1>1. held[u] = HeldAt(pc[u], job[u], seen[u], next[u])
  BY DEF LockInv, Locks, LocksOf
<1>2. CASE pc[u] \in {"talk", "claim"}
  BY <1>1, <1>2 DEF HeldAt
<1>3. CASE pc[u] = "chunk_row"
  BY <1>1, <1>3 DEF HeldAt
<1>4. CASE pc[u] = "embed_rows"
  <2>1. job[u] = Job("chunk", VideoOf(job[u]))
    BY <1>4, WorkersJob DEF LockInv, TypeInv, Control, ControlOf, InChunk
  <2>2. held[u] = {job[u]} \cup {EmbedJob(VideoOf(job[u]),
                                  Cut[VideoOf(job[u])][seen[u]][i]) : i \in 1..(next[u] - 1)}
    BY <1>1, <1>4 DEF HeldAt
  <2>3. \A x, y, s : EmbedJob(x, s) # Job("chunk", y)
    BY DEF EmbedJob, Job
  <2>4. \A x, y, s, r : EmbedJob(x, s) = EmbedJob(y, r) => x = y
    BY DEF EmbedJob
  <2> QED
    BY <1>4, <2>1, <2>2, <2>3, <2>4
<1> QED
  BY <1>2, <1>3, <1>4 DEF Waiting

\* No set of transactions waits in a circle: rows are locked in the order
\* talks, chunk, embed_text, and two fan-outs of one video exclude each other
\* by the chunk row, so PostgreSQL never has a deadlock to break.
THEOREM NoDeadlock == Spec => []NoWaitCycle
<1>1. ASSUME LockInv, NEW W \in (SUBSET Workers) \ {{}}
      PROVE  \E w \in W : \A u \in W \ {w} : Wanted(w) \cap held[u] = {}
  <2>1. CASE \E w \in W : pc[w] \notin Waiting
    <3>1. PICK w \in W : pc[w] \notin Waiting
      BY <2>1
    <3>2. Wanted(w) = {}
      BY <3>1 DEF Wanted, Waiting
    <3> QED
      BY <3>2
  <2>2. CASE /\ \A u \in W : pc[u] \in Waiting
             /\ \E w \in W : pc[w] = "embed_rows"
    <3>1. PICK w \in W : pc[w] = "embed_rows"
      BY <2>2
    <3>2. PICK s : Wanted(w) = {EmbedJob(VideoOf(job[w]), s)}
      BY <3>1 DEF Wanted
    <3>3. ASSUME NEW u \in W \ {w}, EmbedJob(VideoOf(job[w]), s) \in held[u]
          PROVE  FALSE
      <4>1. CASE pc[u] = "embed_rows"
        <5>1. VideoOf(job[w]) = VideoOf(job[u]) /\ job[u] \in held[u] /\ job[w] \in held[w]
              /\ job[u] = job[w]
          BY <1>1, <3>1, <3>3, <4>1, WaitingHolds DEF Waiting
        <5> QED
          BY <1>1, <5>1 DEF LockInv, Exclusive
      <4>2. CASE pc[u] = "chunk_row"
        <5>1. \A x, y, r : EmbedJob(x, r) # TalkRow(y)
          BY DEF EmbedJob, TalkRow, Job
        <5> QED
          BY <1>1, <3>3, <4>2, <5>1, WaitingHolds DEF Waiting
      <4>3. CASE pc[u] \in {"talk", "claim"}
        BY <1>1, <3>3, <4>3, WaitingHolds DEF Waiting
      <4> QED
        BY <2>2, <4>1, <4>2, <4>3 DEF Waiting
    <3> QED
      BY <3>2, <3>3
  <2>3. CASE /\ \A u \in W : pc[u] \in Waiting \ {"embed_rows"}
             /\ \E w \in W : pc[w] \in {"chunk_row", "claim"}
    <3>1. PICK w \in W : pc[w] \in {"chunk_row", "claim"}
      BY <2>3
    <3>2. Wanted(w) = {job[w]} /\ StepOf(job[w]) # "talks"
      BY <1>1, <3>1, WorkersJob DEF Wanted, LockInv
    <3>3. ASSUME NEW u \in W  PROVE held[u] = {} \/ held[u] = {TalkRow(VideoOf(job[u]))}
      BY <1>1, <2>3, WaitingHolds DEF Waiting
    <3>4. \A x : StepOf(TalkRow(x)) = "talks"
      BY JobKeys DEF TalkRow
    <3>5. \A u \in W : job[w] \notin held[u]
      BY <3>2, <3>3, <3>4
    <3> QED
      BY <3>2, <3>5
  <2>4. CASE \A u \in W : pc[u] = "talk"
    <3>1. \A u \in W : held[u] = {}
      BY <1>1, <2>4, WaitingHolds DEF Waiting
    <3> QED
      BY <3>1
  <2> QED
    BY <2>1, <2>2, <2>3, <2>4 DEF Waiting
<1>2. LockInv => NoWaitCycle
  BY <1>1 DEF NoWaitCycle
<1> QED
  BY <1>2, AlwaysLockInv, PTL

-----------------------------------------------------------------------------
\* How often a job runs.

\* What FinishChunk and FinishEmbed write of the row they finish.
LEMMA FinishCounts ==
  ASSUME LockInv, NEW w \in Workers, FinishChunk(w) \/ FinishEmbed(w),
         NEW j \in Jobs, attempts'[j] # attempts[j]
  PROVE  /\ attempts'[j] = attempts[j] + 1
         /\ status[j] = "pending" /\ status'[j] = "completed"
<1> USE DEF LockInv, TypeInv, TypeOK, DatabaseTypes
<1>1. job[w] \in Jobs /\ status[job[w]] = "pending"
  BY WorkersJob DEF Views, ViewOf, InChunk, InEmbed, FinishChunk, FinishEmbed
<1>2. attempts' = [attempts EXCEPT ![job[w]] = @ + 1]
  BY DEF FinishChunk, FinishEmbed
<1>3. j = job[w] /\ attempts'[j] = attempts[j] + 1
  BY <1>1, <1>2
<1>4. status'[job[w]] = "completed"
  <2>1. CASE FinishEmbed(w)
    BY <1>1, <2>1 DEF FinishEmbed
  <2>2. CASE FinishChunk(w)
    <3>1. job[w] = Job("chunk", VideoOf(job[w]))
      BY <2>2, WorkersJob DEF Control, ControlOf, InChunk, FinishChunk
    <3> QED
      BY <1>1, <2>2, <3>1 DEF FinishChunk, ChunkedStatus
  <2> QED
    BY <2>1, <2>2
<1> QED
  BY <1>1, <1>3, <1>4

\* The attempts counter of a row grows only where the row goes from pending
\* to completed, by one: however many messages name a job, it runs once.
THEOREM RunsOncePerRequest == Spec => RunOncePerRequest
<1>1. ASSUME LockInv, [Next]_vars, NEW j \in Jobs, attempts'[j] # attempts[j]
      PROVE  /\ attempts'[j] = attempts[j] + 1
             /\ status[j] = "pending" /\ status'[j] = "completed"
  <2>1. \E w \in Workers : FinishChunk(w) \/ FinishEmbed(w)
    BY <1>1 DEF Next, Work, Fetch, UpsertTalk, UpsertChunkRow, Publish, Read, Claim,
                Acknowledge, ReadTranscript, UpsertEmbedRow, ReadText, Edit, Abort,
                Drained, vars, database
  <2> QED
    BY <1>1, <2>1, FinishCounts
<1>2. LockInv /\ [Next]_vars =>
        [\A j \in Jobs :
           attempts'[j] # attempts[j] =>
             /\ attempts'[j] = attempts[j] + 1
             /\ status[j] = "pending" /\ status'[j] = "completed"]_vars
  BY <1>1
<1> QED
  BY <1>2, AlwaysLockInv, PTL DEF Spec, RunOncePerRequest

-----------------------------------------------------------------------------
\* The lane implements its atomic jobs.

\* The two specifications speak of the same rows, messages and writes.
LEMMA SameWords ==
  /\ Atomic!Queues = Queues /\ Atomic!Jobs = Jobs /\ Atomic!Done = Done
  /\ \A j : Atomic!VideoOf(j) = VideoOf(j) /\ Atomic!SpanOf(j) = SpanOf(j)
  /\ \A last, batch : Atomic!Sent(last, batch) = Sent(last, batch)
  /\ \A v, n : Atomic!ReconcileSends(v, n) = ReconcileSends(v, n)
  /\ \A v, n : Atomic!ChunkSends(v, n) = ChunkSends(v, n)
  /\ \A st, v, n : Atomic!ReconciledStatus(st, v, n) = ReconciledStatus(st, v, n)
  /\ \A st, v, n : Atomic!ChunkedStatus(st, v, n) = ChunkedStatus(st, v, n)
  /\ \A tx, v, n : Atomic!ChunkedText(tx, v, n) = ChunkedText(tx, v, n)
BY DEF Atomic!Queues, Queues, Atomic!Jobs, Jobs, Atomic!Done, Done, Atomic!VideoOf, VideoOf,
  Atomic!SpanOf, SpanOf, Atomic!Sent, Sent, Atomic!ReconcileSends, ReconcileSends,
  Atomic!ChunkSends, ChunkSends, Atomic!ReconciledStatus, ReconciledStatus, Atomic!ChunkedStatus,
  ChunkedStatus, Atomic!ChunkedText, ChunkedText, Atomic!Job, Job, Atomic!EmbedJob, EmbedJob,
  Atomic!WholeJobs, WholeJobs, Atomic!EmbedJobs, EmbedJobs, Atomic!SpansCut, SpansCut

\* A committed reconciliation is a step of the abstract lane.
LEMMA PublishImplements ==
  ASSUME LockInv, NEW w \in Workers, Publish(w)
  PROVE  \E v \in Videos : \E hashed, probed \in 1..file[v] : Atomic!Reconcile(v, hashed, probed)
<1> DEFINE v == VideoOf(job[w])
<1>1. v \in Videos /\ seen[w] \in 1..file[v] /\ file[v] \in Versions
  BY WorkersJob DEF LockInv, TypeInv, Control, ControlOf, InReconcile, Publish
<1>2. PICK probed \in seen[w]..file[v] :
        /\ status' = ReconciledStatus(status, v, probed)
        /\ queue' = [q \in Queues |->
                       queue[q] \cup Sent(lastId[q], ReconcileSends(v, probed)[q])]
        /\ lastId' = [q \in Queues |-> lastId[q] + Len(ReconcileSends(v, probed)[q])]
  BY DEF Publish
<1>3. talk' = [talk EXCEPT ![v] = seen[w]] /\ UNCHANGED <<file, text, embed, attempts>>
  BY DEF Publish
<1>4. probed \in 1..file[v]
  BY <1>1, <1>2 DEF Versions
<1>5. Atomic!Reconcile(v, seen[w], probed)
  BY <1>2, <1>3, SameWords DEF Atomic!Reconcile
<1> HIDE DEF v
<1> QED
  BY <1>1, <1>4, <1>5

\* Committed chunks are a step of the abstract lane.
LEMMA FinishChunkImplements ==
  ASSUME LockInv, NEW w \in Workers, FinishChunk(w)
  PROVE  \E m \in queue["chunk"] :
           \E n \in talk[VideoOf(m.job)]..file[VideoOf(m.job)] : Atomic!Chunk(m, n)
<1> DEFINE v == VideoOf(job[w])
<1>1. /\ msg[w] \in queue["chunk"] /\ msg[w].job = job[w] /\ status[job[w]] = "pending"
      /\ talk[v] <= seen[w] /\ seen[w] \in 1..file[v]
  BY DEF LockInv, TypeInv, Control, ControlOf, Views, ViewOf, InChunk, FinishChunk
<1>2. v \in Videos /\ file[v] \in Versions /\ talk[v] \in 0..MaxVersion
  BY WorkersJob DEF LockInv, TypeInv, TypeOK, DatabaseTypes, FinishChunk
<1>3. seen[w] \in talk[v]..file[v]
  BY <1>1, <1>2 DEF Versions
<1>4. Atomic!Chunk(msg[w], seen[w])
  BY <1>1, SameWords DEF Atomic!Chunk, FinishChunk
<1> QED
  BY <1>1, <1>3, <1>4

\* A committed embedding is a step of the abstract lane.
LEMMA FinishEmbedImplements ==
  ASSUME LockInv, NEW w \in Workers, FinishEmbed(w)
  PROVE  \E m \in queue["embed_text"] : Atomic!EmbedText(m)
<1>1. /\ msg[w] \in queue["embed_text"] /\ msg[w].job = job[w]
      /\ status[job[w]] = "pending" /\ seen[w] # 0
      /\ seen[w] = text[VideoOf(job[w])][SpanOf(job[w])]
  BY DEF LockInv, TypeInv, Control, ControlOf, Views, ViewOf, InEmbed, FinishEmbed
<1>2. Atomic!EmbedText(msg[w])
  BY <1>1, SameWords DEF Atomic!EmbedText, FinishEmbed
<1> QED
  BY <1>1, <1>2

\* Archiving a finished row's message is a step of the abstract lane.
LEMMA AcknowledgeImplements ==
  ASSUME LockInv, NEW w \in Workers, Acknowledge(w)
  PROVE  \E q \in {"chunk", "embed_text"} : \E m \in queue[q] : Atomic!Drop(q, m)
<1>1. /\ msg[w] \in queue[StepOf(job[w])] /\ msg[w].job = job[w]
      /\ status[job[w]] \in Done /\ StepOf(job[w]) \in {"chunk", "embed_text"}
  BY WorkersJob DEF LockInv, TypeInv, Control, ControlOf, Views, ViewOf, Acknowledge
<1>2. Atomic!Drop(StepOf(job[w]), msg[w])
  BY <1>1, SameWords DEF Atomic!Drop, Acknowledge
<1> QED
  BY <1>1, <1>2

\* Statement by statement, the lane does what its atomic jobs promise: a
\* transaction takes effect in its last statement, every other is a stutter.
THEOREM LaneImplementsJobs == Spec => ImplementsJobs
<1>1. Init => Atomic!Init
  BY SameWords DEF Init, Atomic!Init
<1>2. ASSUME LockInv, [Next]_vars
      PROVE  [Atomic!Next]_(Atomic!vars)
  <2>1. ASSUME NEW w \in Workers, Work(w)
        PROVE  Atomic!Next \/ UNCHANGED Atomic!vars
    <3>1. CASE Publish(w)
      BY <1>2, <3>1, PublishImplements DEF Atomic!Next
    <3>2. CASE FinishChunk(w)
      BY <1>2, <3>2, FinishChunkImplements, SameWords DEF Atomic!Next
    <3>3. CASE FinishEmbed(w)
      BY <1>2, <3>3, FinishEmbedImplements DEF Atomic!Next
    <3>4. CASE Acknowledge(w)
      BY <1>2, <3>4, AcknowledgeImplements DEF Atomic!Next
    <3>5. CASE \/ UpsertTalk(w) \/ UpsertChunkRow(w) \/ Claim(w)
               \/ \E q \in {"chunk", "embed_text"} : Read(w, q)
               \/ ReadTranscript(w) \/ UpsertEmbedRow(w) \/ ReadText(w)
      BY <3>5 DEF UpsertTalk, UpsertChunkRow, Claim, Read, ReadTranscript, UpsertEmbedRow,
                  ReadText, database, Atomic!vars
    <3> QED
      BY <2>1, <3>1, <3>2, <3>3, <3>4, <3>5 DEF Work
  <2>2. ASSUME NEW v \in Videos, Edit(v)
        PROVE  Atomic!Next
    BY <2>2 DEF Edit, database, Atomic!Next, Atomic!Edit
  <2>3. CASE \/ \E w \in Workers, v \in Videos : Fetch(w, v)
             \/ \E w \in Workers : Abort(w)
             \/ Drained \/ UNCHANGED vars
    BY <2>3 DEF Fetch, Abort, Drained, vars, database, Atomic!vars
  <2> QED
    BY <1>2, <2>1, <2>2, <2>3 DEF Next
<1> QED
  BY <1>1, <1>2, AlwaysLockInv, PTL DEF Spec, ImplementsJobs, Atomic!Spec
=============================================================================
