------------------------- MODULE FramesWorkersProofs -------------------------
(***************************************************************************)
(* Theorems about FramesWorkers, for every set of videos, positions and    *)
(* workers and every sampling, proved with TLAPS.                          *)
(***************************************************************************)
EXTENDS FramesWorkers, FiniteSetTheorems, TLAPS

USE MaxFramesAssumption, MaxVersionAssumption, SampledAssumption, BoundsAssumption

-----------------------------------------------------------------------------
\* The inductive invariant, by parts.

Labels ==
  {"idle", "claim", "acknowledge", "video", "render", "frame_rows", "embed_rows",
   "finish_frames", "image", "pooled", "finish_embed"}
InLoop == {"render", "frame_rows", "embed_rows"}
Sampling == InLoop \cup {"finish_frames"}
InSample == Sampling \cup {"video"}
InEmbed == {"image", "pooled", "finish_embed"}

Statuses == {"absent", "pending", "completed"}
Rows == Jobs \cup {FrameRow(v, s) : v \in Videos, s \in Secs}
Images == [Videos -> [Secs -> 0..MaxVersion]]

TablesOK ==
  /\ movie \in [Videos -> 0..MaxVersion] /\ png \in Images
  /\ sha \in Images /\ pooled \in Images
  /\ status \in [Jobs -> Statuses]
  /\ queue \in [Queues -> SUBSET Messages]
  /\ lastId \in [Queues -> Nat]

WorkersOK ==
  /\ pc \in [Workers -> Labels]
  /\ msg \in [Workers -> Messages \cup {NoMessage}]
  /\ job \in [Workers -> Jobs \cup {NoJob}]
  /\ seen \in [Workers -> 0..MaxVersion]
  /\ next \in [Workers -> Nat]
  /\ held \in [Workers -> SUBSET Rows]

TypeOK ==
  TablesOK /\ WorkersOK /\ requests \in 0..MaxRequests /\ aborts \in 0..MaxAborts

\* A message is in the queue of its job's step, and its status row exists.
QueuesOK ==
  \A q \in Queues : \A m \in queue[q] : StepOf(m.job) = q /\ status[m.job] # "absent"

\* What a worker's variables hold at each statement.
ControlOf(w) ==
  /\ pc[w] # "idle" =>
       /\ msg[w] \in Messages /\ msg[w].job = job[w]
       /\ job[w] \in Jobs /\ status[job[w]] # "absent"
  /\ pc[w] \in InSample => StepOf(job[w]) = "frame_sample"
  /\ pc[w] \in InEmbed => StepOf(job[w]) = "embed_frames"
  /\ pc[w] \in Sampling => seen[w] \in Versions
  /\ pc[w] \in InLoop => next[w] \in Positions(VideoOf(job[w]), seen[w])

\* The locks the argument needs: the claimed row, and the embed_frames rows
\* of the fan-out.
LocksOf(w) ==
  /\ pc[w] \in {"acknowledge"} \cup InSample \cup InEmbed => job[w] \in held[w]
  /\ pc[w] = "embed_rows" =>
       \A i \in 1..(next[w] - 1) : EmbedJob(VideoOf(job[w]), i) \in held[w]
  /\ pc[w] = "finish_frames" =>
       \A s \in Positions(VideoOf(job[w]), seen[w]) :
         EmbedJob(VideoOf(job[w]), s) \in held[w]

Exclusive == \A w \in Workers : \A u \in Workers \ {w} : held[u] \cap held[w] = {}

\* The positions whose file a sampling worker has written.
Drawn(w) ==
  IF pc[w] = "render" THEN 1..(next[w] - 1)
  ELSE Positions(VideoOf(job[w]), seen[w])

\* What stays true of the database and the disk while w is at each statement.
ViewOf(w) ==
  LET v == VideoOf(job[w])
      s == SecOf(job[w])
  IN
  /\ pc[w] = "acknowledge" => status[job[w]] = "completed"
  /\ pc[w] \in InSample \cup InEmbed => status[job[w]] = "pending"
  /\ pc[w] \in Sampling =>
       \A x \in Secs : png[v][x] = IF x \in Drawn(w) THEN seen[w] ELSE 0
  /\ pc[w] \in {"pooled", "finish_embed"} =>
       /\ seen[w] # 0 /\ s \in Positions(v, seen[w])
       /\ status[SampleJob(v)] = "completed" /\ png[v][s] # 0 => seen[w] = png[v][s]

\* Every file and every vector is of a version that has a frame there; only an
\* encoding that is finite is stored.
OwnPosition ==
  \A v \in Videos, s \in Secs :
    /\ png[v][s] # 0 => s \in Positions(v, png[v][s])
    /\ pooled[v][s] # 0 =>
         s \in Positions(v, pooled[v][s]) /\ <<v, s, pooled[v][s]>> \notin Unstable

Lanes == \A w \in Workers : ControlOf(w) /\ LocksOf(w) /\ ViewOf(w)

IInv ==
  /\ TypeOK /\ QueuesOK /\ Exclusive /\ Lanes /\ OwnPosition
  /\ AuditTrail /\ VisualIsCurrent /\ NoLostWork

-----------------------------------------------------------------------------
\* Jobs, samples and batches.

\* A job names its step, its video and, if it embeds a frame, a position.
LEMMA PartsOfJob ==
  ASSUME NEW j \in Jobs
  PROVE  /\ VideoOf(j) \in Videos /\ StepOf(j) \in Queues
         /\ StepOf(j) = "frame_sample" => j = SampleJob(VideoOf(j))
         /\ StepOf(j) = "embed_frames" =>
              SecOf(j) \in Secs /\ j = EmbedJob(VideoOf(j), SecOf(j))
BY DEF Jobs, SampleJobs, EmbedJobs, SampleJob, EmbedJob, VideoOf, SecOf, StepOf, Queues

\* The jobs of a video are rows of the table, and know what they are about.
LEMMA JobsOfVideo ==
  /\ \A v \in Videos : SampleJob(v) \in Jobs
  /\ \A v \in Videos, s \in Secs : EmbedJob(v, s) \in Jobs
  /\ \A v : StepOf(SampleJob(v)) = "frame_sample" /\ VideoOf(SampleJob(v)) = v
  /\ \A v, s : /\ StepOf(EmbedJob(v, s)) = "embed_frames"
               /\ VideoOf(EmbedJob(v, s)) = v /\ SecOf(EmbedJob(v, s)) = s
BY DEF Jobs, SampleJobs, EmbedJobs, SampleJob, EmbedJob, VideoOf, SecOf, StepOf

\* The positions of a sample.
LEMMA SampleTypes ==
  ASSUME NEW v \in Videos, NEW n \in Versions
  PROVE  /\ Sampled[v][n] \in 0..MaxFrames
         /\ Positions(v, n) = 1..Sampled[v][n]
         /\ Positions(v, n) \subseteq Secs
<1>1. Sampled[v][n] \in 0..MaxFrames
  OBVIOUS
<1> QED
  BY <1>1 DEF Positions, Secs

\* When the rows are made, the directory holds the sample.
LEMMA ListedIsSample ==
  ASSUME TypeOK, Lanes, NEW w \in Workers, pc[w] \in Sampling,
         job[w] \in Jobs, job[w] = SampleJob(VideoOf(job[w]))
  PROVE  /\ Frames(w) = Positions(VideoOf(job[w]), seen[w])
         /\ pc[w] # "render" => Files(VideoOf(job[w])) = Positions(VideoOf(job[w]), seen[w])
<1> DEFINE v == VideoOf(job[w])
<1>1. v \in Videos /\ seen[w] \in Versions /\ seen[w] # 0
  BY PartsOfJob DEF Lanes, ControlOf, Versions
<1>2. CASE pc[w] = "render"
  BY <1>2 DEF Frames
<1>3. CASE pc[w] # "render"
  <2>1. \A x \in Secs : png[v][x] = IF x \in Positions(v, seen[w]) THEN seen[w] ELSE 0
    BY <1>3 DEF Lanes, ViewOf, Drawn
  <2>2. Files(v) = Positions(v, seen[w])
    BY <1>1, <2>1, SampleTypes DEF Files
  <2> QED
    BY <1>3, <2>2 DEF Frames
<1> QED
  BY <1>2, <1>3

\* Where the next file is not there, the loop has gone through the sample.
LEMMA LoopBounds ==
  ASSUME NEW v \in Videos, NEW n \in Versions, NEW k \in Positions(v, n)
  PROVE  /\ k \in Secs /\ k \in Nat
         /\ k + 1 \in Positions(v, n) <=> k # Sampled[v][n]
         /\ Positions(v, n) = 1..Sampled[v][n] /\ Sampled[v][n] \in Nat
         /\ k \in 1..Sampled[v][n]
         /\ 1 \in Positions(v, n)
<1>1. /\ Sampled[v][n] \in 0..MaxFrames /\ Positions(v, n) = 1..Sampled[v][n]
      /\ Positions(v, n) \subseteq Secs
  BY SampleTypes
<1> DEFINE last == Sampled[v][n]
<1>2. last \in Nat /\ k \in 1..last
  BY <1>1
<1> HIDE DEF last
<1>3. k \in Nat /\ 1 \in 1..last /\ (k + 1 \in 1..last <=> k # last)
  BY ONLY <1>2
<1> QED
  BY <1>1, <1>2, <1>3 DEF last

\* What the worker's job is, at any statement.
LEMMA WorkersJob ==
  ASSUME TypeOK, Lanes, NEW w \in Workers, pc[w] # "idle"
  PROVE  /\ job[w] \in Jobs /\ VideoOf(job[w]) \in Videos /\ StepOf(job[w]) \in Queues
         /\ StepOf(job[w]) = "frame_sample" => job[w] = SampleJob(VideoOf(job[w]))
         /\ StepOf(job[w]) = "embed_frames" =>
              /\ SecOf(job[w]) \in Secs
              /\ job[w] = EmbedJob(VideoOf(job[w]), SecOf(job[w]))
BY PartsOfJob DEF Lanes, ControlOf

-----------------------------------------------------------------------------
\* A step of one worker and the lanes of the others.

\* The variables of worker w and no other's.
OthersKeep(w) ==
  \A u \in Workers \ {w} :
    /\ pc'[u] = pc[u] /\ msg'[u] = msg[u] /\ job'[u] = job[u]
    /\ seen'[u] = seen[u] /\ next'[u] = next[u] /\ held'[u] = held[u]

\* What a transaction that holds the rows R leaves alone.
Frame(R) ==
  /\ \A j \in Jobs : status[j] # "absent" => status'[j] # "absent"
  /\ \A j \in Jobs : j \notin R => status'[j] = status[j]
  /\ \A v \in Videos : SampleJob(v) \notin R => png'[v] = png[v]
  /\ \A v \in Videos, s \in Secs :
       status'[SampleJob(v)] = "completed" /\ png'[v][s] # 0 =>
         /\ png'[v][s] = png[v][s]
         /\ status[SampleJob(v)] = "completed" \/ EmbedJob(v, s) \in R

\* What u has read stays true when a transaction holding none of u's rows
\* takes a step.
LEMMA LaneKept ==
  ASSUME TypeOK, Lanes, NEW u \in Workers, NEW STATE R, Frame(R), R \cap held[u] = {},
         pc'[u] = pc[u] /\ msg'[u] = msg[u] /\ job'[u] = job[u],
         seen'[u] = seen[u] /\ next'[u] = next[u] /\ held'[u] = held[u]
  PROVE  ControlOf(u)' /\ LocksOf(u)' /\ ViewOf(u)'
<1> DEFINE v == VideoOf(job[u])
           s == SecOf(job[u])
<1>1. ControlOf(u) /\ LocksOf(u) /\ ViewOf(u)
  BY DEF Lanes
<1>2. Drawn(u)' = Drawn(u)
  BY DEF Drawn
<1>3. ControlOf(u)'
  BY <1>1, <1>2 DEF ControlOf, Frame
<1>4. LocksOf(u)'
  BY <1>1, <1>2 DEF LocksOf
<1>5. CASE pc[u] \in {"acknowledge"} \cup InSample \cup InEmbed
  <2>1. /\ job[u] \in Jobs /\ job[u] \in held[u] /\ job[u] \notin R
        /\ pc[u] # "idle"
    BY <1>1, <1>5 DEF ControlOf, LocksOf, InSample, InEmbed, Sampling, InLoop
  <2>2. status'[job[u]] = status[job[u]]
    BY <2>1 DEF Frame
  <2>3. ASSUME pc[u] \in Sampling
        PROVE  \A x \in Secs : png'[v][x] = IF x \in Drawn(u) THEN seen[u] ELSE 0
    <3>1. v \in Videos /\ job[u] = SampleJob(v)
      BY <1>1, <2>1, <2>3, WorkersJob DEF ControlOf, InSample
    <3>2. png'[v] = png[v]
      BY <2>1, <3>1 DEF Frame
    <3> QED
      BY <1>1, <2>3, <3>2 DEF ViewOf
  <2>3a. pc[u] \in {"pooled", "finish_embed"} =>
          seen[u] # 0 /\ s \in Positions(v, seen[u])
    BY <1>1 DEF ViewOf
  <2>4. ASSUME pc[u] \in {"pooled", "finish_embed"},
               status'[SampleJob(v)] = "completed", png'[v][s] # 0
        PROVE  seen[u] = png'[v][s]
    <3>1. v \in Videos /\ s \in Secs /\ job[u] = EmbedJob(v, s)
      BY <1>1, <2>1, <2>4, WorkersJob DEF ControlOf, InEmbed
    <3>2. png'[v][s] = png[v][s] /\ status[SampleJob(v)] = "completed"
      BY <2>1, <2>4, <3>1 DEF Frame
    <3> QED
      BY <1>1, <2>4, <3>2 DEF ViewOf
  <2> QED
    BY <1>1, <1>2, <1>3, <1>4, <2>2, <2>3, <2>3a, <2>4 DEF ViewOf
<1>6. CASE pc[u] \notin {"acknowledge"} \cup InSample \cup InEmbed
  BY <1>3, <1>4, <1>6 DEF ViewOf, InSample, InEmbed
<1> QED
  BY <1>3, <1>4, <1>5, <1>6

\* So a step of w only has to answer for w.
LEMMA OtherLanes ==
  ASSUME TypeOK, Lanes, Exclusive, NEW w \in Workers, Frame(held[w]), OthersKeep(w),
         ControlOf(w)', LocksOf(w)', ViewOf(w)'
  PROVE  Lanes'
<1>1. ASSUME NEW u \in Workers \ {w}
      PROVE  ControlOf(u)' /\ LocksOf(u)' /\ ViewOf(u)'
  <2>1. held[w] \cap held[u] = {}
    BY DEF Exclusive
  <2> QED
    BY <2>1, LaneKept DEF OthersKeep
<1> QED
  BY <1>1 DEF Lanes

\* A step that leaves the tables and the files alone leaves everything alone.
LEMMA SameTables ==
  ASSUME UNCHANGED <<disk, database>>, NEW STATE R
  PROVE  /\ TablesOK => TablesOK'
         /\ QueuesOK => QueuesOK'
         /\ AuditTrail => AuditTrail'
         /\ OwnPosition => OwnPosition'
         /\ VisualIsCurrent => VisualIsCurrent'
         /\ NoLostWork => NoLostWork'
         /\ Frame(R)
BY DEF disk, database, TablesOK, QueuesOK, AuditTrail, OwnPosition, VisualIsCurrent, NoLostWork, Frame

\* The end of a transaction.
LEMMA EndLanes ==
  ASSUME IInv, NEW w \in Workers, EndTransaction(w), Frame(held[w])
  PROVE  WorkersOK' /\ Exclusive' /\ Lanes'
<1> USE DEF IInv
<1>1. OthersKeep(w)
  BY DEF OthersKeep, TypeOK, WorkersOK, EndTransaction
<1>2. pc'[w] = "idle" /\ held'[w] = {}
  BY DEF TypeOK, WorkersOK, EndTransaction
<1>3. ControlOf(w)' /\ LocksOf(w)' /\ ViewOf(w)'
  BY <1>2 DEF ControlOf, LocksOf, ViewOf, InSample, InEmbed, Sampling, InLoop
<1>4. Exclusive'
  BY <1>1, <1>2 DEF Exclusive, OthersKeep
<1>5. WorkersOK'
  BY DEF TypeOK, WorkersOK, EndTransaction, Labels
<1> QED
  BY <1>1, <1>3, <1>4, <1>5, OtherLanes

\* A lock is granted only on a row nobody else holds.
LEMMA TakeExclusive ==
  ASSUME TypeOK, Exclusive, NEW w \in Workers, NEW row \in Rows, Take(w, row)
  PROVE  /\ Exclusive' /\ held' \in [Workers -> SUBSET Rows]
         /\ held'[w] = held[w] \cup {row}
BY DEF TypeOK, WorkersOK, Exclusive, Take

-----------------------------------------------------------------------------
\* IInv is kept by every step.

\* Reading a message keeps the invariant.
LEMMA ReadInv ==
  ASSUME IInv, NEW w \in Workers, NEW q \in Queues, Read(w, q)
  PROVE  IInv'
<1> USE DEF IInv
<1>1. PICK m \in Oldest(Visible(q)) :
        msg' = [msg EXCEPT ![w] = m] /\ job' = [job EXCEPT ![w] = m.job]
  BY DEF Read
<1>2. m \in Messages /\ m.job \in Jobs /\ status[m.job] # "absent"
  BY DEF TypeOK, TablesOK, QueuesOK, Oldest, Visible, Messages
<1>3. WorkersOK' /\ OthersKeep(w) /\ Exclusive'
  BY <1>1, <1>2 DEF TypeOK, WorkersOK, OthersKeep, Exclusive, Read, Goto, Labels
<1>4. pc'[w] = "claim" /\ msg'[w] = m /\ job'[w] = m.job /\ UNCHANGED status
  BY <1>1 DEF TypeOK, WorkersOK, Read, Goto, database
<1>5. ControlOf(w)' /\ LocksOf(w)' /\ ViewOf(w)'
  BY <1>2, <1>4 DEF ControlOf, LocksOf, ViewOf, InSample, InEmbed, Sampling, InLoop
<1>6. /\ TablesOK' /\ QueuesOK' /\ AuditTrail' /\ OwnPosition' /\ VisualIsCurrent' /\ NoLostWork'
      /\ Frame(held[w]) /\ UNCHANGED bounds
  BY SameTables DEF Read, TypeOK
<1>7. Lanes'
  BY <1>3, <1>5, <1>6, OtherLanes
<1> QED
  BY <1>3, <1>6, <1>7 DEF TypeOK, bounds

\* Claiming a row keeps the invariant: no other transaction holds it.
LEMMA ClaimInv ==
  ASSUME IInv, NEW w \in Workers, Claim(w)
  PROVE  IInv'
<1> USE DEF IInv
<1>1. /\ ControlOf(w) /\ job[w] \in Jobs /\ job[w] \in Rows
      /\ StepOf(job[w]) \in {"frame_sample", "embed_frames"}
      /\ status[job[w]] \in {"pending", "completed"}
  BY WorkersJob DEF Lanes, ControlOf, Claim, TypeOK, TablesOK, Statuses, Queues, Rows
<1>2. /\ Exclusive' /\ held' \in [Workers -> SUBSET Rows] /\ job[w] \in held'[w]
  BY <1>1, TakeExclusive DEF Claim
<1>3. pc'[w] = IF status[job[w]] = "completed" THEN "acknowledge"
               ELSE IF StepOf(job[w]) = "frame_sample" THEN "video" ELSE "image"
  BY <1>1 DEF Claim, Goto, TypeOK, WorkersOK
<1>4. WorkersOK' /\ OthersKeep(w)
  BY <1>2 DEF TypeOK, WorkersOK, OthersKeep, Claim, Take, Goto, Labels
<1>5. UNCHANGED <<disk, database, msg, job, seen, next, bounds, status>> /\ pc[w] = "claim"
  BY DEF Claim, database
<1>6. ControlOf(w)' /\ LocksOf(w)' /\ ViewOf(w)'
  BY <1>1, <1>2, <1>3, <1>5
  DEF ControlOf, LocksOf, ViewOf, InSample, InEmbed, Sampling, InLoop
<1>7. /\ TablesOK' /\ QueuesOK' /\ AuditTrail' /\ OwnPosition' /\ VisualIsCurrent' /\ NoLostWork'
      /\ Frame(held[w])
  BY <1>5, SameTables DEF TypeOK
<1>8. Lanes'
  BY <1>4, <1>6, <1>7, OtherLanes
<1> QED
  BY <1>2, <1>4, <1>5, <1>7, <1>8 DEF TypeOK, bounds

\* A worker that holds the row of an unfinished sampling may write the files.
LEMMA DrawingInv ==
  ASSUME QueuesOK, AuditTrail, OwnPosition, VisualIsCurrent, NoLostWork,
         NEW v \in Videos, NEW STATE R,
         status[SampleJob(v)] = "pending", SampleJob(v) \in R,
         UNCHANGED <<sha, pooled, status, queue>>,
         \A x \in Videos : x # v => png'[x] = png[x],
         \A s \in Secs : png'[v][s] # 0 => s \in Positions(v, png'[v][s])
  PROVE  /\ Frame(R) /\ QueuesOK' /\ AuditTrail' /\ OwnPosition' /\ VisualIsCurrent'
         /\ NoLostWork'
<1>1. \A x \in Videos : status[SampleJob(x)] = "completed" => png'[x] = png[x]
  OBVIOUS
<1>2. AuditTrail'
  BY <1>1 DEF AuditTrail
<1>3. VisualIsCurrent'
  BY <1>1 DEF VisualIsCurrent
<1>4. \A x \in Videos : SampleJob(x) \notin R => png'[x] = png[x]
  OBVIOUS
<1>5. OwnPosition'
  BY DEF OwnPosition
<1> QED
  BY <1>1, <1>2, <1>3, <1>4, <1>5 DEF Frame, QueuesOK, NoLostWork

\* frames_handler empties the directory, file by file: it holds the claimed row,
\* so the video is not sampled and nobody else is sampling it.
LEMMA PurgeInv ==
  ASSUME IInv, NEW w \in Workers, Purge(w)
  PROVE  IInv'
<1> USE DEF IInv
<1> DEFINE v == VideoOf(job[w])
<1>1. /\ ControlOf(w) /\ LocksOf(w) /\ ViewOf(w) /\ pc[w] = "video"
      /\ v \in Videos /\ job[w] = SampleJob(v)
  BY WorkersJob DEF Lanes, ControlOf, InSample, Purge
<1>2. SampleJob(v) \in held[w] /\ status[SampleJob(v)] = "pending"
  BY <1>1 DEF LocksOf, ViewOf, InSample
<1>3. PICK s \in Secs : png' = [png EXCEPT ![v][s] = 0]
  BY DEF Purge, Files
<1>4. UNCHANGED <<movie, sha, pooled, status, queue, lastId, pc, msg, job, seen, next, held>>
      /\ UNCHANGED <<requests, aborts>>
  BY DEF Purge, database, bounds
<1>5. /\ png' \in Images /\ \A x \in Videos : x # v => png'[x] = png[x]
      /\ \A x \in Secs : png'[v][x] # 0 => png'[v][x] = png[v][x]
  BY <1>1, <1>3 DEF TypeOK, TablesOK, Images
<1>6. \A x \in Secs : png'[v][x] # 0 => x \in Positions(v, png'[v][x])
  BY <1>1, <1>5 DEF OwnPosition
<1> HIDE DEF v
<1>7. /\ Frame(held[w]) /\ QueuesOK' /\ AuditTrail' /\ OwnPosition' /\ VisualIsCurrent'
      /\ NoLostWork'
  BY <1>1, <1>2, <1>4, <1>5, <1>6, DrawingInv
<1>8. OthersKeep(w) /\ Exclusive'
  BY <1>4 DEF OthersKeep, Exclusive
<1>9. ControlOf(w)' /\ LocksOf(w)' /\ ViewOf(w)'
  BY <1>1, <1>4 DEF ControlOf, LocksOf, ViewOf, InSample, InEmbed, Sampling, InLoop
<1>10. Lanes'
  BY <1>7, <1>8, <1>9, OtherLanes
<1> QED
  BY <1>4, <1>5, <1>7, <1>8, <1>10 DEF TypeOK, TablesOK, WorkersOK

\* ffmpeg opens the video: no file of an earlier sample is left.
LEMMA OpenVideoInv ==
  ASSUME IInv, NEW w \in Workers, OpenVideo(w)
  PROVE  IInv'
<1> USE DEF IInv
<1> DEFINE v == VideoOf(job[w])
           n == movie[v]
<1>1. /\ ControlOf(w) /\ LocksOf(w) /\ ViewOf(w) /\ pc[w] = "video"
      /\ v \in Videos /\ job[w] = SampleJob(v) /\ StepOf(job[w]) = "frame_sample"
  BY WorkersJob DEF Lanes, ControlOf, InSample, OpenVideo
<1>2. /\ SampleJob(v) \in held[w] /\ status[SampleJob(v)] = "pending"
      /\ n \in Versions
  BY <1>1 DEF LocksOf, ViewOf, InSample, OpenVideo, TypeOK, TablesOK, Versions
<1>3. \A x \in Secs : png[v][x] = 0
  BY DEF OpenVideo, Files
<1>4. /\ UNCHANGED <<disk, database, status, png, msg, job, held, bounds>>
      /\ pc'[w] = IF Sampled[v][n] = 0 THEN "finish_frames" ELSE "render"
      /\ seen'[w] = n /\ next'[w] = 1
  BY DEF OpenVideo, disk, database, Goto, TypeOK, WorkersOK
<1>5. WorkersOK' /\ OthersKeep(w) /\ Exclusive'
  BY <1>2, SMTT(40) DEF TypeOK, WorkersOK, OthersKeep, Exclusive, OpenVideo, Goto, Labels,
                        Versions
<1>6. /\ TablesOK' /\ QueuesOK' /\ AuditTrail' /\ OwnPosition' /\ VisualIsCurrent'
      /\ NoLostWork' /\ Frame(held[w])
  BY <1>4, SameTables DEF TypeOK
<1> HIDE DEF v, n
<1>7. /\ Sampled[v][n] # 0 => 1 \in Positions(v, n)
      /\ Sampled[v][n] = 0 => Positions(v, n) = {}
  <2>1. Sampled[v][n] \in 0..MaxFrames /\ Positions(v, n) = 1..Sampled[v][n]
    BY <1>1, <1>2, SampleTypes
  <2> QED
    BY <2>1
<1>8. VideoOf(job[w])' = v /\ seen'[w] = n
  BY <1>4 DEF v
<1>9. ControlOf(w)' /\ LocksOf(w)'
  BY <1>1, <1>2, <1>4, <1>7, <1>8
  DEF ControlOf, LocksOf, InSample, InEmbed, Sampling, InLoop
<1>10. ViewOf(w)'
  <2>1. Drawn(w)' = {}
    BY <1>4, <1>7, <1>8 DEF Drawn
  <2>2. \A x \in Secs : png'[v][x] = 0
    BY <1>3, <1>4
  <2> QED
    BY <1>1, <1>2, <1>4, <1>8, <2>1, <2>2 DEF ViewOf, InSample, InEmbed, Sampling, InLoop
<1>11. Lanes'
  BY <1>5, <1>6, <1>9, <1>10, OtherLanes
<1> QED
  BY <1>4, <1>5, <1>6, <1>11 DEF TypeOK, bounds

\* ffmpeg writes the next file.
LEMMA RenderInv ==
  ASSUME IInv, NEW w \in Workers, Render(w)
  PROVE  IInv'
<1> USE DEF IInv
<1> DEFINE v == VideoOf(job[w])
           n == seen[w]
           k == next[w]
           last == Sampled[v][n]
<1>1. /\ ControlOf(w) /\ LocksOf(w) /\ ViewOf(w) /\ pc[w] = "render"
      /\ v \in Videos /\ job[w] = SampleJob(v) /\ StepOf(job[w]) = "frame_sample"
  BY WorkersJob DEF Lanes, ControlOf, InSample, Sampling, InLoop, Render, Advance
<1>2. /\ SampleJob(v) \in held[w] /\ status[SampleJob(v)] = "pending"
      /\ n \in Versions /\ k \in Positions(v, n)
      /\ \A x \in Secs : png[v][x] = IF x \in 1..(k - 1) THEN n ELSE 0
  BY <1>1 DEF ControlOf, LocksOf, ViewOf, InSample, Sampling, InLoop, Drawn
<1>3. /\ k \in Secs /\ k \in Nat /\ last \in Nat /\ k \in 1..last /\ 1 \in Positions(v, n)
      /\ Positions(v, n) = 1..last /\ (k + 1 \in Positions(v, n) <=> k # last)
  BY <1>1, <1>2, LoopBounds
<1>4. /\ png' = [png EXCEPT ![v][k] = n]
      /\ UNCHANGED <<movie, sha, pooled, status, queue, lastId, msg, job, seen, held, bounds>>
      /\ pc'[w] = IF k = last THEN "frame_rows" ELSE "render"
      /\ next'[w] = IF k = last THEN 1 ELSE k + 1
  BY <1>1, <1>3 DEF Render, Advance, Frames, database, Goto, TypeOK, WorkersOK
<1>5. WorkersOK' /\ OthersKeep(w) /\ Exclusive'
  BY <1>3, SMTT(40) DEF TypeOK, WorkersOK, OthersKeep, Exclusive, Render, Advance, Goto, Labels
<1>6. /\ png' \in Images /\ \A x \in Videos : x # v => png'[x] = png[x]
      /\ \A x \in Secs : png'[v][x] = IF x = k THEN n ELSE png[v][x]
  <2>1. png \in [Videos -> [Secs -> 0..MaxVersion]] /\ n \in 0..MaxVersion
    BY <1>2 DEF TypeOK, TablesOK, Images, Versions
  <2>2. v \in Videos /\ k \in Secs
    BY <1>1, <1>3
  <2> HIDE DEF v, n, k, last
  <2>3. /\ png' \in [Videos -> [Secs -> 0..MaxVersion]]
        /\ \A x \in Videos : x # v => png'[x] = png[x]
        /\ \A x \in Secs : png'[v][x] = IF x = k THEN n ELSE png[v][x]
    BY ONLY <1>4, <2>1, <2>2
  <2> QED
    BY <2>3 DEF Images
<1> HIDE DEF v, n, k, last
<1>7. \A x \in Secs : png'[v][x] = IF x \in 1..k THEN n ELSE 0
  <2>1. \A x \in Secs : x \in 1..k <=> (x = k \/ x \in 1..(k - 1))
    <3>1. \A x \in Nat : x \in 1..k <=> (x = k \/ x \in 1..(k - 1))
      BY ONLY <1>3
    <3> QED
      BY <3>1 DEF Secs
  <2> QED
    BY <1>2, <1>6, <2>1
<1>8. \A x \in Secs : png'[v][x] # 0 => x \in Positions(v, png'[v][x])
  <2>1. \A x \in 1..k : x \in 1..last
    BY ONLY <1>3
  <2> QED
    BY <1>3, <1>7, <2>1
<1>9. /\ Frame(held[w]) /\ QueuesOK' /\ AuditTrail' /\ OwnPosition' /\ VisualIsCurrent'
      /\ NoLostWork'
  BY <1>1, <1>2, <1>4, <1>6, <1>8, DrawingInv
<1>10. VideoOf(job[w])' = v /\ seen'[w] = n
  BY <1>4 DEF v, n
<1>11. ControlOf(w)' /\ LocksOf(w)'
  BY <1>1, <1>2, <1>3, <1>4, <1>10
  DEF ControlOf, LocksOf, InSample, InEmbed, Sampling, InLoop
<1>12. ViewOf(w)'
  <2>1. Drawn(w)' = 1..k
    <3>1. CASE k = last
      BY <1>3, <1>4, <1>10, <3>1 DEF Drawn
    <3>2. CASE k # last
      <4>1. (k + 1) - 1 = k
        BY <1>3
      <4> QED
        BY <1>4, <3>2, <4>1 DEF Drawn
    <3> QED
      BY <3>1, <3>2
  <2> QED
    BY <1>1, <1>2, <1>4, <1>7, <1>10, <2>1 DEF ViewOf, InSample, InEmbed, Sampling, InLoop
<1>13. Lanes'
  BY <1>5, <1>9, <1>11, <1>12, OtherLanes
<1> QED
  BY <1>4, <1>5, <1>6, <1>9, <1>13 DEF TypeOK, TablesOK, bounds

\* The two loops of the fan-out lock the frames rows and the embed_frames rows.
LEMMA UpsertInv ==
  ASSUME IInv, NEW w \in Workers, UpsertFrame(w) \/ UpsertEmbedRow(w)
  PROVE  IInv'
<1> USE DEF IInv
<1> DEFINE v == VideoOf(job[w])
           n == seen[w]
           k == next[w]
           last == Sampled[v][n]
<1>1. /\ ControlOf(w) /\ LocksOf(w) /\ ViewOf(w) /\ pc[w] \in {"frame_rows", "embed_rows"}
      /\ v \in Videos /\ job[w] = SampleJob(v) /\ StepOf(job[w]) = "frame_sample"
      /\ job[w] \in Jobs
  BY WorkersJob DEF Lanes, ControlOf, InSample, Sampling, InLoop, UpsertFrame,
                    UpsertEmbedRow, Advance
<1>2. n \in Versions /\ k \in Positions(v, n)
  BY <1>1 DEF ControlOf, Sampling, InLoop
<1>3. /\ k \in Secs /\ k \in Nat /\ last \in Nat /\ k \in 1..last /\ 1 \in Positions(v, n)
      /\ Positions(v, n) = 1..last /\ (k + 1 \in Positions(v, n) <=> k # last)
  BY <1>1, <1>2, LoopBounds
<1>4. FrameRow(v, k) \in Rows /\ EmbedJob(v, k) \in Rows
  BY <1>1, <1>3, JobsOfVideo DEF Rows
<1>5. PICK row \in Rows :
        Take(w, row) /\ (pc[w] = "embed_rows" => row = EmbedJob(v, k))
  <2>1. CASE UpsertFrame(w)
    BY <1>4, <2>1 DEF UpsertFrame, Advance
  <2>2. CASE UpsertEmbedRow(w)
    BY <1>4, <2>2 DEF UpsertEmbedRow
  <2> QED
    BY <2>1, <2>2
<1>6. Exclusive' /\ held' \in [Workers -> SUBSET Rows] /\ held'[w] = held[w] \cup {row}
  BY <1>5, TakeExclusive
<1>7. Frames(w) = Positions(v, n)
  BY <1>1, ListedIsSample DEF Sampling, InLoop
<1>8. /\ UNCHANGED <<disk, database, msg, job, seen, bounds, status, png>>
      /\ pc'[w] = IF k # last THEN pc[w]
                  ELSE IF pc[w] = "frame_rows" THEN "embed_rows" ELSE "finish_frames"
      /\ next'[w] = IF k = last THEN 1 ELSE k + 1
  BY <1>1, <1>3, <1>7 DEF UpsertFrame, UpsertEmbedRow, Advance, disk, database, Goto, TypeOK,
              WorkersOK
<1>9. OthersKeep(w)
  BY <1>5 DEF TypeOK, WorkersOK, OthersKeep, UpsertFrame, UpsertEmbedRow, Advance, Take, Goto
<1>10. WorkersOK'
  <2>1. \E l \in Labels : pc' = [pc EXCEPT ![w] = l]
    BY DEF UpsertFrame, UpsertEmbedRow, Advance, Goto, Labels
  <2>2. \E i \in Nat : next' = [next EXCEPT ![w] = i]
    <3>1. k + 1 \in Nat /\ 1 \in Nat
      BY <1>3
    <3>2. next' = [next EXCEPT ![w] = IF k + 1 \in Frames(w) THEN k + 1 ELSE 1]
      BY DEF UpsertFrame, UpsertEmbedRow, Advance
    <3> HIDE DEF k, last
    <3> QED
      BY <3>1, <3>2
  <2> QED
    BY <1>6, <1>8, <2>1, <2>2 DEF TypeOK, WorkersOK
<1>11. /\ TablesOK' /\ QueuesOK' /\ AuditTrail' /\ OwnPosition' /\ VisualIsCurrent'
       /\ NoLostWork' /\ Frame(held[w])
  BY <1>8, SameTables DEF TypeOK
<1> HIDE DEF v, n, k, last
<1>12. VideoOf(job[w])' = v /\ seen'[w] = n
  BY <1>8 DEF v, n
<1>13. ControlOf(w)'
  BY <1>1, <1>2, <1>3, <1>8, <1>12 DEF ControlOf, InSample, InEmbed, Sampling, InLoop
<1>14. LocksOf(w)'
  <2>1. job[w] \in held[w]
    BY <1>1 DEF LocksOf, InSample, Sampling, InLoop
  <2>2. CASE pc[w] = "frame_rows"
    <3>1. \A i \in 1..(1 - 1) : FALSE
      OBVIOUS
    <3> QED
      BY <1>3, <1>6, <1>8, <2>1, <2>2, <3>1
      DEF LocksOf, InSample, InEmbed, Sampling, InLoop
  <2>3. CASE pc[w] = "embed_rows"
    <3>1. \A i \in 1..k : EmbedJob(v, i) \in held'[w]
      <4>1. \A i \in 1..(k - 1) : EmbedJob(v, i) \in held[w]
        BY <1>1, <2>3 DEF LocksOf, v, k
      <4>2. EmbedJob(v, k) \in held'[w]
        BY <1>5, <1>6, <2>3
      <4> QED
        BY <1>3, <1>6, <4>1, <4>2
    <3>2. CASE k = last
      BY <1>3, <1>6, <1>8, <1>12, <2>1, <2>3, <3>1, <3>2
      DEF LocksOf, InSample, InEmbed, Sampling, InLoop
    <3>3. CASE k # last
      <4>1. (k + 1) - 1 = k
        BY <1>3
      <4> QED
        BY <1>6, <1>8, <1>12, <2>1, <2>3, <3>1, <3>3, <4>1
        DEF LocksOf, InSample, InEmbed, Sampling, InLoop
    <3> QED
      BY <3>2, <3>3
  <2> QED
    BY <1>1, <2>2, <2>3
<1>15. ViewOf(w)'
  <2>1. Drawn(w)' = Drawn(w)
    BY <1>1, <1>8 DEF Drawn
  <2> QED
    BY <1>1, <1>8, <2>1 DEF ViewOf, InSample, InEmbed, Sampling, InLoop
<1>16. Lanes'
  BY <1>9, <1>11, <1>13, <1>14, <1>15, OtherLanes
<1> QED
  BY <1>6, <1>8, <1>10, <1>11, <1>16 DEF TypeOK, bounds

\* embed_frames_handler reads the file, and then waits for the frames row.
LEMMA ReadImageInv ==
  ASSUME IInv, NEW w \in Workers, ReadImage(w) \/ UpdatePooled(w)
  PROVE  IInv'
<1> USE DEF IInv
<1> DEFINE v == VideoOf(job[w])
           s == SecOf(job[w])
<1>1. /\ ControlOf(w) /\ LocksOf(w) /\ ViewOf(w) /\ pc[w] \in {"image", "pooled"}
      /\ v \in Videos /\ s \in Secs /\ StepOf(job[w]) = "embed_frames"
  BY WorkersJob DEF Lanes, ControlOf, InEmbed, ReadImage, UpdatePooled
<1>2. /\ FrameRow(v, s) \in Rows /\ png[v][s] \in 0..MaxVersion
      /\ png[v][s] # 0 => s \in Positions(v, png[v][s])
  <2>1. FrameRow(v, s) \in Rows
    BY <1>1 DEF Rows
  <2>2. png[v][s] \in 0..MaxVersion
    BY <1>1 DEF TypeOK, TablesOK, Images
  <2>3. png[v][s] # 0 => s \in Positions(v, png[v][s])
    BY <1>1 DEF OwnPosition
  <2> QED
    BY <2>1, <2>2, <2>3
<1>3. /\ UNCHANGED <<disk, database, msg, job, next, bounds, status, png>>
      /\ pc'[w] = IF pc[w] = "image" THEN "pooled" ELSE "finish_embed"
      /\ seen'[w] = IF pc[w] = "image" THEN png[v][s] ELSE seen[w]
      /\ pc[w] = "image" => png[v][s] # 0
  BY DEF ReadImage, UpdatePooled, disk, database, Goto, TypeOK, WorkersOK
<1>4. /\ Exclusive' /\ held' \in [Workers -> SUBSET Rows] /\ held[w] \subseteq held'[w]
  <2>1. CASE ReadImage(w)
    BY <2>1 DEF ReadImage, Exclusive, TypeOK, WorkersOK
  <2>2. CASE UpdatePooled(w)
    BY <1>2, <2>2, TakeExclusive DEF UpdatePooled
  <2> QED
    BY <2>1, <2>2
<1>5. OthersKeep(w)
  BY DEF TypeOK, WorkersOK, OthersKeep, ReadImage, UpdatePooled, Take, Goto
<1>6. WorkersOK'
  <2>1. pc' \in [Workers -> Labels] /\ seen' \in [Workers -> 0..MaxVersion]
    BY <1>2 DEF TypeOK, WorkersOK, ReadImage, UpdatePooled, Goto, Labels
  <2> QED
    BY <1>3, <1>4, <2>1 DEF TypeOK, WorkersOK
<1>7. /\ TablesOK' /\ QueuesOK' /\ AuditTrail' /\ OwnPosition' /\ VisualIsCurrent' /\ NoLostWork'
      /\ Frame(held[w])
  BY <1>3, SameTables DEF TypeOK
<1>8. ControlOf(w)' /\ LocksOf(w)' /\ ViewOf(w)'
  BY <1>1, <1>2, <1>3, <1>4
  DEF ControlOf, LocksOf, ViewOf, InSample, InEmbed, Sampling, InLoop
<1>9. Lanes'
  BY <1>5, <1>7, <1>8, OtherLanes
<1> QED
  BY <1>3, <1>4, <1>6, <1>7, <1>9 DEF TypeOK, bounds

\* An archived message is about a finished job.
LEMMA AcknowledgeInv ==
  ASSUME IInv, NEW w \in Workers, Acknowledge(w)
  PROVE  IInv'
<1> USE DEF IInv
<1> DEFINE q == StepOf(job[w])
<1>1. /\ queue' = [queue EXCEPT ![q] = @ \ {msg[w]}] /\ pc[w] = "acknowledge"
      /\ UNCHANGED <<movie, png, sha, pooled, status, lastId, requests, aborts>>
      /\ EndTransaction(w)
  BY DEF Acknowledge, disk, bounds
<1>2. /\ status[job[w]] = "completed" /\ msg[w].job = job[w] /\ q \in Queues
  BY <1>1, WorkersJob DEF Lanes, ViewOf, ControlOf
<1>3. TablesOK' /\ QueuesOK'
  BY <1>1, <1>2 DEF TypeOK, TablesOK, QueuesOK
<1>4. NoLostWork'
  <2> SUFFICES ASSUME NEW j \in Jobs, status[j] = "pending"
               PROVE  \E m \in queue'[StepOf(j)] : m.job = j
    BY <1>1 DEF NoLostWork
  <2>1. PICK m \in queue[StepOf(j)] : m.job = j
    BY DEF NoLostWork
  <2>2. m # msg[w] /\ StepOf(j) \in Queues
    BY <1>2, <2>1, PartsOfJob
  <2> QED
    BY <1>1, <2>1, <2>2 DEF TypeOK, TablesOK
<1>5. Frame(held[w])
  BY <1>1 DEF Frame
<1>6. WorkersOK' /\ Exclusive' /\ Lanes'
  BY <1>1, <1>5, EndLanes
<1> QED
  BY <1>1, <1>3, <1>4, <1>6 DEF TypeOK, AuditTrail, OwnPosition, VisualIsCurrent

\* The commit of a sampling: the rows of its frames are pending again, so what
\* their vectors encode no longer matters, and no embed worker is between its
\* read of an image and its commit.
LEMMA FinishFramesInv ==
  ASSUME IInv, NEW w \in Workers, FinishFrames(w)
  PROVE  IInv'
<1> USE DEF IInv
<1> DEFINE v == VideoOf(job[w])
           n == seen[w]
           sent == FanOut(v)
<1>1. /\ ControlOf(w) /\ LocksOf(w) /\ ViewOf(w) /\ pc[w] = "finish_frames"
      /\ v \in Videos /\ job[w] = SampleJob(v) /\ StepOf(job[w]) = "frame_sample"
      /\ job[w] \in Jobs
  BY WorkersJob DEF Lanes, ControlOf, InSample, Sampling, FinishFrames
<1>2. /\ n \in Versions /\ SampleJob(v) \in held[w] /\ msg[w].job = SampleJob(v)
      /\ status[SampleJob(v)] = "pending"
      /\ \A s \in Positions(v, n) : EmbedJob(v, s) \in held[w]
      /\ \A x \in Secs : png[v][x] = IF x \in Positions(v, n) THEN n ELSE 0
  BY <1>1 DEF ControlOf, LocksOf, ViewOf, Drawn, InSample, Sampling
<1>3. Positions(v, n) \subseteq Secs /\ Files(v) = Positions(v, n)
  BY <1>1, <1>2, SampleTypes, ListedIsSample DEF Sampling
<1>4. /\ sha' = [sha EXCEPT ![v] =
                   [s \in Secs |-> IF s \in Files(v) THEN png[v][s] ELSE sha[v][s]]]
      /\ status' = SampledStatus(v)
      /\ queue' = [queue EXCEPT !["frame_sample"] = @ \ {msg[w]},
                                !["embed_frames"] = @ \cup sent]
      /\ lastId' = [lastId EXCEPT !["embed_frames"] = @ + Cardinality(Files(v))]
      /\ EndTransaction(w) /\ UNCHANGED <<movie, png, pooled, requests, aborts>>
  BY DEF FinishFrames, disk, bounds
<1>4a. Cardinality(Files(v)) \in Nat
  <2>1. Files(v) \subseteq 1..MaxFrames /\ 1 \in Int /\ MaxFrames \in Int
    BY DEF Files, Secs
  <2>2. IsFiniteSet(1..MaxFrames)
    BY <2>1, FS_Interval
  <2>3. IsFiniteSet(Files(v))
    BY <2>1, <2>2, FS_Subset
  <2> QED
    BY <2>3, FS_CardinalityType
<1> HIDE DEF v, n
<1>5. /\ sent \subseteq Messages
      /\ \A m \in sent : \E s \in Positions(v, n) : m.job = EmbedJob(v, s)
      /\ \A s \in Positions(v, n) : \E m \in sent : m.job = EmbedJob(v, s)
  <2> DEFINE id == lastId["embed_frames"]
             message(s) == [id |-> id + s, job |-> EmbedJob(v, s)]
  <2>1. id \in Nat /\ \A s \in Secs : EmbedJob(v, s) \in Jobs
    BY <1>1, JobsOfVideo DEF TypeOK, TablesOK, Queues
  <2>2. sent = {message(s) : s \in Positions(v, n)}
    BY <1>3 DEF FanOut
  <2>3. ASSUME NEW s \in Positions(v, n)
        PROVE  message(s) \in Messages /\ message(s).job = EmbedJob(v, s)
    <3>1. id + s \in Nat \ {0}
      BY <1>3, <2>1 DEF Secs
    <3> QED
      BY <1>3, <2>1, <3>1 DEF Messages
  <2> HIDE DEF message
  <2> QED
    BY <2>2, <2>3
<1> HIDE DEF sent
<1>6. /\ status' \in [Jobs -> Statuses] /\ status'[SampleJob(v)] = "completed"
      /\ \A s \in Positions(v, n) : status'[EmbedJob(v, s)] = "pending"
      /\ \A j \in Jobs : j \notin held[w] => status'[j] = status[j]
      /\ \A j \in Jobs : status[j] # "absent" => status'[j] # "absent"
      /\ \A j \in Jobs :
           /\ j # SampleJob(v)
           /\ \A s \in Positions(v, n) : j # EmbedJob(v, s)
           => status'[j] = status[j]
  <2>1. \A s : EmbedJob(v, s) # SampleJob(v)
    BY JobsOfVideo
  <2>2. status \in [Jobs -> Statuses] /\ SampleJob(v) \in Jobs
        /\ \A s \in Positions(v, n) : EmbedJob(v, s) \in Jobs
    BY <1>1, <1>3, JobsOfVideo DEF TypeOK, TablesOK
  <2>3. status' = [j \in Jobs |->
           IF j = SampleJob(v) THEN "completed"
           ELSE IF \E s \in Positions(v, n) : j = EmbedJob(v, s) THEN "pending"
           ELSE status[j]]
    BY <1>3, <1>4 DEF SampledStatus
  <2> QED
    BY <1>2, <2>1, <2>2, <2>3 DEF Statuses
<1>7. \A x \in Videos : x # v => /\ SampleJob(x) # SampleJob(v)
                                 /\ status'[SampleJob(x)] = status[SampleJob(x)]
                                 /\ \A s \in Secs : status'[EmbedJob(x, s)] =
                                                      status[EmbedJob(x, s)]
  <2> SUFFICES ASSUME NEW x \in Videos, x # v
               PROVE  /\ SampleJob(x) # SampleJob(v)
                      /\ status'[SampleJob(x)] = status[SampleJob(x)]
                      /\ \A s \in Secs : status'[EmbedJob(x, s)] = status[EmbedJob(x, s)]
    OBVIOUS
  <2>1. \A j \in Jobs : VideoOf(j) = x => status'[j] = status[j]
    BY <1>6, JobsOfVideo
  <2> QED
    BY <2>1, JobsOfVideo
<1>8. sha' \in Images /\ \A x \in Secs : x \in Positions(v, n) => sha'[v][x] = n
  <2> DEFINE row == [s \in Secs |-> IF s \in Files(v) THEN png[v][s] ELSE sha[v][s]]
  <2>1. row \in [Secs -> 0..MaxVersion]
    BY <1>1 DEF TypeOK, TablesOK, Images
  <2>2. \A s \in Positions(v, n) : row[s] = n
    BY <1>2, <1>3
  <2>3. sha \in Images /\ sha' = [sha EXCEPT ![v] = row]
    BY <1>4 DEF TypeOK, TablesOK
  <2> HIDE DEF row
  <2> QED
    BY <1>1, <1>3, <2>1, <2>2, <2>3 DEF Images
<1>9. \A x \in Videos : x # v => sha'[x] = sha[x]
  BY <1>4 DEF TypeOK, TablesOK, Images
<1>10. queue' \in [Queues -> SUBSET Messages] /\ QueuesOK'
  <2>1. /\ queue'["frame_sample"] = queue["frame_sample"] \ {msg[w]}
        /\ queue'["embed_frames"] = queue["embed_frames"] \cup sent
        /\ queue' \in [Queues -> SUBSET Messages]
    BY <1>4, <1>5 DEF TypeOK, TablesOK, Queues
  <2>2. \A m \in sent : StepOf(m.job) = "embed_frames" /\ status'[m.job] # "absent"
    BY <1>5, <1>6, JobsOfVideo
  <2>3. ASSUME NEW q \in Queues, NEW m \in queue[q]
        PROVE  StepOf(m.job) = q /\ status'[m.job] # "absent"
    <3>1. StepOf(m.job) = q /\ status[m.job] # "absent" /\ m.job \in Jobs
      BY DEF QueuesOK, TypeOK, TablesOK, Messages
    <3> QED
      BY <1>6, <3>1
  <2> QED
    BY <2>1, <2>2, <2>3 DEF QueuesOK, Queues
<1>11. NoLostWork'
  <2> SUFFICES ASSUME NEW j \in Jobs, status'[j] = "pending"
               PROVE  \E m \in queue'[StepOf(j)] : m.job = j
    BY DEF NoLostWork
  <2>1. CASE \E s \in Positions(v, n) : j = EmbedJob(v, s)
    <3>1. StepOf(j) = "embed_frames" /\ \E m \in sent : m.job = j
      BY <1>5, <2>1, JobsOfVideo
    <3> QED
      BY <1>4, <3>1 DEF TypeOK, TablesOK, Queues
  <2>2. CASE ~\E s \in Positions(v, n) : j = EmbedJob(v, s)
    <3>1. j # SampleJob(v) /\ status[j] = "pending"
      BY <1>6, <2>2
    <3>2. PICK m \in queue[StepOf(j)] : m.job = j
      BY <3>1 DEF NoLostWork
    <3>3. m # msg[w] /\ StepOf(j) \in Queues
      BY <1>2, <3>1, <3>2, PartsOfJob
    <3>4. m \in queue'[StepOf(j)]
      BY <1>4, <3>2, <3>3 DEF TypeOK, TablesOK, Queues
    <3> QED
      BY <3>2, <3>4
  <2> QED
    BY <2>1, <2>2
<1>12. AuditTrail'
  <2>1. \A s \in Secs : IF s \in Positions(v, n) THEN png'[v][s] = n /\ sha'[v][s] = n
                        ELSE png'[v][s] = 0
    BY <1>2, <1>4, <1>8
  <2>2. ASSUME NEW x \in Videos, x # v, status'[SampleJob(x)] = "completed"
        PROVE  \E k \in Versions : \A s \in Secs :
                 IF s \in Positions(x, k) THEN png'[x][s] = k /\ sha'[x][s] = k
                 ELSE png'[x][s] = 0
    BY <1>4, <1>7, <1>9, <2>2 DEF AuditTrail
  <2>3. n \in Versions
    BY <1>2
  <2> QED
    BY ONLY <2>1, <2>2, <2>3, SMTT(40) DEF AuditTrail
<1>12a. OwnPosition'
  BY <1>4 DEF OwnPosition
<1>13. VisualIsCurrent'
  <2> SUFFICES ASSUME NEW x \in Videos, NEW s \in Secs,
                      status'[SampleJob(x)] = "completed",
                      status'[EmbedJob(x, s)] = "completed", png[x][s] # 0
               PROVE  pooled[x][s] = IF <<x, s, png[x][s]>> \in Unstable THEN 0 ELSE png[x][s]
    BY <1>4 DEF VisualIsCurrent, OwnPosition
  <2>1. x # v
    BY <1>2, <1>6
  <2> QED
    BY <1>7, <2>1 DEF VisualIsCurrent
<1>14. Frame(held[w])
  <2> SUFFICES ASSUME NEW x \in Videos, NEW s \in Secs,
                      status'[SampleJob(x)] = "completed", png[x][s] # 0
               PROVE  status[SampleJob(x)] = "completed" \/ EmbedJob(x, s) \in held[w]
    BY <1>4, <1>6 DEF Frame
  <2>1. CASE x = v
    BY <1>2, <2>1
  <2>2. CASE x # v
    BY <1>7, <2>2
  <2> QED
    BY <2>1, <2>2
<1>15. WorkersOK' /\ Exclusive' /\ Lanes'
  BY <1>4, <1>14, EndLanes
<1>16. lastId' \in [Queues -> Nat]
  BY <1>4, <1>4a DEF TypeOK, TablesOK, Queues
<1> QED
  BY <1>4, <1>6, <1>8, <1>10, <1>11, <1>12, <1>13, <1>15, <1>16, <1>12a DEF TypeOK, TablesOK

\* The commit of an embedding: either the video is being sampled again, or the
\* image that was read is the one on disk.
LEMMA FinishEmbedInv ==
  ASSUME IInv, NEW w \in Workers, FinishEmbed(w)
  PROVE  IInv'
<1> USE DEF IInv
<1> DEFINE v == VideoOf(job[w])
           s == SecOf(job[w])
<1>1. /\ ControlOf(w) /\ LocksOf(w) /\ ViewOf(w) /\ pc[w] = "finish_embed"
      /\ v \in Videos /\ s \in Secs /\ job[w] = EmbedJob(v, s) /\ job[w] \in Jobs
  BY WorkersJob DEF Lanes, ControlOf, InEmbed, FinishEmbed
<1>2. /\ EmbedJob(v, s) \in held[w] /\ msg[w].job = EmbedJob(v, s)
      /\ status[EmbedJob(v, s)] = "pending"
      /\ seen[w] # 0 /\ s \in Positions(v, seen[w])
      /\ status[SampleJob(v)] = "completed" /\ png[v][s] # 0 => seen[w] = png[v][s]
  BY <1>1 DEF ControlOf, LocksOf, ViewOf, InEmbed
<1>3. /\ pooled' = [pooled EXCEPT ![v][s] = Vectors(v, s, seen[w])]
      /\ status' = [status EXCEPT ![EmbedJob(v, s)] = "completed"]
      /\ queue' = [queue EXCEPT !["embed_frames"] = @ \ {msg[w]}]
      /\ EndTransaction(w)
      /\ UNCHANGED <<movie, png, sha, lastId, requests, aborts>>
  BY <1>1 DEF FinishEmbed, disk, bounds
<1> HIDE DEF v, s
<1>4. /\ status' \in [Jobs -> Statuses] /\ status'[EmbedJob(v, s)] = "completed"
      /\ \A j \in Jobs : j # EmbedJob(v, s) => status'[j] = status[j]
      /\ \A x \in Videos : status'[SampleJob(x)] = status[SampleJob(x)]
  <2>1. EmbedJob(v, s) \in Jobs /\ \A x : SampleJob(x) # EmbedJob(v, s)
    BY <1>1, JobsOfVideo
  <2> QED
    BY <1>3, <2>1, JobsOfVideo DEF TypeOK, TablesOK, Statuses
<1>5. /\ pooled' \in Images /\ pooled'[v][s] = Vectors(v, s, seen[w])
      /\ \A x \in Videos, y \in Secs : x # v \/ y # s => pooled'[x][y] = pooled[x][y]
  <2>1. Vectors(v, s, seen[w]) \in 0..MaxVersion
    BY DEF Vectors, TypeOK, WorkersOK
  <2> QED
    BY <1>1, <1>3, <2>1 DEF TypeOK, TablesOK, Images
<1>6. queue' \in [Queues -> SUBSET Messages] /\ QueuesOK'
  <2>1. queue' \in [Queues -> SUBSET Messages] /\ \A q \in Queues : queue'[q] \subseteq queue[q]
    BY <1>3 DEF TypeOK, TablesOK, Queues
  <2>2. ASSUME NEW q \in Queues, NEW m \in queue[q]
        PROVE  StepOf(m.job) = q /\ status'[m.job] # "absent"
    <3>1. StepOf(m.job) = q /\ status[m.job] # "absent" /\ m.job \in Jobs
      BY DEF QueuesOK, TypeOK, TablesOK, Messages
    <3> QED
      BY <1>4, <3>1
  <2> QED
    BY <2>1, <2>2 DEF QueuesOK
<1>7. NoLostWork'
  <2> SUFFICES ASSUME NEW j \in Jobs, status'[j] = "pending"
               PROVE  \E m \in queue'[StepOf(j)] : m.job = j
    BY DEF NoLostWork
  <2>1. j # EmbedJob(v, s) /\ status[j] = "pending"
    BY <1>4
  <2>2. PICK m \in queue[StepOf(j)] : m.job = j
    BY <2>1 DEF NoLostWork
  <2>3. m # msg[w] /\ StepOf(j) \in Queues
    BY <1>2, <2>1, <2>2, PartsOfJob
  <2>4. m \in queue'[StepOf(j)]
    BY <1>3, <2>2, <2>3 DEF TypeOK, TablesOK, Queues
  <2> QED
    BY <2>2, <2>4
<1>8. AuditTrail'
  BY <1>3, <1>4 DEF AuditTrail
<1>8a. OwnPosition'
  <2> SUFFICES ASSUME NEW x \in Videos, NEW y \in Secs, pooled'[x][y] # 0
               PROVE  /\ y \in Positions(x, pooled'[x][y])
                      /\ <<x, y, pooled'[x][y]>> \notin Unstable
    BY <1>3 DEF OwnPosition
  <2>1. CASE x = v /\ y = s
    BY <1>2, <1>5, <2>1 DEF Vectors
  <2>2. CASE x # v \/ y # s
    BY <1>5, <2>2 DEF OwnPosition
  <2> QED
    BY <2>1, <2>2
<1>9. VisualIsCurrent'
  <2> SUFFICES ASSUME NEW x \in Videos, NEW y \in Secs,
                      status[SampleJob(x)] = "completed",
                      status'[EmbedJob(x, y)] = "completed", png[x][y] # 0
               PROVE  pooled'[x][y] = IF <<x, y, png[x][y]>> \in Unstable THEN 0 ELSE png[x][y]
    BY <1>3, <1>4, <1>8a DEF VisualIsCurrent, OwnPosition
  <2>1. CASE x = v /\ y = s
    BY <1>2, <1>5, <2>1 DEF Vectors
  <2>2. CASE x # v \/ y # s
    <3>1. EmbedJob(x, y) # EmbedJob(v, s) /\ EmbedJob(x, y) \in Jobs
      BY <2>2, JobsOfVideo
    <3>2. pooled'[x][y] = pooled[x][y]
      BY <1>5, <2>2
    <3>3. status[EmbedJob(x, y)] = "completed"
      BY <1>4, <3>1
    <3> QED
      BY <3>2, <3>3 DEF VisualIsCurrent
  <2> QED
    BY <2>1, <2>2
<1>10. Frame(held[w])
  <2>1. \A j \in Jobs : status[j] # "absent" => status'[j] # "absent"
    BY <1>4
  <2> QED
    BY <1>2, <1>3, <1>4, <2>1 DEF Frame
<1>11. WorkersOK' /\ Exclusive' /\ Lanes'
  BY <1>3, <1>10, EndLanes
<1> QED
  BY <1>3, <1>4, <1>5, <1>6, <1>7, <1>8, <1>9, <1>11, <1>8a DEF TypeOK, TablesOK

\* A rollback gives the worker's rows and message back and changes nothing.
LEMMA RollbackInv ==
  ASSUME IInv, NEW w \in Workers, Rollback(w), aborts' \in 0..MaxAborts
  PROVE  IInv'
<1> USE DEF IInv
<1>1. /\ TablesOK' /\ QueuesOK' /\ AuditTrail' /\ OwnPosition' /\ VisualIsCurrent' /\ NoLostWork'
      /\ Frame(held[w]) /\ EndTransaction(w) /\ UNCHANGED requests
  BY SameTables DEF Rollback, TypeOK
<1>2. WorkersOK' /\ Exclusive' /\ Lanes'
  BY <1>1, EndLanes
<1> QED
  BY <1>1, <1>2 DEF TypeOK

\* A fetch_reconcile makes a sampling pending while nobody holds its row.
LEMMA RequestInv ==
  ASSUME IInv, NEW v \in Videos, Request(v)
  PROVE  IInv'
<1> USE DEF IInv
<1> DEFINE id == lastId["frame_sample"]
           sent == {[id |-> id + 1, job |-> SampleJob(v)]}
<1>1. /\ \A w \in Workers : SampleJob(v) \notin held[w]
      /\ status' = [status EXCEPT ![SampleJob(v)] = "pending"]
      /\ queue' = [queue EXCEPT !["frame_sample"] = @ \cup sent]
      /\ lastId' = [lastId EXCEPT !["frame_sample"] = @ + 1]
      /\ requests' \in 0..MaxRequests
      /\ UNCHANGED <<movie, png, sha, pooled, pc, msg, job, seen, next, held, aborts>>
  BY DEF Request, disk, TypeOK
<1>2. /\ sent \subseteq Messages /\ \A m \in sent : m.job = SampleJob(v)
      /\ \E m \in sent : m.job = SampleJob(v)
  <2>1. id \in Nat /\ SampleJob(v) \in Jobs
    BY JobsOfVideo DEF TypeOK, TablesOK, Queues
  <2>2. [id |-> id + 1, job |-> SampleJob(v)] \in Messages
    BY <2>1 DEF Messages
  <2> QED
    BY <2>2
<1> HIDE DEF sent
<1>3. /\ status' \in [Jobs -> Statuses] /\ status'[SampleJob(v)] = "pending"
      /\ \A j \in Jobs : j # SampleJob(v) => status'[j] = status[j]
  BY <1>1, JobsOfVideo DEF TypeOK, TablesOK, Statuses
<1>4. /\ \A x \in Videos : status'[SampleJob(x)] = "completed" =>
                             status[SampleJob(x)] = "completed"
      /\ \A x \in Videos, s \in Secs : status'[EmbedJob(x, s)] = status[EmbedJob(x, s)]
  <2>1. \A x, s : EmbedJob(x, s) # SampleJob(v)
    BY JobsOfVideo
  <2> QED
    BY <1>3, <2>1, JobsOfVideo
<1>5. /\ queue'["frame_sample"] = queue["frame_sample"] \cup sent
      /\ queue'["embed_frames"] = queue["embed_frames"]
      /\ queue' \in [Queues -> SUBSET Messages] /\ lastId' \in [Queues -> Nat]
  BY <1>1, <1>2 DEF TypeOK, TablesOK, Queues
<1>6. QueuesOK'
  <2>1. \A m \in sent : StepOf(m.job) = "frame_sample" /\ status'[m.job] # "absent"
    BY <1>2, <1>3, JobsOfVideo
  <2>2. ASSUME NEW q \in Queues, NEW m \in queue[q]
        PROVE  StepOf(m.job) = q /\ status'[m.job] # "absent"
    <3>1. StepOf(m.job) = q /\ status[m.job] # "absent" /\ m.job \in Jobs
      BY DEF QueuesOK, TypeOK, TablesOK, Messages
    <3> QED
      BY <1>3, <3>1
  <2> QED
    BY <1>5, <2>1, <2>2 DEF QueuesOK, Queues
<1>7. NoLostWork'
  <2> SUFFICES ASSUME NEW j \in Jobs, status'[j] = "pending"
               PROVE  \E m \in queue'[StepOf(j)] : m.job = j
    BY DEF NoLostWork
  <2>1. CASE j = SampleJob(v)
    BY <1>2, <1>5, <2>1, JobsOfVideo
  <2>2. CASE j # SampleJob(v)
    <3>1. PICK m \in queue[StepOf(j)] : m.job = j
      BY <1>3, <2>2 DEF NoLostWork
    <3>2. queue[StepOf(j)] \subseteq queue'[StepOf(j)]
      BY <1>5, PartsOfJob DEF Queues
    <3> QED
      BY <3>1, <3>2
  <2> QED
    BY <2>1, <2>2
<1>8. AuditTrail' /\ OwnPosition' /\ VisualIsCurrent'
  BY <1>1, <1>4 DEF AuditTrail, OwnPosition, VisualIsCurrent
<1>9. Lanes'
  <2>1. Frame({SampleJob(v)})
    BY <1>1, <1>3, <1>4 DEF Frame
  <2> SUFFICES ASSUME NEW u \in Workers  PROVE ControlOf(u)' /\ LocksOf(u)' /\ ViewOf(u)'
    BY DEF Lanes
  <2>2. {SampleJob(v)} \cap held[u] = {}
    BY <1>1
  <2> QED
    BY <1>1, <2>1, <2>2, LaneKept
<1> QED
  BY <1>1, <1>3, <1>5, <1>6, <1>7, <1>8, <1>9 DEF TypeOK, TablesOK, WorkersOK, Exclusive

\* A staged video is seen when it is sampled, not before.
LEMMA StageInv ==
  ASSUME IInv, NEW v \in Videos, Stage(v)
  PROVE  IInv'
<1> USE DEF IInv
<1>1. /\ UNCHANGED <<png, sha, pooled, status, queue, lastId>>
      /\ UNCHANGED <<pc, msg, job, seen, next, held, requests, aborts>>
      /\ movie' \in [Videos -> 0..MaxVersion]
  BY DEF Stage, database, bounds, TypeOK, TablesOK
<1>2. Lanes'
  <2>1. Frame({})
    BY <1>1 DEF Frame
  <2> SUFFICES ASSUME NEW u \in Workers  PROVE ControlOf(u)' /\ LocksOf(u)' /\ ViewOf(u)'
    BY DEF Lanes
  <2> QED
    BY <1>1, <2>1, LaneKept
<1> QED
  BY <1>1, <1>2 DEF TypeOK, TablesOK, WorkersOK, QueuesOK, Exclusive, AuditTrail,
                    OwnPosition, VisualIsCurrent, NoLostWork

\* Before the first request no row and no frame exists.
LEMMA InitIInv == Init => IInv
<1> SUFFICES ASSUME Init  PROVE IInv
  OBVIOUS
<1>1. TypeOK /\ QueuesOK
  BY DEF Init, TypeOK, TablesOK, WorkersOK, Images, Statuses, Labels, QueuesOK
<1>2. Exclusive /\ Lanes
  BY DEF Init, Exclusive, Lanes, ControlOf, LocksOf, ViewOf, InSample, InEmbed, Sampling,
         InLoop
<1>3. AuditTrail /\ OwnPosition /\ VisualIsCurrent /\ NoLostWork
  BY JobsOfVideo DEF Init, AuditTrail, OwnPosition, VisualIsCurrent, NoLostWork
<1> QED
  BY <1>1, <1>2, <1>3 DEF IInv

\* Every step keeps the invariant.
LEMMA NextIInv == IInv /\ [Next]_vars => IInv'
<1> SUFFICES ASSUME IInv, [Next]_vars  PROVE IInv'
  OBVIOUS
<1>1. ASSUME NEW w \in Workers, Work(w)  PROVE IInv'
  <2>1. CASE Fails(w)
    BY <2>1, RollbackInv DEF Fails, IInv, TypeOK
  <2> QED
    BY <1>1, <2>1, ReadInv, ClaimInv, AcknowledgeInv, PurgeInv, OpenVideoInv, RenderInv, UpsertInv,
       FinishFramesInv, ReadImageInv, FinishEmbedInv DEF Work
<1>2. ASSUME NEW w \in Workers, DeadlockVictim(w)  PROVE IInv'
  BY <1>2, RollbackInv DEF DeadlockVictim, IInv, TypeOK
<1>3. ASSUME NEW w \in Workers, Abort(w)  PROVE IInv'
  BY <1>3, RollbackInv DEF Abort, IInv, TypeOK
<1>4. ASSUME NEW v \in Videos, Request(v) \/ Stage(v)  PROVE IInv'
  BY <1>4, RequestInv, StageInv
<1>5. CASE UNCHANGED vars
  <2>1. /\ UNCHANGED <<movie, png, sha, pooled, status, queue, lastId>>
        /\ UNCHANGED <<pc, msg, job, seen, next, held, requests, aborts>>
    BY <1>5 DEF vars, disk, database, bounds
  <2>2. Lanes'
    <3>1. Frame({})
      BY <2>1 DEF Frame
    <3> SUFFICES ASSUME NEW u \in Workers  PROVE ControlOf(u)' /\ LocksOf(u)' /\ ViewOf(u)'
      BY DEF Lanes
    <3> QED
      BY <2>1, <3>1, LaneKept DEF IInv
  <2> QED
    BY <2>1, <2>2 DEF IInv, TypeOK, TablesOK, WorkersOK, QueuesOK, Exclusive, AuditTrail,
                      OwnPosition, VisualIsCurrent, NoLostWork
<1> QED
  BY <1>1, <1>2, <1>3, <1>4, <1>5 DEF Next, Drained

\* The invariant holds throughout.
LEMMA AlwaysIInv == Spec => []IInv
BY InitIInv, NextIInv, PTL DEF Spec

\* Every variable of the lane keeps its type.
THEOREM TypeCorrect == Spec => []TypeOK
BY AlwaysIInv, PTL DEF IInv

\* The files of a sampled video are one whole sample, with the hashes the
\* frames rows record, wherever processes die between the purge and the commit.
THEOREM FilesAreAudited == Spec => []AuditTrail
BY AlwaysIInv, PTL DEF IInv

\* However sampling and embedding of a video interleave: a frame of the sample
\* is searched by the vectors of its file, or not at all; a row a longer earlier
\* sample left, by those of a version that had a frame there, or not at all.
THEOREM VectorsAreCurrent == Spec => []VisualIsCurrent
BY AlwaysIInv, PTL DEF IInv

\* No pending row of the lane is ever without a message.
THEOREM WorkNeverLost == Spec => []NoLostWork
BY AlwaysIInv, PTL DEF IInv
=============================================================================
