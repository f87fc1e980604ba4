----------------------------- MODULE IngestJobs -----------------------------
(***************************************************************************)
(* What the text-ingest lane promises: every operation happens at once.    *)
(* fetch_reconcile records a transcript and asks for its chunks; a chunk   *)
(* job cuts a transcript no older than the recorded one and asks for the   *)
(* embedding of every chunk it wrote; an embed job embeds the text its     *)
(* chunk has at that moment; a message of a job already done is dropped.   *)
(* IngestWorkers, where each of these is a transaction of several SQL      *)
(* statements that interleaves with others and may roll back, implements   *)
(* this specification.                                                     *)
(***************************************************************************)
EXTENDS IngestSchema

VARIABLES
  file,      \* file[v]: version of the transcript file on disk
  talk,      \* talk[v]: version whose sha256 the talks row records, 0: no row
  text,      \* text[v][s]: version the chunk's text comes from, 0: no chunk
  embed,     \* embed[v][s]: version its three embeddings encode, 0: none
  status,    \* status[j]: the status column, "absent": no row
  attempts,  \* attempts[j]: the attempts column
  queue,     \* queue[q]: unarchived messages
  lastId     \* lastId[q]: last msg_id handed out

vars == <<file, talk, text, embed, status, attempts, queue, lastId>>

Init ==
  /\ file = [v \in Videos |-> 1]
  /\ talk = [v \in Videos |-> 0]
  /\ text = [v \in Videos |-> [s \in Spans |-> 0]]
  /\ embed = [v \in Videos |-> [s \in Spans |-> 0]]
  /\ status = [j \in Jobs |-> "absent"]
  /\ attempts = [j \in Jobs |-> 0]
  /\ queue = [q \in Queues |-> {}]
  /\ lastId = [q \in Queues |-> 0]

\* The operator replaces the transcript (scripts and editors, not ingest).
Edit(v) ==
  /\ file[v] < MaxVersion
  /\ file' = [file EXCEPT ![v] = @ + 1]
  /\ UNCHANGED <<talk, text, embed, status, attempts, queue, lastId>>

\* The hash and the quality probe read the file at two moments, so each may
\* have seen any version up to the current one.
Reconcile(v, hashed, probed) ==
  LET sends == ReconcileSends(v, probed) IN
  /\ talk' = [talk EXCEPT ![v] = hashed]
  /\ status' = ReconciledStatus(status, v, probed)
  /\ queue' = [q \in Queues |-> queue[q] \cup Sent(lastId[q], sends[q])]
  /\ lastId' = [q \in Queues |-> lastId[q] + Len(sends[q])]
  /\ UNCHANGED <<file, text, embed, attempts>>

Chunk(m, n) ==
  LET v == VideoOf(m.job)
      batch == ChunkSends(v, n)
  IN
  /\ status[m.job] = "pending"
  /\ text' = ChunkedText(text, v, n)
  /\ status' = ChunkedStatus(status, v, n)
  /\ attempts' = [attempts EXCEPT ![m.job] = @ + 1]
  /\ queue' = [queue EXCEPT
                 !["chunk"] = @ \ {m},
                 !["embed_text"] = @ \cup Sent(lastId["embed_text"], batch)]
  /\ lastId' = [lastId EXCEPT !["embed_text"] = @ + Len(batch)]
  /\ UNCHANGED <<file, talk, embed>>

EmbedText(m) ==
  LET v == VideoOf(m.job)
      s == SpanOf(m.job)
  IN
  /\ status[m.job] = "pending"
  /\ text[v][s] # 0
  /\ embed' = [embed EXCEPT ![v][s] = text[v][s]]
  /\ status' = [status EXCEPT ![m.job] = "completed"]
  /\ attempts' = [attempts EXCEPT ![m.job] = @ + 1]
  /\ queue' = [queue EXCEPT !["embed_text"] = @ \ {m}]
  /\ UNCHANGED <<file, talk, text, lastId>>

Drop(q, m) ==
  /\ status[m.job] \in Done
  /\ queue' = [queue EXCEPT ![q] = @ \ {m}]
  /\ UNCHANGED <<file, talk, text, embed, status, attempts, lastId>>

Next ==
  \/ \E v \in Videos : Edit(v)
  \/ \E v \in Videos : \E hashed, probed \in 1..file[v] :
       Reconcile(v, hashed, probed)
  \/ \E m \in queue["chunk"] :
       \E n \in talk[VideoOf(m.job)]..file[VideoOf(m.job)] : Chunk(m, n)
  \/ \E m \in queue["embed_text"] : EmbedText(m)
  \/ \E q \in {"chunk", "embed_text"} : \E m \in queue[q] : Drop(q, m)

Spec == Init /\ [][Next]_vars
=============================================================================
