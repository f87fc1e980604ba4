---------------------------- MODULE CorpusDriver ----------------------------
(***************************************************************************)
(* ingest.cli_all: one process reconciles every talk of a corpus, drains   *)
(* the text queues, drains the visual queues when the videos are staged,   *)
(* and exits with a code.  It is run again and again, for one corpus or    *)
(* another: the tables and the queues are shared by all corpora and keep   *)
(* what earlier runs left.  Meanwhile the operator stages and removes      *)
(* video files.                                                            *)
(*                                                                         *)
(* A fan-out is one message per talk, and process_one is one step (its     *)
(* statements are those of IngestWorkers and FramesWorkers; here one       *)
(* process runs at a time).                                                *)
(***************************************************************************)
EXTENDS CorpusState

VARIABLE staged  \* video files on disk

run == <<corpus, todo, failed, gate, code>>
tables == <<status, queue, chunked, embedded>>
vars == <<pc, run, tables, staged, runs>>

Done == {"completed", "skipped"}

Init ==
  /\ pc = "idle" /\ corpus \in Corpora /\ todo = {} /\ failed = {}
  /\ gate = "none" /\ code = "none"
  /\ status = [j \in Jobs |-> "absent"]
  /\ queue = [q \in Steps |-> <<>>]
  /\ chunked = {} /\ embedded = {}
  /\ staged \in SUBSET Movies
  /\ runs = 0

Start(c) ==
  /\ pc = "idle" /\ runs < MaxRuns
  /\ pc' = "fetch" /\ corpus' = c /\ todo' = TalksOf(c) /\ failed' = {}
  /\ gate' = "none" /\ code' = "none"
  /\ runs' = runs + 1
  /\ UNCHANGED <<tables, staged>>

-----------------------------------------------------------------------------
\* fetch_reconcile per talk, in any order; a failure is noted and the next
\* talk is tried.
Reconcile(t) ==
  /\ pc = "fetch" /\ t \in todo
  /\ todo' = todo \ {t}
  /\ status' = [status EXCEPT
       ![<<"chunk", t>>] = "pending",
       ![<<"frame_sample", t>>] = IF t \in Visual THEN "pending" ELSE "skipped"]
  /\ queue' = [queue EXCEPT
       !["chunk"] = Append(@, t),
       !["frame_sample"] = IF t \in Visual THEN Append(@, t) ELSE @]
  /\ UNCHANGED <<pc, corpus, failed, gate, code, chunked, embedded, staged, runs>>

\* Bug: the failure is printed and forgotten.
ReconcileForgotten(t) ==
  /\ pc = "fetch" /\ t \in todo
  /\ todo' = todo \ {t}
  /\ UNCHANGED <<pc, corpus, failed, gate, code, tables, staged, runs>>

ReconcileFails(t) ==
  /\ pc = "fetch" /\ t \in todo
  /\ todo' = todo \ {t}
  /\ failed' = failed \cup {t}
  /\ UNCHANGED <<pc, corpus, gate, code, tables, staged, runs>>

Goto(at, to) ==
  /\ pc = at /\ pc' = to
  /\ UNCHANGED <<run, tables, staged, runs>>

Fetched == todo = {} /\ Goto("fetch", "chunk")

-----------------------------------------------------------------------------
\* _drain: process_one on the oldest message until the queue is empty.

Polled(q) == pc = q /\ queue[q] # <<>>

\* The message is archived, and the row is completed by its handler unless it
\* was done before; a handler may fan out to another queue.
Serve(q, fanOut) ==
  LET t == Head(queue[q]) IN
  /\ status' = [j \in Jobs |->
       IF j = <<q, t>> THEN "completed"
       ELSE IF \E f \in fanOut : j = <<f, t>> THEN "pending"
       ELSE status[j]]
  /\ queue' = [p \in Steps |->
       IF p = q THEN Tail(queue[p])
       ELSE IF p \in fanOut THEN Append(queue[p], t)
       ELSE queue[p]]

ServeOnly(q) == Serve(q, {}) /\ UNCHANGED <<chunked, embedded>>

AlreadyDone(q) ==
  /\ Polled(q)
  /\ status[<<q, Head(queue[q])>>] \in Done
  /\ queue' = [queue EXCEPT ![q] = Tail(@)]
  /\ UNCHANGED <<pc, run, status, chunked, embedded, staged, runs>>

\* chunk_handler: no chunks, the chunks there were, or new ones as well.
Chunk ==
  LET t == Head(queue["chunk"]) IN
  IF t \in Empty THEN ServeOnly("chunk")
  ELSE /\ Serve("chunk", {"embed_text"})
       /\ chunked' = chunked \cup {t}
       /\ embedded' \in {embedded, embedded \ {t}}

EmbedText ==
  /\ Serve("embed_text", {})
  /\ embedded' = embedded \cup {Head(queue["embed_text"])}
  /\ UNCHANGED chunked

FrameSample ==
  LET t == Head(queue["frame_sample"]) IN
  /\ MovieOf[t] \in staged
  /\ \/ Serve("frame_sample", {"embed_frames"})
     \/ Serve("frame_sample", {})
  /\ UNCHANGED <<chunked, embedded>>

Handle(q) ==
  /\ Polled(q)
  /\ status[<<q, Head(queue[q])>>] = "pending"
  /\ CASE q = "chunk" -> Chunk
       [] q = "embed_text" -> EmbedText
       [] q = "frame_sample" -> FrameSample
       [] q = "embed_frames" -> ServeOnly(q)
  /\ UNCHANGED <<pc, run, staged, runs>>

VideoMissing(q) ==
  q = "frame_sample" /\ MovieOf[Head(queue[q])] \notin staged

\* Bug: process_one is not in a transaction, so its read and claim stay when
\* the handler raises.
HandlerRaisesOutside(q) ==
  /\ Polled(q)
  /\ status[<<q, Head(queue[q])>>] = "pending"
  /\ pc' = "idle"
  /\ code' = IF VideoMissing(q) THEN "no_video" ELSE "raised"
  /\ queue' = [queue EXCEPT ![q] = Tail(@)]
  /\ UNCHANGED <<corpus, todo, failed, gate, status, chunked, embedded, staged, runs>>

\* The handler raises, for want of the video or for any other reason: its
\* transaction rolls back, the message stays where it was, and the exception
\* leaves _drain and main.
HandlerRaises(q) ==
  /\ Polled(q)
  /\ status[<<q, Head(queue[q])>>] = "pending"
  /\ pc' = "idle"
  /\ code' = IF VideoMissing(q) THEN "no_video" ELSE "raised"
  /\ UNCHANGED <<corpus, todo, failed, gate, tables, staged, runs>>

DrainedTo(q, to) == queue[q] = <<>> /\ Goto(q, to)

-----------------------------------------------------------------------------
\* The visual gate.

Required == {MovieOf[t] : t \in Visual \cap TalksOf(corpus)}

GateCase ==
  IF Required = {} THEN "no_visual"
  ELSE IF Required \cap staged = {} THEN "unstaged"
  ELSE IF Required \subseteq staged THEN "all"
  ELSE "partial"

Gate ==
  /\ pc = "gate"
  /\ gate' = GateCase
  /\ pc' = IF GateCase = "all" THEN "frame_sample" ELSE "report"
  /\ UNCHANGED <<corpus, todo, failed, code, tables, staged, runs>>

-----------------------------------------------------------------------------
\* readiness.for_corpus and the exit code.

ExitCode ==
  IF \/ failed # {}
     \/ \E t \in Gold \cap TalksOf(corpus) : ~Complete(t)
     \/ gate = "partial"
  THEN "one" ELSE "zero"

Report ==
  /\ pc = "report"
  /\ code' = ExitCode
  /\ pc' = "idle"
  /\ UNCHANGED <<corpus, todo, failed, gate, tables, staged, runs>>

-----------------------------------------------------------------------------
StageOrRemove(m) ==
  /\ staged' = IF m \in staged THEN staged \ {m} ELSE staged \cup {m}
  /\ UNCHANGED <<pc, run, tables, runs>>

\* A step of a run that has started.
Step ==
  \/ \E t \in Talks : Reconcile(t) \/ ReconcileFails(t)
  \/ Fetched
  \/ \E q \in Steps : AlreadyDone(q) \/ Handle(q) \/ HandlerRaises(q)
  \/ DrainedTo("chunk", "embed_text") \/ DrainedTo("embed_text", "gate")
  \/ Gate
  \/ DrainedTo("frame_sample", "embed_frames") \/ DrainedTo("embed_frames", "report")
  \/ Report

Next ==
  \/ Step
  \/ \E c \in Corpora : Start(c)
  \/ \E m \in Movies : StageOrRemove(m)

Spec == Init /\ [][Next]_vars
=============================================================================
