---------------------------- MODULE CorpusState -----------------------------
(***************************************************************************)
(* What the runs of ingest.cli_all keep and share: the phase and the outcome*)
(* of the run, the tables and the queues; and what an exit code and the rows*)
(* promise.                                                                *)
(***************************************************************************)
EXTENDS Catalog, Naturals, Sequences, FiniteSets

CONSTANTS
  Corpora,    \* directories under eval/corpora
  CorpusOf,   \* CorpusOf[t]: the corpus whose talks.yaml lists t
  Visual,     \* talks with a visual format tag
  Gold,       \* talks some gold example of their corpus refers to
  Empty,      \* talks whose transcript gives no chunks
  MaxRuns     \* bound: runs of the driver

ASSUME CorpusAssumption == CorpusOf \in [Talks -> Corpora]
ASSUME SubsetsAssumption == Visual \cup Gold \cup Empty \subseteq Talks
ASSUME MaxRunsAssumption == MaxRuns \in Nat

VARIABLES
  pc,        \* the phase of main, "idle" when no run is going on
  corpus,    \* --corpus of the run
  todo,      \* talks it has yet to reconcile
  failed,    \* talks whose fetch_reconcile failed
  gate,      \* which case of the visual gate applied
  code,      \* how the last run ended
  status,    \* ingest_step_status
  queue,     \* queue[q]: the talks its messages are about, oldest first
  chunked,   \* talks with chunks
  embedded,  \* talks all of whose chunks have all embeddings
  runs       \* runs started

Steps == {"chunk", "embed_text", "frame_sample", "embed_frames"}
Jobs == Steps \X Talks
TalksOf(c) == {t \in Talks : CorpusOf[t] = c}
Complete(t) == t \in chunked \cap embedded

-----------------------------------------------------------------------------
\* Exit code 0 means the corpus is done.  The text of every talk, gold or not,
\* is chunked and every chunk embedded; the visual lane too, unless the corpus
\* has none or no video was staged: with some videos missing no run passes.
\* Hazard: readiness only looks at the gold talks, an earlier run may have died
\* in any phase, and the queues also hold the work of other corpora.
ZeroMeansDone ==
  pc = "idle" /\ code = "zero" =>
    /\ \A t \in TalksOf(corpus) :
         /\ status[<<"chunk", t>>] = "completed"
         /\ t \notin Empty => Complete(t)
         /\ status[<<"embed_text", t>>] # "pending"
    /\ gate \notin {"no_visual", "unstaged"} =>
         \A t \in Visual \cap TalksOf(corpus) :
           /\ status[<<"frame_sample", t>>] = "completed"
           /\ status[<<"embed_frames", t>>] # "pending"

\* A run that fails loses nothing: what is pending has a message, so the next
\* run finds it.
PendingIsQueued ==
  \A j \in Jobs :
    status[j] = "pending" => \E i \in DOMAIN queue[j[1]] : queue[j[1]][i] = j[2]
=============================================================================
