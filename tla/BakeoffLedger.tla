---------------------------- MODULE BakeoffLedger ----------------------------
(***************************************************************************)
(* The tables eval_runs and eval_results, and the scripts that fill them   *)
(* at the same time: the embeddings bakeoff (which locks its winner), the  *)
(* generator bakeoff, the visual evaluation, and the preparation sweep.    *)
(* All but the sweep write a run in one transaction; the sweep's           *)
(* connection commits every statement.  A statement may raise and a        *)
(* process may die between any two.                                        *)
(***************************************************************************)
EXTENDS Integers, Sequences, FiniteSets, SequencesExt

CONSTANTS
  Embedders,    \* processes running run_embeddings_bakeoff
  Generators,   \* processes running run_generator_bakeoff
  Visuals,      \* processes running run_visual_eval
  Sweepers,     \* processes running run_bakeoff_prep_sweep
  Casts,        \* the sets of processes that run together
  SweepId,      \* SweepId[s]: the --sweep-id of a sweeper
  Examples,     \* the gold examples, in file order
  Measured,     \* what a bakeoff may measure: sets of candidates
  GeneratorIds, \* the candidates of the generator bakeoff, in order
  TieBreakPp    \* selection_rule.tie_break_pp; scores are in points

Writers == Embedders \cup Generators \cup Visuals
Processes == Writers \cup Sweepers

ASSUME CastAssumption == UNION Casts \subseteq Processes
\* A process runs one script.
ASSUME ScriptsAssumption ==
  /\ Embedders \cap Generators = {} /\ Embedders \cap Visuals = {}
  /\ Generators \cap Visuals = {} /\ Sweepers \cap Writers = {}
\* A sweep's id is not one of the uuids the writers name their runs by.
ASSUME SweepAssumption ==
  Sweepers \subseteq DOMAIN SweepId /\ \A s \in Sweepers : SweepId[s] \notin Writers
ASSUME ExamplesAssumption == Examples \in Seq(ToSet(Examples))
\* A candidate has one measurement; scores and prices are not negative.
ASSUME MeasuredAssumption ==
  \A m \in Measured :
    /\ IsFiniteSet(m)
    /\ \A c \in m : c.id \in Nat \ {0} /\ c.score \in Nat /\ c.price \in Nat
    /\ \A c, d \in m : c.id = d.id => c = d
\* GENERATOR_IDS names every candidate once, and at least one.
ASSUME GeneratorsAssumption ==
  /\ GeneratorIds \in Seq(Nat \ {0}) /\ GeneratorIds # <<>>
  /\ \A i, j \in DOMAIN GeneratorIds : GeneratorIds[i] = GeneratorIds[j] => i = j
ASSUME TieAssumption == TieBreakPp \in Nat

VARIABLES
  runs,     \* eval_runs, what is committed of it
  results,  \* eval_results, likewise
  clock,    \* now() of the next transaction
  pc, code, \* of each process: the next statement; how it ended
  todo,     \* of a writer: the runs it has yet to write
  left,     \* examples of the current run, or of the sweep, yet to come
  tx        \* a writer's transaction: when it began, what it wrote

tables == <<runs, results, clock>>
vars == <<tables, pc, code, todo, left, tx>>

NoCandidate == 0   \* candidates are numbered in the order of their ids
NoScore == -1      \* a generator of which no answer was judged
NoTx == [at |-> -1, rows |-> {}, results |-> {}]

Row(id, path, component, measured, lock) ==
  [id |-> id, path |-> path, strategy |-> "fixed_window", component |-> component,
   measured |-> measured, lock |-> lock]

-----------------------------------------------------------------------------
\* The selection rule of ADR 004, which both bakeoffs have their own copy of.

\* The order of the sort key: price, then score from the top, then id.
Before(c, d) ==
  \/ c.price < d.price
  \/ c.price = d.price /\ c.score > d.score
  \/ c.price = d.price /\ c.score = d.score /\ c.id < d.id

First(band) == CHOOSE c \in band : \A d \in band \ {c} : Before(c, d)

Band(eligible) ==
  {c \in eligible : \A d \in eligible : c.score >= d.score - TieBreakPp}

Eligible(measured) == {c \in measured : c.meets}

\* Bug: the leader is sought among all candidates.
SelectWinnerAmongAll(measured) ==
  IF Eligible(measured) = {} THEN NoCandidate
  ELSE First({c \in measured : \A d \in measured : c.score >= d.score - TieBreakPp}).id

SelectWinner(measured) ==
  IF Eligible(measured) = {} THEN NoCandidate ELSE First(Band(Eligible(measured))).id

SelectGeneratorWinner(measured) ==
  LET eligible == {c \in Eligible(measured) : c.score # NoScore} IN
  IF eligible = {} THEN NoCandidate ELSE First(Band(eligible)).id

-----------------------------------------------------------------------------
\* db.repos.eval_runs.

\* insert_run, in a transaction that began at that time.  The winner is not
\* locked yet.
Inserted(row, at, by) ==
  [id |-> row.id, path |-> row.path, strategy |-> row.strategy,
   component |-> row.component, measured |-> row.measured,
   winner |-> NoCandidate, created |-> at, by |-> by]

\* insert_result.
Result(run, example, by) == [run |-> run, example |-> example, by |-> by]

LockBakeoffWinner(rows, id, candidate) ==
  {IF r.id = id /\ r.strategy = "fixed_window"
   THEN [r EXCEPT !.winner = candidate] ELSE r : r \in rows}

Locked(component, path) ==
  {r \in runs : /\ r.winner # NoCandidate /\ r.component = component
                /\ r.strategy = "fixed_window" /\ r.path = path}

\* Bug: the oldest lock is served.
FirstLock(component, path) ==
  {r \in Locked(component, path) :
     \A s \in Locked(component, path) : r.created <= s.created}

\* load_bakeoff_winner's row: the newest locked one, none if there is none.
LoadBakeoffWinner(component, path) ==
  {r \in Locked(component, path) :
     \A s \in Locked(component, path) : r.created >= s.created}

-----------------------------------------------------------------------------
\* What the scripts do before they write.

Init ==
  /\ runs = {} /\ results = {} /\ clock = 0
  /\ \E cast \in Casts :
       pc = [p \in Processes |->
               IF p \notin cast THEN "off"
               ELSE IF p \in Sweepers THEN "example" ELSE "measure"]
  /\ code = [p \in Processes |-> "none"]
  /\ todo = [p \in Writers |-> <<>>]
  /\ left = [p \in Processes |-> IF p \in Sweepers THEN Examples ELSE <<>>]
  /\ tx = [p \in Writers |-> NoTx]

Exit(p, c) ==
  /\ pc' = [pc EXCEPT ![p] = "done"]
  /\ code' = [code EXCEPT ![p] = c]
  /\ UNCHANGED <<tables, todo, left, tx>>

Plan(p, rows) ==
  /\ todo' = [todo EXCEPT ![p] = rows]
  /\ pc' = [pc EXCEPT ![p] = "begin"]
  /\ UNCHANGED <<tables, code, left, tx>>

EmbeddingsRun(p, m) ==
  Row(<<p, NoCandidate>>, "embeddings_bakeoff", "text_embeddings", m, SelectWinner(m))

GeneratorRun(p, candidate) ==
  Row(<<p, candidate>>, "minimal_generation", "generator", {}, NoCandidate)

VisualRun(p) ==
  Row(<<p, NoCandidate>>, "visual_eval", "visual_retrieval", {}, NoCandidate)

\* run_embeddings_bakeoff: a --measurements-json of the wrong shape, a dry
\* run, or a run to write, with a lock if a candidate meets the minimums.
MeasureEmbeddings(p) ==
  /\ p \in Embedders /\ pc[p] = "measure"
  /\ \/ Exit(p, "two")
     \/ \E m \in Measured :
          \/ Exit(p, IF Eligible(m) = {} THEN "one" ELSE "zero")
          \/ Plan(p, <<EmbeddingsRun(p, m)>>)

\* run_generator_bakeoff: every candidate is measured before the first one is
\* written, and no winner is ever locked.
MeasureGenerators(p) ==
  /\ p \in Generators /\ pc[p] = "measure"
  /\ \/ Exit(p, "zero")
     \/ Plan(p, [i \in DOMAIN GeneratorIds |-> GeneratorRun(p, GeneratorIds[i])])

\* run_visual_eval: no gold, nothing ingested for a gold video, a dry run; or
\* one run without a lock.
MeasureVisual(p) ==
  /\ p \in Visuals /\ pc[p] = "measure"
  /\ \/ Exit(p, "zero")
     \/ Plan(p, <<VisualRun(p)>>)

-----------------------------------------------------------------------------
\* with psycopg.connect(...): one transaction per run.

Goto(p, from, to) == pc[p] = from /\ pc' = [pc EXCEPT ![p] = to]

Begin(p) ==
  /\ Goto(p, "begin", "run")
  /\ tx' = [tx EXCEPT ![p] = [at |-> clock, rows |-> {}, results |-> {}]]
  /\ clock' = clock + 1
  /\ UNCHANGED <<runs, results, code, todo, left>>

\* Bug: the connection is opened with autocommit=True.
InsertRunAutocommit(p) ==
  /\ Goto(p, "run", "results")
  /\ runs' = runs \cup {Inserted(Head(todo[p]), tx[p].at, p)}
  /\ left' = [left EXCEPT ![p] = Examples]
  /\ UNCHANGED <<results, clock, code, todo, tx>>

InsertRun(p) ==
  /\ Goto(p, "run", "results")
  /\ tx' = [tx EXCEPT ![p].rows = {Inserted(Head(todo[p]), tx[p].at, p)}]
  /\ left' = [left EXCEPT ![p] = Examples]
  /\ UNCHANGED <<tables, code, todo>>

\* One result per example, in their order.
InsertResult(p) ==
  /\ pc[p] = "results" /\ left[p] # <<>>
  /\ tx' = [tx EXCEPT ![p].results =
       @ \cup {Result(Head(todo[p]).id, Head(left[p]), p)}]
  /\ left' = [left EXCEPT ![p] = Tail(@)]
  /\ UNCHANGED <<tables, pc, code, todo>>

\* The lock, written last, if the run has a winner.
LockWinner(p) ==
  /\ left[p] = <<>>
  /\ Goto(p, "results", "commit")
  /\ tx' = IF Head(todo[p]).lock = NoCandidate THEN tx
           ELSE [tx EXCEPT ![p].rows =
                   LockBakeoffWinner(@, Head(todo[p]).id, Head(todo[p]).lock)]
  /\ UNCHANGED <<tables, code, todo, left>>

ExitCode(p) ==
  IF p \in Embedders /\ Head(todo[p]).lock = NoCandidate THEN "one" ELSE "zero"

Commit(p) ==
  /\ pc[p] = "commit"
  /\ runs' = runs \cup tx[p].rows
  /\ results' = results \cup tx[p].results
  /\ tx' = [tx EXCEPT ![p] = NoTx]
  /\ todo' = [todo EXCEPT ![p] = Tail(@)]
  /\ pc' = [pc EXCEPT ![p] = IF Len(todo[p]) = 1 THEN "done" ELSE "begin"]
  /\ code' = [code EXCEPT ![p] = IF Len(todo[p]) = 1 THEN ExitCode(p) ELSE @]
  /\ UNCHANGED <<clock, left>>

\* A statement raises, or the process dies: the transaction rolls back, the
\* runs not yet written are forgotten.
Dies(p) ==
  /\ pc[p] \in {"measure", "begin", "run", "results", "commit"}
  /\ pc' = [pc EXCEPT ![p] = "dead"]
  /\ tx' = [tx EXCEPT ![p] = NoTx]
  /\ todo' = [todo EXCEPT ![p] = <<>>]
  /\ UNCHANGED <<tables, code, left>>

-----------------------------------------------------------------------------
\* run_bakeoff_prep_sweep: one run, with one result, per example; the run's id
\* is made of --sweep-id and the example's.

SweepRun(s) == <<SweepId[s], Head(left[s])>>

SweepRow(s) ==
  Inserted(Row(SweepRun(s), "minimal_generation", "minimal_generation_sweep", {},
               NoCandidate), clock, s)

\* Retrieval raises or finds no chunk, or the provider fails: the next example.
Skip(s) ==
  /\ pc[s] = "example" /\ left[s] # <<>>
  /\ left' = [left EXCEPT ![s] = Tail(@)]
  /\ UNCHANGED <<tables, pc, code, todo, tx>>

\* Bug: INSERT ... ON CONFLICT DO NOTHING.
GenerateOverOld(s) ==
  /\ left[s] # <<>>
  /\ Goto(s, "example", "result")
  /\ runs' = IF \E r \in runs : r.id = SweepRun(s) THEN runs
             ELSE runs \cup {SweepRow(s)}
  /\ clock' = clock + 1
  /\ UNCHANGED <<results, code, todo, left, tx>>

\* The answer is generated and parsed, and the run's row committed at once.
GenerateForBakeoff(s) ==
  /\ left[s] # <<>>
  /\ Goto(s, "example", "result")
  /\ \A r \in runs : r.id # SweepRun(s)
  /\ runs' = runs \cup {SweepRow(s)}
  /\ clock' = clock + 1
  /\ UNCHANGED <<results, code, todo, left, tx>>

SweepResult(s) ==
  /\ Goto(s, "result", "example")
  /\ results' = results \cup {Result(SweepRun(s), Head(left[s]), s)}
  /\ left' = [left EXCEPT ![s] = Tail(@)]
  /\ UNCHANGED <<runs, clock, code, todo, tx>>

Written(s) == {r \in runs : r.by = s}

SweepEnds(s) ==
  /\ pc[s] = "example" /\ left[s] = <<>>
  /\ Exit(s, IF Written(s) = {} THEN "one" ELSE "zero")

\* Bug: whatever an example raises, the sweep goes on with the next one.
SweepGoesOn(s) ==
  /\ Goto(s, "result", "example")
  /\ left' = [left EXCEPT ![s] = Tail(@)]
  /\ UNCHANGED <<tables, code, todo, tx>>

\* An INSERT raises (the run's id is taken, the connection is lost), which is
\* no ProviderError, or the process dies.
SweepDies(s) ==
  /\ pc[s] \in {"example", "result"}
  /\ pc' = [pc EXCEPT ![s] = "dead"]
  /\ UNCHANGED <<tables, code, todo, left, tx>>

-----------------------------------------------------------------------------
Next ==
  \/ \E p \in Writers :
       \/ MeasureEmbeddings(p) \/ MeasureGenerators(p) \/ MeasureVisual(p)
       \/ Begin(p) \/ InsertRun(p) \/ InsertResult(p) \/ LockWinner(p) \/ Commit(p)
       \/ Dies(p)
  \/ \E s \in Sweepers :
       Skip(s) \/ GenerateForBakeoff(s) \/ SweepResult(s) \/ SweepEnds(s) \/ SweepDies(s)

Spec == Init /\ [][Next]_vars

-----------------------------------------------------------------------------
\* A bakeoff's or an evaluation's run is there with all of its results, and an
\* embeddings run with its lock exactly if a candidate met the minimums; or
\* nothing of it is there.  ("leaves zero partial state".)
RunsAreWhole ==
  /\ \A r \in runs : r.by \in Writers =>
       /\ {x.example : x \in {y \in results : y.run = r.id}} = ToSet(Examples)
       /\ r.by \in Embedders => (r.winner # NoCandidate <=> Eligible(r.measured) # {})
  /\ \A x \in results : \E r \in runs : r.id = x.run

\* The locked candidate met the minimums, none that did leads it by more than
\* the tie-break, and the cheaper ones that did are all out of the leader's
\* band: both copies of the rule would have chosen it.  And a bakeoff that
\* wrote its run and exits with 0 has its lock in the table: what is served
\* since is its winner or that of a bakeoff begun later.
LockedByRule ==
  /\ \A r \in runs : r.winner # NoCandidate =>
       /\ r.winner = SelectGeneratorWinner(r.measured)
       /\ \E c \in r.measured :
            /\ c.id = r.winner /\ c.meets
            /\ \A d \in r.measured : d.meets =>
                 /\ d.score <= c.score + TieBreakPp
                 /\ d.price < c.price =>
                      \E leader \in r.measured :
                        leader.meets /\ d.score < leader.score - TieBreakPp
  /\ \A p \in Embedders : code[p] = "zero" =>
       \A r \in Written(p) :
         /\ r.winner # NoCandidate
         /\ \E s \in LoadBakeoffWinner("text_embeddings", "embeddings_bakeoff") :
              s.created >= r.created

\* The embeddings winner in force only ever gives way to that of a bakeoff
\* that began later, in whatever order the bakeoffs commit.
WinnerAdvances ==
  [][LET now == LoadBakeoffWinner("text_embeddings", "embeddings_bakeoff") IN
     \A r \in now, s \in now' : r = s \/ r.created < s.created]_vars

\* The sweep's run and its result are two commits.  A run without its result is
\* that of the last example of a sweep that died or is about to write it, so a
\* sweep that exits with 0 left none; and two sweeps under one --sweep-id never
\* mix their runs and results.
SweepRows ==
  /\ \A x \in results : \E r \in runs : r.id = x.run /\ r.by = x.by
  /\ \A r \in runs : r.by \in Sweepers =>
       \/ \E x \in results : x.run = r.id
       \/ pc[r.by] \in {"result", "dead"} /\ r.id = SweepRun(r.by)
=============================================================================
