------------------------- MODULE BakeoffLedgerProofs -------------------------
(***************************************************************************)
(* Theorems about BakeoffLedger, for every cast of processes, every gold   *)
(* set and every measurement, proved with TLAPS.                           *)
(***************************************************************************)
EXTENDS BakeoffLedger, FiniteSetTheorems, TLAPS

-----------------------------------------------------------------------------
\* The selection rule.

\* A finite set that a relation orders strictly has a first element: a smallest
\* subset without one would lose the property with any of its elements.
LEMMA FirstOfOrder ==
  ASSUME NEW S, IsFiniteSet(S), S # {}, NEW R,
         \A x, y \in S : x # y => <<x, y>> \in R \/ <<y, x>> \in R,
         \A x, y, z \in S : <<x, y>> \in R /\ <<y, z>> \in R => <<x, z>> \in R
  PROVE  \E x \in S : \A y \in S \ {x} : <<x, y>> \in R
<1> DEFINE Bad == {T \in SUBSET S : T # {} /\ ~\E x \in T : \A y \in T \ {x} : <<x, y>> \in R}
           Smaller == StrictSubsetOrdering(S)
<1> SUFFICES ASSUME Bad # {}  PROVE FALSE
  OBVIOUS
<1>1. IsWellFoundedOn(Smaller, SUBSET S)
  BY ONLY IsFiniteSet(S), FS_StrictSubsetOrderingWellFounded, FS_FiniteSubsetsOfFinite
<1>2. Bad \subseteq SUBSET S
  OBVIOUS
<1> HIDE DEF Smaller
<1>3. PICK T \in Bad : \A U \in Bad : ~(<<U, T>> \in Smaller)
  <2> HIDE DEF Bad
  <2> QED
    BY ONLY <1>1, <1>2, Bad # {}, WFMin
<1>4. PICK c \in T : TRUE
  BY <1>3
<1>5. PICK f \in T \ {c} : \A y \in (T \ {c}) \ {f} : <<f, y>> \in R
  <2>1. T \ {c} # {}
    BY <1>3, <1>4
  <2>2. <<T \ {c}, T>> \in Smaller
    BY <1>3, <1>4 DEF Smaller, StrictSubsetOrdering
  <2> QED
    BY <1>3, <2>1, <2>2
<1>6. CASE <<f, c>> \in R
  <2>1. \A y \in T \ {f} : <<f, y>> \in R
    BY <1>5, <1>6
  <2> QED
    BY <1>3, <1>5, <2>1
<1>7. CASE <<c, f>> \in R
  <2>1. \A y \in T \ {c} : <<c, y>> \in R
    BY <1>3, <1>4, <1>5, <1>7
  <2> QED
    BY <1>3, <1>4, <2>1
<1> QED
  BY <1>3, <1>4, <1>5, <1>6, <1>7

\* A finite set of integers has a greatest element.
LEMMA Greatest ==
  ASSUME NEW S \in SUBSET Int, IsFiniteSet(S), S # {}
  PROVE  \E m \in S : \A x \in S : x <= m
<1> DEFINE R == {p \in Int \X Int : p[1] > p[2]}
<1>1. \A x, y \in S : x # y => <<x, y>> \in R \/ <<y, x>> \in R
  OBVIOUS
<1>2. \A x, y, z \in S : <<x, y>> \in R /\ <<y, z>> \in R => <<x, z>> \in R
  OBVIOUS
<1>3. \A x, y \in S : x \in Int /\ (<<x, y>> \in R => y <= x)
  OBVIOUS
<1> HIDE DEF R
<1>4. PICK m \in S : \A x \in S \ {m} : <<m, x>> \in R
  BY <1>1, <1>2, FirstOfOrder
<1>5. ASSUME NEW x \in S  PROVE x <= m
  <2>1. CASE x = m
    BY <1>3, <2>1
  <2>2. CASE x # m
    BY <1>3, <1>4, <2>2
  <2> QED
    BY <2>1, <2>2
<1> QED
  BY <1>5

\* Candidates as a bakeoff measures them.
Candidates(B) ==
  /\ IsFiniteSet(B)
  /\ \A c \in B : c.id \in Nat \ {0} /\ c.score \in Nat /\ c.price \in Nat
  /\ \A c, d \in B : c.id = d.id => c = d

\* The sort key puts one candidate of a band before all others.
LEMMA FirstOfBand ==
  ASSUME NEW B, Candidates(B), B # {}
  PROVE  First(B) \in B /\ \A d \in B \ {First(B)} : Before(First(B), d)
<1> DEFINE R == {p \in B \X B : Before(p[1], p[2])}
<1>1. \A c, d \in B : <<c, d>> \in R <=> Before(c, d)
  OBVIOUS
<1>2. \A c, d \in B : c # d => Before(c, d) \/ Before(d, c)
  BY DEF Candidates, Before
<1>3. \A c, d, e \in B : Before(c, d) /\ Before(d, e) => Before(c, e)
  BY DEF Candidates, Before
<1> HIDE DEF R
<1>4. PICK c \in B : \A d \in B \ {c} : <<c, d>> \in R
  <2>1. \A x, y \in B : x # y => <<x, y>> \in R \/ <<y, x>> \in R
    BY <1>1, <1>2
  <2>2. \A x, y, z \in B : <<x, y>> \in R /\ <<y, z>> \in R => <<x, z>> \in R
    BY <1>1, <1>3
  <2> QED
    BY <2>1, <2>2, FirstOfOrder DEF Candidates
<1>5. \A d \in B \ {c} : Before(c, d)
  BY <1>1, <1>4
<1> QED
  BY <1>5 DEF First

\* A band of candidates of which some meet the minimums is not empty.
LEMMA BandOfEligible ==
  ASSUME NEW E, Candidates(E), E # {}
  PROVE  /\ Candidates(Band(E)) /\ Band(E) # {} /\ Band(E) \subseteq E
         /\ \E leader \in E : \A d \in E : d.score <= leader.score
<1> DEFINE R == {p \in E \X E : \/ p[1].score > p[2].score
                                \/ p[1].score = p[2].score /\ p[1].id < p[2].id}
<1>1. \A c, d \in E : <<c, d>> \in R <=> \/ c.score > d.score
                                         \/ c.score = d.score /\ c.id < d.id
  OBVIOUS
<1> HIDE DEF R
<1>2. PICK leader \in E : \A d \in E \ {leader} : <<leader, d>> \in R
  <2>1. \A x, y \in E : x # y => <<x, y>> \in R \/ <<y, x>> \in R
    BY <1>1 DEF Candidates
  <2>2. \A x, y, z \in E : <<x, y>> \in R /\ <<y, z>> \in R => <<x, z>> \in R
    BY <1>1 DEF Candidates
  <2> QED
    BY <2>1, <2>2, FirstOfOrder DEF Candidates
<1>3. ASSUME NEW d \in E  PROVE d.score <= leader.score
  <2>1. d.score \in Nat /\ leader.score \in Nat
    BY DEF Candidates
  <2>2. CASE leader = d
    BY <2>1, <2>2
  <2>3. CASE leader # d
    <3>1. <<leader, d>> \in R
      BY <1>2, <2>3
    <3>2. \/ leader.score > d.score
          \/ leader.score = d.score /\ leader.id < d.id
      BY <1>1, <3>1
    <3> QED
      BY <2>1, <3>2
  <2> QED
    BY <2>2, <2>3
<1>4. leader \in Band(E)
  BY <1>3, TieAssumption DEF Band, Candidates
<1>5. Band(E) \subseteq E
  BY DEF Band
<1>6. Candidates(Band(E))
  BY <1>5, FS_Subset DEF Candidates
<1> QED
  BY <1>3, <1>4, <1>5, <1>6

\* What a bakeoff that measured m may lock.
ByRule(m, winner) ==
  \E c \in m :
    /\ c.id = winner /\ c.meets
    /\ \A d \in m : d.meets =>
         /\ d.score <= c.score + TieBreakPp
         /\ d.price < c.price =>
              \E leader \in m : leader.meets /\ d.score < leader.score - TieBreakPp

\* The rule selects a candidate exactly if one is eligible, and then the
\* cheapest of the leader's band; the generator bakeoff's copy, which also asks
\* for a score, selects the same.
LEMMA RuleSelects ==
  ASSUME NEW m \in Measured
  PROVE  /\ SelectWinner(m) \in Nat
         /\ SelectWinner(m) # NoCandidate <=> Eligible(m) # {}
         /\ SelectWinner(m) = SelectGeneratorWinner(m)
         /\ SelectWinner(m) # NoCandidate => ByRule(m, SelectWinner(m))
<1> DEFINE E == Eligible(m)
           B == Band(E)
<1>1. Candidates(E) /\ E = {c \in m : c.meets}
  <2>1. E \in SUBSET m /\ IsFiniteSet(m)
    BY MeasuredAssumption DEF Eligible
  <2>2. IsFiniteSet(E)
    BY <2>1, FS_Subset
  <2> QED
    BY <2>2, MeasuredAssumption DEF Candidates, Eligible
<1>2. {c \in E : c.score # NoScore} = E
  BY <1>1 DEF Candidates, NoScore
<1>3. SelectWinner(m) = SelectGeneratorWinner(m)
  BY <1>2 DEF SelectWinner, SelectGeneratorWinner
<1>4. CASE E = {}
  BY <1>3, <1>4 DEF SelectWinner, NoCandidate
<1>5. CASE E # {}
  <2>1. Candidates(B) /\ B # {} /\ B \subseteq E
    BY <1>1, <1>5, BandOfEligible
  <2>2. PICK leader \in E : \A d \in E : d.score <= leader.score
    BY <1>1, <1>5, BandOfEligible
  <2> DEFINE c == First(B)
  <2>3. c \in B /\ \A d \in B \ {c} : Before(c, d)
    BY <2>1, FirstOfBand
  <2>4. SelectWinner(m) = c.id
    BY <1>5 DEF SelectWinner
  <2> HIDE DEF c
  <2>5. c \in m /\ c \in E /\ c.meets /\ c.id \in Nat \ {0}
    BY <1>1, <2>1, <2>3 DEF Candidates
  <2>6. ASSUME NEW d \in m, d.meets
        PROVE  /\ d.score <= c.score + TieBreakPp
               /\ d.price < c.price => d.score < leader.score - TieBreakPp
    <3>1. d \in E /\ leader \in E
      BY <1>1, <2>2, <2>6
    <3>2. /\ d.score \in Nat /\ c.score \in Nat /\ leader.score \in Nat
          /\ d.price \in Nat /\ c.price \in Nat
      BY <2>5, <3>1, <1>1 DEF Candidates
    <3>3. d.score <= c.score + TieBreakPp
      BY <2>3, <3>1, <3>2, TieAssumption DEF Band
    <3>4. ASSUME d.price < c.price
          PROVE  d.score < leader.score - TieBreakPp
      <4>1. d \notin B
        BY <2>3, <3>2, <3>4 DEF Before
      <4>2. PICK e \in E : ~(d.score >= e.score - TieBreakPp)
        BY <3>1, <4>1 DEF Band
      <4>3. e.score <= leader.score /\ e.score \in Nat
        BY <1>1, <2>2, <4>2 DEF Candidates
      <4> QED
        BY <3>2, <4>2, <4>3, TieAssumption
    <3> QED
      BY <3>3, <3>4
  <2>7. leader \in m /\ leader.meets
    BY <1>1, <2>2
  <2>8. ByRule(m, SelectWinner(m))
    BY <2>4, <2>5, <2>6, <2>7 DEF ByRule
  <2> QED
    BY <1>3, <1>5, <2>4, <2>5, <2>8 DEF NoCandidate
<1> QED
  BY <1>4, <1>5


-----------------------------------------------------------------------------
\* The inductive invariant: what the tables hold, and what each script is about
\* to write.

WriterLabels == {"off", "measure", "begin", "run", "results", "commit", "done", "dead"}
SweepLabels == {"off", "example", "result", "done", "dead"}
Writing == {"run", "results", "commit"}
Active == Writing \cup {"begin"}

\* The runs a writer may plan.
PlannedRows(p) ==
  IF p \in Embedders THEN {EmbeddingsRun(p, m) : m \in Measured}
  ELSE IF p \in Generators
  THEN {GeneratorRun(p, GeneratorIds[i]) : i \in DOMAIN GeneratorIds}
  ELSE {VisualRun(p)}

AllRows == UNION {PlannedRows(p) : p \in Writers}
Ids == (Processes \cup {SweepId[s] : s \in Sweepers}) \X (Nat \cup ToSet(Examples))
Paths == {"embeddings_bakeoff", "minimal_generation", "visual_eval"}
Components ==
  {"text_embeddings", "generator", "visual_retrieval", "minimal_generation_sweep"}
LedgerRows ==
  [id : Ids, path : Paths, strategy : {"fixed_window"}, component : Components,
   measured : Measured \cup {{}}, winner : Nat, created : Nat, by : Processes]
ResultRows == [run : Ids, example : ToSet(Examples), by : Processes]

TypeOK ==
  /\ runs \in SUBSET LedgerRows /\ results \in SUBSET ResultRows /\ clock \in Nat
  /\ pc \in [Processes -> WriterLabels \cup SweepLabels]
  /\ \A p \in Writers : pc[p] \in WriterLabels
  /\ \A s \in Sweepers : pc[s] \in SweepLabels
  /\ code \in [Processes -> {"none", "zero", "one", "two"}]
  /\ todo \in [Writers -> Seq(AllRows)]
  /\ left \in [Processes -> Seq(ToSet(Examples))]
  /\ tx \in [Writers -> [at : Nat \cup {-1}, rows : SUBSET LedgerRows,
                         results : SUBSET ResultRows]]

\* What every committed run is: whose it is, which lock it has.
RunOf(r) ==
  /\ r.created < clock
  /\ r.by \in Writers => r.id[1] = r.by
  /\ r.by \in Sweepers => r.id[1] = SweepId[r.by]
  /\ r.winner # NoCandidate => r.by \in Embedders
  /\ r.by \in Embedders =>
       /\ r.path = "embeddings_bakeoff" /\ r.strategy = "fixed_window"
       /\ r.component = "text_embeddings"
       /\ r.measured \in Measured /\ r.winner = SelectWinner(r.measured)

Runs ==
  /\ \A r \in runs : RunOf(r)
  /\ \A r, s \in runs : r.created = s.created => r = s

\* What a writer still has to write: planned runs, under ids not taken yet.
PlanOf(p) ==
  /\ pc[p] = "measure" => Written(p) = {}
  /\ pc[p] \in Active =>
       /\ todo[p] \in Seq(PlannedRows(p)) /\ todo[p] # <<>>
       /\ \A i, j \in DOMAIN todo[p] : todo[p][i].id = todo[p][j].id => i = j
       /\ \A i \in DOMAIN todo[p] : \A r \in runs : r.id # todo[p][i].id
       /\ p \in Embedders => Len(todo[p]) = 1 /\ Written(p) = {}

\* The row a writer's transaction has written, once the lock is.
LockedRow(p) ==
  [Inserted(Head(todo[p]), tx[p].at, p) EXCEPT !.winner = Head(todo[p]).lock]

\* What an open transaction has written so far.
TransactionOf(p) ==
  /\ pc[p] \in Writing =>
       /\ tx[p].at \in Nat /\ tx[p].at < clock
       /\ \A r \in runs : r.created # tx[p].at
       /\ \A q \in Writers \ {p} : pc[q] \in Writing => tx[q].at # tx[p].at
  /\ pc[p] = "run" => tx[p].results = {}
  /\ pc[p] = "results" =>
       /\ tx[p].rows = {Inserted(Head(todo[p]), tx[p].at, p)}
       /\ \A e \in ToSet(Examples) :
            e \in ToSet(left[p]) \/ Result(Head(todo[p]).id, e, p) \in tx[p].results
  /\ pc[p] = "commit" =>
       /\ tx[p].rows = {LockedRow(p)}
       /\ \A e \in ToSet(Examples) : Result(Head(todo[p]).id, e, p) \in tx[p].results
  /\ pc[p] \in Writing =>
       \A x \in tx[p].results : x.run = Head(todo[p]).id /\ x.by = p

\* A sweep that is about to write a result has committed its run.
SweepOf(s) ==
  pc[s] = "result" =>
    left[s] # <<>> /\ \E r \in runs : r.id = SweepRun(s) /\ r.by = s

ExitsOf(p) ==
  /\ pc[p] # "done" => code[p] = "none"
  /\ p \in Embedders /\ code[p] = "zero" =>
       \A r \in Written(p) : r.winner # NoCandidate

Scripts ==
  /\ \A p \in Writers : PlanOf(p) /\ TransactionOf(p) /\ ExitsOf(p)
  /\ \A s \in Sweepers : SweepOf(s)

\* A committed run has all of its results.
Whole ==
  \A r \in runs : r.by \in Writers =>
    {x.example : x \in {y \in results : y.run = r.id}} = ToSet(Examples)

IInv == TypeOK /\ Runs /\ Scripts /\ Whole /\ SweepRows

-----------------------------------------------------------------------------
\* What the steps share.

\* The fields of the constants that stand for nothing.
LEMMA NoConstants == NoCandidate = 0 /\ NoTx.at = -1 /\ NoTx.rows = {} /\ NoTx.results = {}
BY DEF NoCandidate, NoTx

\* The runs a writer plans are named by it; only the embedders' carry a lock,
\* the one the rule selects.
LEMMA PlannedAre ==
  ASSUME NEW p \in Writers, NEW row \in PlannedRows(p)
  PROVE  /\ row.id \in Ids /\ row.id[1] = p
         /\ row.path \in Paths /\ row.strategy = "fixed_window" /\ row.component \in Components
         /\ row.measured \in Measured \cup {{}} /\ row.lock \in Nat
         /\ p \notin Embedders => row.lock = NoCandidate
         /\ p \in Embedders =>
              /\ row.path = "embeddings_bakeoff" /\ row.component = "text_embeddings"
              /\ row.measured \in Measured /\ row.lock = SelectWinner(row.measured)
<1>1. p \in Processes /\ NoCandidate \in Nat /\ <<p, NoCandidate>> \in Ids
  BY NoConstants DEF Processes, Ids
<1>2. CASE p \in Embedders
  <2>1. PICK m \in Measured : row = EmbeddingsRun(p, m)
    BY <1>2 DEF PlannedRows
  <2>2. SelectWinner(m) \in Nat
    BY RuleSelects
  <2> QED
    BY <1>1, <1>2, <2>1, <2>2 DEF EmbeddingsRun, Row, Paths, Components
<1>3. CASE p \notin Embedders /\ p \in Generators
  <2>1. PICK i \in DOMAIN GeneratorIds : row = GeneratorRun(p, GeneratorIds[i])
    BY <1>3 DEF PlannedRows
  <2>2. GeneratorIds[i] \in Nat
    BY GeneratorsAssumption
  <2>3. <<p, GeneratorIds[i]>> \in Ids
    BY <1>1, <2>2 DEF Ids
  <2> QED
    BY <1>1, <1>3, <2>1, <2>3 DEF GeneratorRun, Row, Paths, Components
<1>4. CASE p \notin Embedders /\ p \notin Generators
  <2>1. row = VisualRun(p)
    BY <1>4 DEF PlannedRows
  <2> QED
    BY <1>1, <1>4, <2>1 DEF VisualRun, Row, Paths, Components
<1> QED
  BY <1>2, <1>3, <1>4

\* A row as a writer inserts it, and as it is once locked.
LEMMA InsertedIs ==
  ASSUME NEW p \in Writers, NEW row \in PlannedRows(p), NEW at \in Nat,
         NEW r, r = Inserted(row, at, p) \/ r = [Inserted(row, at, p) EXCEPT !.winner = row.lock]
  PROVE  /\ r \in LedgerRows
         /\ r.id = row.id /\ r.by = p /\ r.created = at /\ r.strategy = "fixed_window"
         /\ r.path = row.path /\ r.component = row.component /\ r.measured = row.measured
<1>1. /\ row.id \in Ids /\ row.path \in Paths /\ row.strategy = "fixed_window"
      /\ row.component \in Components /\ row.measured \in Measured \cup {{}} /\ row.lock \in Nat
  BY PlannedAre
<1>2. p \in Processes
  BY DEF Processes
<1> HIDE DEF Ids, Processes, Paths, Components
<1> QED
  BY <1>1, <1>2, NoConstants DEF Inserted, LedgerRows

\* Process p adds the runs A, under no id and at no time of the others'.
Aside(p, A) ==
  /\ \A q \in Processes \ {p} : pc'[q] = pc[q] /\ code'[q] = code[q] /\ left'[q] = left[q]
  /\ \A q \in Writers \ {p} : todo'[q] = todo[q] /\ tx'[q] = tx[q]
  /\ runs' = runs \cup A /\ clock' \in Nat /\ clock <= clock'
  /\ \A r \in A : r.by = p /\ r.id[1] \notin Writers \ {p}
  /\ \A r \in A : \A q \in Writers \ {p} : pc[q] \in Writing => r.created # tx[q].at
  /\ p \in Writers /\ pc'[p] \in Writing =>
       \A q \in Writers \ {p} : pc[q] \in Writing => tx'[p].at # tx[q].at

\* The writers and the sweeps that do not move keep what holds of them, if the
\* step writes under no id of theirs and at no time of theirs.
LEMMA OthersKeep ==
  ASSUME IInv, NEW p \in Processes, NEW A, Aside(p, A)
  PROVE  /\ \A q \in Writers \ {p} : PlanOf(q)' /\ TransactionOf(q)' /\ ExitsOf(q)'
         /\ \A s \in Sweepers \ {p} : SweepOf(s)'
<1>0. /\ \A q \in Processes \ {p} : pc'[q] = pc[q] /\ code'[q] = code[q] /\ left'[q] = left[q]
      /\ \A q \in Writers \ {p} : todo'[q] = todo[q] /\ tx'[q] = tx[q]
      /\ runs' = runs \cup A /\ clock' \in Nat /\ clock <= clock'
      /\ \A r \in A : r.by = p /\ r.id[1] \notin Writers \ {p}
      /\ \A r \in A : \A q \in Writers \ {p} : pc[q] \in Writing => r.created # tx[q].at
      /\ p \in Writers /\ pc'[p] \in Writing =>
           \A q \in Writers \ {p} : pc[q] \in Writing => tx'[p].at # tx[q].at
  BY DEF Aside
<1> USE <1>0
<1>1. ASSUME NEW q \in Writers \ {p}  PROVE PlanOf(q)' /\ TransactionOf(q)' /\ ExitsOf(q)'
  <2>1. /\ pc'[q] = pc[q] /\ code'[q] = code[q] /\ left'[q] = left[q]
        /\ todo'[q] = todo[q] /\ tx'[q] = tx[q]
    BY DEF Processes
  <2>2. Written(q)' = Written(q)
    BY DEF Written
  <2>3. PlanOf(q) /\ TransactionOf(q) /\ ExitsOf(q)
    BY DEF IInv, Scripts
  <2>4. ASSUME pc[q] \in Active, NEW i \in DOMAIN todo[q]  PROVE todo[q][i].id[1] = q
    <3>1. todo[q] \in Seq(PlannedRows(q))
      BY <2>3, <2>4 DEF PlanOf
    <3>2. todo[q][i] \in PlannedRows(q)
      BY <3>1, <2>4
    <3> QED
      BY <3>2, PlannedAre
  <2>5. ASSUME pc[q] \in Active, NEW i \in DOMAIN todo[q], NEW r \in runs'
        PROVE  r.id # todo[q][i].id
    <3>1. CASE r \in runs
      BY <2>3, <2>5, <3>1 DEF PlanOf
    <3>2. CASE r \in A
      BY <2>4, <2>5, <3>2
    <3> QED
      BY <3>1, <3>2
  <2>6. PlanOf(q)'
    BY <2>1, <2>2, <2>3, <2>5 DEF PlanOf
  <2>7. ASSUME pc[q] \in Writing
        PROVE  /\ tx[q].at \in Nat /\ tx[q].at < clock'
               /\ \A r \in runs' : r.created # tx[q].at
               /\ \A w \in Writers \ {q} : pc'[w] \in Writing => tx'[w].at # tx[q].at
    <3>1. tx[q].at \in Nat /\ tx[q].at < clock /\ clock \in Nat
      BY <2>3, <2>7 DEF TransactionOf, IInv, TypeOK
    <3>2. \A r \in runs : r.created # tx[q].at
      BY <2>3, <2>7 DEF TransactionOf
    <3>3. ASSUME NEW w \in Writers \ {q}, pc'[w] \in Writing  PROVE tx'[w].at # tx[q].at
      <4>1. CASE w = p
        BY <2>7, <3>3, <4>1
      <4>2. CASE w # p
        <5>1. pc'[w] = pc[w] /\ tx'[w] = tx[w]
          BY <4>2 DEF Processes
        <5> QED
          BY <2>3, <2>7, <3>3, <5>1 DEF TransactionOf
      <4> QED
        BY <4>1, <4>2
    <3> QED
      BY <2>7, <3>1, <3>2, <3>3
  <2>8. TransactionOf(q)'
    BY <2>1, <2>3, <2>7 DEF TransactionOf, LockedRow
  <2>9. ExitsOf(q)'
    BY <2>1, <2>2, <2>3 DEF ExitsOf
  <2> QED
    BY <2>6, <2>8, <2>9
<1>2. ASSUME NEW s \in Sweepers \ {p}  PROVE SweepOf(s)'
  <2>1. pc'[s] = pc[s] /\ left'[s] = left[s]
    BY DEF Processes
  <2>2. SweepOf(s)
    BY DEF IInv, Scripts
  <2> QED
    BY <2>1, <2>2 DEF SweepOf, SweepRun
<1> QED
  BY <1>1, <1>2

\* A step that leaves the tables alone, and no sweep from between its two
\* commits, keeps what holds of the tables.
LEMMA TablesKept ==
  ASSUME IInv, runs' = runs, results' = results, clock' \in Nat, clock <= clock',
         \A s \in Sweepers : pc[s] \in {"result", "dead"} =>
           pc'[s] \in {"result", "dead"} /\ left'[s] = left[s]
  PROVE  Runs' /\ Whole' /\ SweepRows'
<1>1. Runs'
  <2>1. clock \in Nat /\ \A r \in runs : r.created \in Nat
    BY DEF IInv, TypeOK, LedgerRows
  <2>2. \A r \in runs : r.created < clock => r.created < clock'
    BY <2>1
  <2>3. \A r \in runs : RunOf(r)'
    BY <2>2 DEF IInv, Runs, RunOf
  <2> QED
    BY <2>3 DEF IInv, Runs
<1>2. Whole'
  BY DEF IInv, Whole
<1>3. SweepRows'
  BY DEF IInv, SweepRows, SweepRun
<1> QED
  BY <1>1, <1>2, <1>3

\* A process that neither writes nor has a transaction open keeps the tables and
\* what holds of the others.
LEMMA QuietKeeps ==
  ASSUME IInv, NEW p \in Processes, UNCHANGED tables,
         \A q \in Processes \ {p} : pc'[q] = pc[q] /\ code'[q] = code[q] /\ left'[q] = left[q],
         \A q \in Writers \ {p} : todo'[q] = todo[q] /\ tx'[q] = tx[q],
         p \in Sweepers => (pc[p] \in {"result", "dead"} =>
           pc'[p] \in {"result", "dead"} /\ left'[p] = left[p]),
         p \in Writers /\ pc'[p] \in Writing => pc[p] \in Writing /\ tx'[p].at = tx[p].at
  PROVE  /\ \A q \in Writers \ {p} : PlanOf(q)' /\ TransactionOf(q)' /\ ExitsOf(q)'
         /\ \A s \in Sweepers \ {p} : SweepOf(s)'
         /\ Runs' /\ Whole' /\ SweepRows'
<1>1. clock \in Nat /\ clock <= clock /\ clock' = clock /\ runs' = runs /\ results' = results
  BY DEF IInv, TypeOK, tables
<1>2. ASSUME p \in Writers, pc'[p] \in Writing, NEW q \in Writers \ {p}, pc[q] \in Writing
      PROVE  tx'[p].at # tx[q].at
  <2>1. pc[p] \in Writing /\ tx'[p].at = tx[p].at
    BY <1>2
  <2>2. TransactionOf(p)
    BY <1>2 DEF IInv, Scripts
  <2> QED
    BY <1>2, <2>1, <2>2 DEF TransactionOf
<1> DEFINE A == {}
<1>3. runs' = runs \cup A /\ \A r \in A : FALSE
  BY <1>1
<1> HIDE DEF A
<1>4. /\ \A q \in Writers \ {p} : PlanOf(q)' /\ TransactionOf(q)' /\ ExitsOf(q)'
      /\ \A s \in Sweepers \ {p} : SweepOf(s)'
  <2>1. clock' \in Nat /\ clock <= clock'
    BY <1>1
  <2>2. p \in Writers /\ pc'[p] \in Writing =>
          \A q \in Writers \ {p} : pc[q] \in Writing => tx'[p].at # tx[q].at
    BY <1>2
  <2>3. Aside(p, A)
    BY <1>3, <2>1, <2>2 DEF Aside
  <2> QED
    BY ONLY IInv, p \in Processes, <2>3, OthersKeep
<1>5. \A s \in Sweepers : pc[s] \in {"result", "dead"} =>
        pc'[s] \in {"result", "dead"} /\ left'[s] = left[s]
  BY DEF Processes
<1>6. Runs' /\ Whole' /\ SweepRows'
  BY <1>1, <1>5, TablesKept
<1> QED
  BY <1>4, <1>6

\* The scripts' parts of the invariant, put together.
LEMMA Together ==
  ASSUME NEW p \in Processes, TypeOK', Runs', Whole', SweepRows',
         \A q \in Writers \ {p} : PlanOf(q)' /\ TransactionOf(q)' /\ ExitsOf(q)',
         \A s \in Sweepers \ {p} : SweepOf(s)',
         p \in Writers => PlanOf(p)' /\ TransactionOf(p)' /\ ExitsOf(p)',
         p \in Sweepers => SweepOf(p)'
  PROVE  IInv'
BY DEF IInv, Scripts

\* A run under a writer's name is the writer's.
LEMMA RunsByName ==
  ASSUME IInv, NEW p \in Writers, NEW r \in runs, r.id[1] = p
  PROVE  r.by = p
<1>1. RunOf(r) /\ r.by \in Processes
  BY DEF IInv, Runs, TypeOK, LedgerRows
<1> QED
  BY <1>1, SweepAssumption DEF RunOf, Processes

\* A script that ends before it wrote anything, or a sweep at its end.
LEMMA ExitKeeps ==
  ASSUME IInv, NEW p \in Processes, NEW c \in {"zero", "one", "two"},
         p \in Writers => pc[p] = "measure", p \in Sweepers => pc[p] = "example", Exit(p, c)
  PROVE  IInv'
<1>1. /\ pc' = [pc EXCEPT ![p] = "done"] /\ code' = [code EXCEPT ![p] = c]
      /\ UNCHANGED <<tables, todo, left, tx>>
  BY DEF Exit
<1>2. TypeOK'
  BY <1>1 DEF IInv, TypeOK, tables, WriterLabels, SweepLabels
<1>3. pc'[p] = "done" /\ code'[p] = c
  BY <1>1 DEF IInv, TypeOK
<1>4. /\ \A q \in Writers \ {p} : PlanOf(q)' /\ TransactionOf(q)' /\ ExitsOf(q)'
      /\ \A s \in Sweepers \ {p} : SweepOf(s)'
      /\ Runs' /\ Whole' /\ SweepRows'
  <2>1. \A q \in Processes \ {p} : pc'[q] = pc[q] /\ code'[q] = code[q] /\ left'[q] = left[q]
    BY <1>1 DEF IInv, TypeOK
  <2>2. \A q \in Writers \ {p} : todo'[q] = todo[q] /\ tx'[q] = tx[q]
    BY <1>1
  <2>3. UNCHANGED tables
    BY <1>1
  <2>4. pc'[p] \notin Writing
    BY <1>3 DEF Writing
  <2>5. p \in Sweepers => pc[p] \notin {"result", "dead"}
    OBVIOUS
  <2> QED
    BY <2>1, <2>2, <2>3, <2>4, <2>5, QuietKeeps
<1>5. ASSUME p \in Writers  PROVE PlanOf(p)' /\ TransactionOf(p)' /\ ExitsOf(p)'
  <2>1. Written(p)' = {}
    BY <1>1, <1>5 DEF IInv, Scripts, PlanOf, Written, tables
  <2> QED
    BY <1>3, <2>1 DEF PlanOf, TransactionOf, ExitsOf, Active, Writing
<1>6. p \in Sweepers => SweepOf(p)'
  BY <1>3 DEF SweepOf
<1> QED
  BY <1>2, <1>4, <1>5, <1>6, Together

\* A writer that has measured, and plans its runs.
LEMMA PlanKeeps ==
  ASSUME IInv, NEW p \in Writers, pc[p] = "measure",
         NEW rows \in Seq(PlannedRows(p)), rows # <<>>,
         \A i, j \in DOMAIN rows : rows[i].id = rows[j].id => i = j,
         p \in Embedders => Len(rows) = 1, Plan(p, rows)
  PROVE  IInv'
<1>1. /\ pc' = [pc EXCEPT ![p] = "begin"] /\ todo' = [todo EXCEPT ![p] = rows]
      /\ UNCHANGED <<tables, code, left, tx>>
  BY DEF Plan
<1>2. p \in Processes /\ p \notin Sweepers
  BY ScriptsAssumption DEF Processes
<1>3. TypeOK'
  <2>1. rows \in Seq(AllRows)
    BY DEF AllRows
  <2> QED
    BY <1>1, <1>2, <2>1 DEF IInv, TypeOK, tables, WriterLabels
<1>4. pc'[p] = "begin" /\ code'[p] = code[p] /\ todo'[p] = rows
  BY <1>1, <1>2 DEF IInv, TypeOK
<1>5. /\ \A q \in Writers \ {p} : PlanOf(q)' /\ TransactionOf(q)' /\ ExitsOf(q)'
      /\ \A s \in Sweepers \ {p} : SweepOf(s)'
      /\ Runs' /\ Whole' /\ SweepRows'
  <2>1. \A q \in Processes \ {p} : pc'[q] = pc[q] /\ code'[q] = code[q] /\ left'[q] = left[q]
    BY <1>1 DEF IInv, TypeOK
  <2>2. \A q \in Writers \ {p} : todo'[q] = todo[q] /\ tx'[q] = tx[q]
    BY <1>1 DEF IInv, TypeOK
  <2>3. UNCHANGED tables
    BY <1>1
  <2>4. pc'[p] \notin Writing
    BY <1>4 DEF Writing
  <2> QED
    BY <1>2, <2>1, <2>2, <2>3, <2>4, QuietKeeps
<1>6. PlanOf(p)'
  <2>1. Written(p) = {} /\ Written(p)' = Written(p) /\ runs' = runs
    BY <1>1 DEF IInv, Scripts, PlanOf, Written, tables
  <2>2. ASSUME NEW i \in DOMAIN rows, NEW r \in runs  PROVE r.id # rows[i].id
    <3>1. rows[i].id[1] = p
      BY PlannedAre
    <3> QED
      BY <2>1, <3>1, RunsByName DEF Written
  <2> QED
    BY <1>4, <2>1, <2>2 DEF PlanOf, Active
<1>7. TransactionOf(p)' /\ ExitsOf(p)'
  BY <1>4 DEF TransactionOf, ExitsOf, Writing, IInv, Scripts
<1> QED
  BY <1>2, <1>3, <1>5, <1>6, <1>7, Together

\* run_embeddings_bakeoff, run_generator_bakeoff and run_visual_eval, up to the
\* first transaction.
LEMMA MeasureKeeps ==
  ASSUME IInv, NEW p \in Writers,
         MeasureEmbeddings(p) \/ MeasureGenerators(p) \/ MeasureVisual(p)
  PROVE  IInv'
<1>1. p \in Processes /\ p \notin Sweepers /\ pc[p] = "measure"
  BY ScriptsAssumption DEF Processes, MeasureEmbeddings, MeasureGenerators, MeasureVisual
<1>2. ASSUME NEW c \in {"zero", "one", "two"}, Exit(p, c)  PROVE IInv'
  BY <1>1, <1>2, ExitKeeps
<1>3. CASE MeasureEmbeddings(p)
  <2>1. CASE Exit(p, "two")
    BY <1>2, <2>1
  <2>2. ASSUME NEW m \in Measured, Exit(p, IF Eligible(m) = {} THEN "one" ELSE "zero")
        PROVE  IInv'
    BY <1>2, <2>2
  <2>3. ASSUME NEW m \in Measured, Plan(p, <<EmbeddingsRun(p, m)>>)
        PROVE  IInv'
    <3>1. p \in Embedders
      BY <1>3 DEF MeasureEmbeddings
    <3> DEFINE rows == <<EmbeddingsRun(p, m)>>
    <3>2. rows \in Seq(PlannedRows(p)) /\ rows # <<>> /\ Len(rows) = 1 /\ DOMAIN rows = {1}
      BY <3>1 DEF PlannedRows
    <3> HIDE DEF rows
    <3>3. \A i, j \in DOMAIN rows : rows[i].id = rows[j].id => i = j
      BY <3>2
    <3>4. Plan(p, rows)
      BY <2>3 DEF rows
    <3> QED
      BY <1>1, <3>2, <3>3, <3>4, PlanKeeps
  <2> QED
    BY <1>3, <2>1, <2>2, <2>3 DEF MeasureEmbeddings
<1>4. CASE MeasureGenerators(p)
  <2>1. CASE Exit(p, "zero")
    BY <1>2, <2>1
  <2> DEFINE rows == [i \in DOMAIN GeneratorIds |-> GeneratorRun(p, GeneratorIds[i])]
  <2>2. CASE Plan(p, rows)
    <3>1. p \in Generators /\ p \notin Embedders
      BY <1>4, ScriptsAssumption DEF MeasureGenerators
    <3>2. DOMAIN GeneratorIds = 1 .. Len(GeneratorIds) /\ Len(GeneratorIds) \in Nat \ {0}
      BY GeneratorsAssumption
    <3>3. \A i \in DOMAIN GeneratorIds : GeneratorRun(p, GeneratorIds[i]) \in PlannedRows(p)
      BY <3>1 DEF PlannedRows
    <3>4. rows \in Seq(PlannedRows(p))
      BY <3>2, <3>3
    <3>5. DOMAIN rows = DOMAIN GeneratorIds /\ rows # <<>>
      <4>1. DOMAIN rows = DOMAIN GeneratorIds
        OBVIOUS
      <4>2. 1 \in DOMAIN GeneratorIds
        BY <3>2
      <4>3. 1 \in DOMAIN rows /\ 1 \notin DOMAIN <<>>
        BY <4>1, <4>2
      <4> HIDE DEF rows
      <4> QED
        BY <4>1, <4>3
    <3>6. \A i \in DOMAIN rows : rows[i].id = <<p, GeneratorIds[i]>>
      BY DEF GeneratorRun, Row
    <3> HIDE DEF rows
    <3>7. \A i, j \in DOMAIN rows : rows[i].id = rows[j].id => i = j
      BY <3>5, <3>6, GeneratorsAssumption
    <3> QED
      BY <1>1, <2>2, <3>1, <3>4, <3>5, <3>7, PlanKeeps
  <2> QED
    BY <1>4, <2>1, <2>2 DEF MeasureGenerators
<1>5. CASE MeasureVisual(p)
  <2>1. CASE Exit(p, "zero")
    BY <1>2, <2>1
  <2> DEFINE rows == <<VisualRun(p)>>
  <2>2. CASE Plan(p, rows)
    <3>1. p \notin Embedders /\ p \notin Generators
      BY <1>5, ScriptsAssumption DEF MeasureVisual
    <3>2. rows \in Seq(PlannedRows(p)) /\ rows # <<>> /\ DOMAIN rows = {1}
      BY <3>1 DEF PlannedRows
    <3> HIDE DEF rows
    <3>3. \A i, j \in DOMAIN rows : rows[i].id = rows[j].id => i = j
      BY <3>2
    <3> QED
      BY <1>1, <2>2, <3>1, <3>2, <3>3, PlanKeeps
  <2> QED
    BY <1>5, <2>1, <2>2 DEF MeasureVisual
<1> QED
  BY <1>3, <1>4, <1>5

-----------------------------------------------------------------------------
\* A writer's transaction.

\* What a writer at work is about to write.
LEMMA AtWork ==
  ASSUME IInv, NEW p \in Writers, pc[p] \in Active
  PROVE  /\ p \in Processes /\ p \notin Sweepers
         /\ todo[p] \in Seq(PlannedRows(p)) /\ todo[p] # <<>>
         /\ Head(todo[p]) \in PlannedRows(p) /\ Head(todo[p]) = todo[p][1]
         /\ 1 \in DOMAIN todo[p] /\ Head(todo[p]).id \in Ids /\ Head(todo[p]).id[1] = p
         /\ \A r \in runs : r.id # Head(todo[p]).id
<1>1. p \in Processes /\ p \notin Sweepers
  BY ScriptsAssumption DEF Processes
<1>2. PlanOf(p)
  BY DEF IInv, Scripts
<1>3. todo[p] \in Seq(PlannedRows(p)) /\ todo[p] # <<>>
  BY <1>2 DEF PlanOf
<1>4. Head(todo[p]) = todo[p][1] /\ todo[p][1] \in PlannedRows(p) /\ 1 \in DOMAIN todo[p]
  BY <1>3
<1>5. \A r \in runs : r.id # todo[p][1].id
  BY <1>2, <1>4 DEF PlanOf
<1> QED
  BY <1>1, <1>3, <1>4, <1>5, PlannedAre

\* A step within a transaction touches no table.
LEMMA WithinKeeps ==
  ASSUME IInv, NEW p \in Writers, pc[p] \in Writing, UNCHANGED <<tables, code, todo>>,
         pc'[p] \in Writing, pc' \in [Processes -> WriterLabels \cup SweepLabels],
         tx'[p].at = tx[p].at,
         \A q \in Processes \ {p} : pc'[q] = pc[q] /\ left'[q] = left[q],
         \A q \in Writers \ {p} : tx'[q] = tx[q]
  PROVE  /\ \A q \in Writers \ {p} : PlanOf(q)' /\ TransactionOf(q)' /\ ExitsOf(q)'
         /\ \A s \in Sweepers \ {p} : SweepOf(s)'
         /\ Runs' /\ Whole' /\ SweepRows' /\ PlanOf(p)' /\ ExitsOf(p)'
         /\ tx'[p].at \in Nat /\ tx'[p].at < clock'
         /\ \A r \in runs' : r.created # tx'[p].at
         /\ \A q \in Writers \ {p} : pc'[q] \in Writing => tx'[q].at # tx'[p].at
<1>1. p \in Processes /\ p \notin Sweepers /\ pc[p] \in Active /\ pc'[p] \in Active
  BY ScriptsAssumption DEF Processes, Active
<1>2. PlanOf(p) /\ TransactionOf(p) /\ ExitsOf(p)
  BY DEF IInv, Scripts
<1>3. PlanOf(p)' /\ ExitsOf(p)'
  <2>1. Written(p)' = Written(p) /\ runs' = runs
    BY DEF Written, tables
  <2> QED
    BY <1>1, <1>2, <2>1 DEF PlanOf, ExitsOf, Active, Writing
<1>4. /\ tx'[p].at \in Nat /\ tx'[p].at < clock'
      /\ \A r \in runs' : r.created # tx'[p].at
      /\ \A q \in Writers \ {p} : pc'[q] \in Writing => tx'[q].at # tx'[p].at
  <2>1. \A q \in Writers \ {p} : pc'[q] = pc[q]
    BY DEF Processes
  <2> QED
    BY <1>2, <2>1 DEF TransactionOf, tables
<1>5. /\ \A q \in Writers \ {p} : PlanOf(q)' /\ TransactionOf(q)' /\ ExitsOf(q)'
      /\ \A s \in Sweepers \ {p} : SweepOf(s)'
      /\ Runs' /\ Whole' /\ SweepRows'
  <2>1. \A q \in Processes \ {p} : pc'[q] = pc[q] /\ code'[q] = code[q] /\ left'[q] = left[q]
    OBVIOUS
  <2>2. \A q \in Writers \ {p} : todo'[q] = todo[q] /\ tx'[q] = tx[q]
    OBVIOUS
  <2>3. UNCHANGED tables
    OBVIOUS
  <2> HIDE DEF Writing
  <2> QED
    BY <1>1, <2>1, <2>2, <2>3, QuietKeeps
<1> QED
  BY <1>3, <1>4, <1>5

\* The transaction begins: now() is of no committed run and of no open
\* transaction.
LEMMA BeginKeeps ==
  ASSUME IInv, NEW p \in Writers, Begin(p)
  PROVE  IInv'
<1> DEFINE new == [at |-> clock, rows |-> {}, results |-> {}]
<1>1. /\ pc[p] = "begin" /\ pc' = [pc EXCEPT ![p] = "run"]
      /\ tx' = [tx EXCEPT ![p] = new] /\ clock' = clock + 1
      /\ UNCHANGED <<runs, results, code, todo, left>>
  BY DEF Begin, Goto
<1>2. p \in Processes /\ p \notin Sweepers /\ pc[p] \in Active
  BY <1>1, ScriptsAssumption DEF Processes, Active
<1>3. clock \in Nat /\ clock' \in Nat /\ clock < clock' /\ clock <= clock'
  BY <1>1 DEF IInv, TypeOK
<1>4. TypeOK'
  <2>1. new \in [at : Nat \cup {-1}, rows : SUBSET LedgerRows, results : SUBSET ResultRows]
    BY <1>3
  <2> QED
    BY <1>1, <1>2, <1>3, <2>1 DEF IInv, TypeOK, WriterLabels
<1>5. pc'[p] = "run" /\ code'[p] = code[p] /\ todo'[p] = todo[p] /\ tx'[p] = new
  BY <1>1, <1>2 DEF IInv, TypeOK
<1>6. \A q \in Writers \ {p} : pc[q] \in Writing => tx[q].at # clock
  <2>1. \A q \in Writers : pc[q] \in Writing => tx[q].at \in Nat /\ tx[q].at < clock
    BY DEF IInv, Scripts, TransactionOf
  <2> QED
    BY <1>3, <2>1
<1>7. \A q \in Processes \ {p} : pc'[q] = pc[q] /\ code'[q] = code[q] /\ left'[q] = left[q]
  BY <1>1 DEF IInv, TypeOK
<1>8. \A q \in Writers \ {p} : todo'[q] = todo[q] /\ tx'[q] = tx[q]
  BY <1>1 DEF IInv, TypeOK
<1>9. /\ \A q \in Writers \ {p} : PlanOf(q)' /\ TransactionOf(q)' /\ ExitsOf(q)'
      /\ \A s \in Sweepers \ {p} : SweepOf(s)'
  <2> DEFINE A == {}
  <2>1. runs' = runs \cup A /\ \A r \in A : FALSE
    BY <1>1
  <2>2. tx'[p].at = clock
    BY <1>5
  <2> HIDE DEF A
  <2>3. Aside(p, A)
    BY <1>3, <1>6, <1>7, <1>8, <2>1, <2>2 DEF Aside
  <2>4. p \in Processes
    BY <1>2
  <2> QED
    BY ONLY IInv, <2>3, <2>4, OthersKeep
<1>10. Runs' /\ Whole' /\ SweepRows'
  <2>1. \A s \in Sweepers : left'[s] = left[s] /\ pc'[s] = pc[s]
    BY <1>2, <1>7 DEF Processes
  <2> QED
    BY <1>1, <1>3, <2>1, TablesKept
<1>11. PlanOf(p)' /\ ExitsOf(p)'
  <2>1. Written(p)' = Written(p)
    BY <1>1 DEF Written
  <2> QED
    BY <1>1, <1>2, <1>5, <2>1 DEF IInv, Scripts, PlanOf, ExitsOf, Active, Writing
<1>12. TransactionOf(p)'
  <2>1. \A r \in runs' : r.created # clock
    <3>1. \A r \in runs : r.created \in Nat /\ r.created < clock
      BY DEF IInv, TypeOK, LedgerRows, Runs, RunOf
    <3> QED
      BY <1>1, <1>3, <3>1
  <2>2. \A q \in Writers \ {p} : pc'[q] \in Writing => tx'[q].at # clock
    BY <1>6, <1>7, <1>8 DEF Processes
  <2> QED
    BY <1>3, <1>5, <2>1, <2>2 DEF TransactionOf
<1> QED
  BY <1>2, <1>4, <1>9, <1>10, <1>11, <1>12, Together

\* insert_run.
LEMMA InsertRunKeeps ==
  ASSUME IInv, NEW p \in Writers, InsertRun(p)
  PROVE  IInv'
<1> DEFINE row == Inserted(Head(todo[p]), tx[p].at, p)
<1>1. /\ pc[p] = "run" /\ pc' = [pc EXCEPT ![p] = "results"]
      /\ tx' = [tx EXCEPT ![p].rows = {row}] /\ left' = [left EXCEPT ![p] = Examples]
      /\ UNCHANGED <<tables, code, todo>>
  BY DEF InsertRun, Goto
<1>2. pc[p] \in Active /\ pc[p] \in Writing
  BY <1>1 DEF Active, Writing
<1>3. p \in Processes /\ p \notin Sweepers /\ Head(todo[p]) \in PlannedRows(p)
  BY <1>2, AtWork
<1>4. tx[p].at \in Nat /\ tx[p].results = {}
  BY <1>1, <1>2 DEF IInv, Scripts, TransactionOf
<1>5. row \in LedgerRows
  BY <1>3, <1>4, InsertedIs
<1> HIDE DEF row
<1>6. TypeOK'
  <2>1. left' \in [Processes -> Seq(ToSet(Examples))]
    BY <1>1, <1>3, ExamplesAssumption DEF IInv, TypeOK
  <2>2. tx' \in [Writers -> [at : Nat \cup {-1}, rows : SUBSET LedgerRows,
                             results : SUBSET ResultRows]]
    BY <1>1, <1>5 DEF IInv, TypeOK
  <2>3. /\ pc' \in [Processes -> WriterLabels \cup SweepLabels]
        /\ \A q \in Writers : pc'[q] \in WriterLabels
        /\ \A s \in Sweepers : pc'[s] \in SweepLabels
    BY <1>1, <1>3 DEF IInv, TypeOK, WriterLabels
  <2>4. UNCHANGED <<runs, results, clock, code, todo>>
    BY <1>1 DEF tables
  <2> QED
    BY <2>1, <2>2, <2>3, <2>4 DEF IInv, TypeOK
<1>7. /\ pc'[p] = "results" /\ left'[p] = Examples /\ todo'[p] = todo[p]
      /\ tx'[p].at = tx[p].at /\ tx'[p].rows = {row} /\ tx'[p].results = {}
  BY <1>1, <1>3, <1>4 DEF IInv, TypeOK
<1>8. /\ \A q \in Writers \ {p} : PlanOf(q)' /\ TransactionOf(q)' /\ ExitsOf(q)'
      /\ \A s \in Sweepers \ {p} : SweepOf(s)'
      /\ Runs' /\ Whole' /\ SweepRows' /\ PlanOf(p)' /\ ExitsOf(p)'
      /\ tx'[p].at \in Nat /\ tx'[p].at < clock'
      /\ \A r \in runs' : r.created # tx'[p].at
      /\ \A q \in Writers \ {p} : pc'[q] \in Writing => tx'[q].at # tx'[p].at
  <2>1. pc'[p] \in Writing /\ pc' \in [Processes -> WriterLabels \cup SweepLabels]
    BY <1>6, <1>7 DEF Writing, TypeOK
  <2>2. \A q \in Processes \ {p} : pc'[q] = pc[q] /\ left'[q] = left[q]
    BY <1>1 DEF IInv, TypeOK
  <2>3. \A q \in Writers \ {p} : tx'[q] = tx[q]
    BY <1>1 DEF IInv, TypeOK
  <2>4. UNCHANGED <<tables, code, todo>>
    BY <1>1
  <2> HIDE DEF Writing
  <2> QED
    BY <1>2, <1>7, <2>1, <2>2, <2>3, <2>4, WithinKeeps
<1>9. TransactionOf(p)'
  BY <1>7, <1>8 DEF TransactionOf, row
<1> QED
  BY <1>3, <1>6, <1>8, <1>9, Together

\* A list is its first element and the rest.
LEMMA HeadOrTail ==
  ASSUME NEW S, NEW s \in Seq(S), s # <<>>
  PROVE  /\ ToSet(s) = {Head(s)} \cup ToSet(Tail(s)) /\ Tail(s) \in Seq(S) /\ Head(s) \in S
         /\ Len(s) \in Nat \ {0} /\ DOMAIN s = 1 .. Len(s)
         /\ DOMAIN Tail(s) = 1 .. Len(s) - 1
         /\ \A i \in 1 .. Len(s) - 1 : i + 1 \in DOMAIN s /\ Tail(s)[i] = s[i + 1]
         /\ Len(s) > 1 => Tail(s) # <<>>
<1>1. Len(s) \in Nat \ {0} /\ DOMAIN s = 1 .. Len(s) /\ Head(s) = s[1]
  OBVIOUS
<1>2. Tail(s) \in Seq(S) /\ Len(Tail(s)) = Len(s) - 1 /\ DOMAIN Tail(s) = 1 .. Len(s) - 1
  BY <1>1
<1>3. \A i \in 1 .. Len(s) - 1 : Tail(s)[i] = s[i + 1]
  BY <1>1
<1>4. ASSUME NEW x \in ToSet(s)  PROVE x \in {Head(s)} \cup ToSet(Tail(s))
  <2>1. PICK i \in 1 .. Len(s) : x = s[i]
    BY <1>1, <1>4 DEF ToSet
  <2>2. CASE i = 1
    BY <1>1, <2>1, <2>2
  <2>3. CASE i # 1
    <3>1. i - 1 \in 1 .. Len(s) - 1 /\ Tail(s)[i - 1] = x
      BY <1>1, <1>3, <2>1, <2>3
    <3> QED
      BY <1>2, <3>1 DEF ToSet
  <2> QED
    BY <2>2, <2>3
<1>5. ASSUME NEW x \in ToSet(Tail(s))  PROVE x \in ToSet(s)
  <2>1. PICK i \in 1 .. Len(s) - 1 : x = Tail(s)[i]
    BY <1>2, <1>5 DEF ToSet
  <2>2. i + 1 \in 1 .. Len(s) /\ s[i + 1] = x
    BY <1>1, <1>3, <2>1
  <2> QED
    BY <1>1, <2>2 DEF ToSet
<1>6. Head(s) \in ToSet(s) /\ Head(s) \in S
  BY <1>1 DEF ToSet
<1>7. ASSUME Len(s) > 1  PROVE Tail(s) # <<>>
  <2>1. 1 \in 1 .. Len(s) - 1 /\ 1 \notin DOMAIN <<>>
    BY <1>1, <1>7
  <2> QED
    BY <1>2, <2>1
<1>8. \A i \in 1 .. Len(s) - 1 : i + 1 \in DOMAIN s
  BY <1>1
<1> QED
  BY <1>1, <1>2, <1>3, <1>4, <1>5, <1>6, <1>7, <1>8

\* insert_result.
LEMMA InsertResultKeeps ==
  ASSUME IInv, NEW p \in Writers, InsertResult(p)
  PROVE  IInv'
<1> DEFINE new == Result(Head(todo[p]).id, Head(left[p]), p)
<1>1. /\ pc[p] = "results" /\ left[p] # <<>> /\ pc' = pc
      /\ tx' = [tx EXCEPT ![p].results = @ \cup {new}]
      /\ left' = [left EXCEPT ![p] = Tail(@)]
      /\ UNCHANGED <<tables, code, todo>>
  BY DEF InsertResult
<1>2. pc[p] \in Active /\ pc[p] \in Writing
  BY <1>1 DEF Active, Writing
<1>3. /\ p \in Processes /\ p \notin Sweepers /\ Head(todo[p]) \in PlannedRows(p)
      /\ Head(todo[p]).id \in Ids
  BY <1>2, AtWork
<1>4. /\ left[p] \in Seq(ToSet(Examples)) /\ Tail(left[p]) \in Seq(ToSet(Examples))
      /\ Head(left[p]) \in ToSet(Examples)
      /\ ToSet(left[p]) = {Head(left[p])} \cup ToSet(Tail(left[p]))
  <2>1. left[p] \in Seq(ToSet(Examples))
    BY <1>3 DEF IInv, TypeOK
  <2> QED
    BY <1>1, <2>1, HeadOrTail
<1>5. new \in ResultRows
  BY <1>3, <1>4 DEF Result, ResultRows
<1>6. new.run = Head(todo[p]).id /\ new.by = p
  BY DEF Result
<1>7. TransactionOf(p)
  BY DEF IInv, Scripts
<1> HIDE DEF new
<1>8. TypeOK'
  BY <1>1, <1>3, <1>4, <1>5 DEF IInv, TypeOK, tables
<1>9. /\ pc'[p] = "results" /\ left'[p] = Tail(left[p]) /\ todo'[p] = todo[p]
      /\ tx'[p].at = tx[p].at /\ tx'[p].rows = tx[p].rows
      /\ tx'[p].results = tx[p].results \cup {new}
  BY <1>1, <1>3 DEF IInv, TypeOK
<1>10. /\ \A q \in Writers \ {p} : PlanOf(q)' /\ TransactionOf(q)' /\ ExitsOf(q)'
       /\ \A s \in Sweepers \ {p} : SweepOf(s)'
       /\ Runs' /\ Whole' /\ SweepRows' /\ PlanOf(p)' /\ ExitsOf(p)'
       /\ tx'[p].at \in Nat /\ tx'[p].at < clock'
       /\ \A r \in runs' : r.created # tx'[p].at
       /\ \A q \in Writers \ {p} : pc'[q] \in Writing => tx'[q].at # tx'[p].at
  <2>1. pc'[p] \in Writing /\ pc' \in [Processes -> WriterLabels \cup SweepLabels]
    BY <1>8, <1>9 DEF Writing, TypeOK
  <2>2. \A q \in Processes \ {p} : pc'[q] = pc[q] /\ left'[q] = left[q]
    BY <1>1 DEF IInv, TypeOK
  <2>3. \A q \in Writers \ {p} : tx'[q] = tx[q]
    BY <1>1 DEF IInv, TypeOK
  <2>4. UNCHANGED <<tables, code, todo>>
    BY <1>1
  <2> HIDE DEF Writing
  <2> QED
    BY <1>2, <1>9, <2>1, <2>2, <2>3, <2>4, WithinKeeps
<1>11. TransactionOf(p)'
  <2>1. \A e \in ToSet(Examples) :
          \/ e \in ToSet(Tail(left[p]))
          \/ Result(Head(todo[p]).id, e, p) \in tx[p].results \cup {new}
    BY <1>1, <1>4, <1>7 DEF TransactionOf, new
  <2>2. \A x \in tx[p].results \cup {new} : x.run = Head(todo[p]).id /\ x.by = p
    BY <1>2, <1>6, <1>7 DEF TransactionOf
  <2>3. tx'[p].rows = {Inserted(Head(todo'[p]), tx'[p].at, p)}
    BY <1>1, <1>7, <1>9 DEF TransactionOf
  <2> QED
    BY <1>9, <1>10, <2>1, <2>2, <2>3 DEF TransactionOf
<1> QED
  BY <1>3, <1>8, <1>10, <1>11, Together

\* lock_bakeoff_winner, if the run has a winner.
LEMMA LockWinnerKeeps ==
  ASSUME IInv, NEW p \in Writers, LockWinner(p)
  PROVE  IInv'
<1> DEFINE h == Head(todo[p])
           row == Inserted(h, tx[p].at, p)
<1>1. /\ pc[p] = "results" /\ left[p] = <<>> /\ pc' = [pc EXCEPT ![p] = "commit"]
      /\ tx' = IF h.lock = NoCandidate THEN tx
               ELSE [tx EXCEPT ![p].rows = LockBakeoffWinner(@, h.id, h.lock)]
      /\ UNCHANGED <<tables, code, todo, left>>
  BY DEF LockWinner, Goto
<1>2. pc[p] \in Active /\ pc[p] \in Writing
  BY <1>1 DEF Active, Writing
<1>3. p \in Processes /\ p \notin Sweepers /\ h \in PlannedRows(p)
  BY <1>2, AtWork
<1>4. TransactionOf(p)
  BY DEF IInv, Scripts
<1>5. tx[p].at \in Nat /\ tx[p].rows = {row}
  BY <1>1, <1>2, <1>4 DEF TransactionOf
<1>6. LockedRow(p) \in LedgerRows
  BY <1>3, <1>5, InsertedIs DEF LockedRow
<1>7. LockBakeoffWinner({row}, h.id, h.lock) = {LockedRow(p)}
  <2>1. row.id = h.id /\ row.strategy = "fixed_window"
    BY <1>3, <1>5, InsertedIs
  <2> QED
    BY <2>1 DEF LockBakeoffWinner, LockedRow
<1>8. h.lock = NoCandidate => LockedRow(p) = row
  BY DEF LockedRow, Inserted
<1>9. tx[p] \in [at : Nat \cup {-1}, rows : SUBSET LedgerRows, results : SUBSET ResultRows]
  BY DEF IInv, TypeOK
<1> HIDE DEF h, row
<1>10. /\ tx' = [tx EXCEPT ![p] = tx'[p]]
       /\ tx'[p].rows = {LockedRow(p)} /\ tx'[p].at = tx[p].at
       /\ tx'[p].results = tx[p].results
       /\ tx'[p] \in [at : Nat \cup {-1}, rows : SUBSET LedgerRows, results : SUBSET ResultRows]
  <2>1. tx \in [Writers -> [at : Nat \cup {-1}, rows : SUBSET LedgerRows,
                            results : SUBSET ResultRows]]
    BY DEF IInv, TypeOK
  <2>2. CASE h.lock = NoCandidate
    BY <1>1, <1>5, <1>8, <1>9, <2>1, <2>2
  <2>3. CASE h.lock # NoCandidate
    <3>1. tx' = [tx EXCEPT ![p].rows = {LockedRow(p)}]
      BY <1>1, <1>5, <1>7, <2>3
    <3> QED
      BY <1>6, <1>9, <2>1, <3>1
  <2> QED
    BY <2>2, <2>3
<1>11. TypeOK'
  <2>1. tx' \in [Writers -> [at : Nat \cup {-1}, rows : SUBSET LedgerRows,
                             results : SUBSET ResultRows]]
    BY <1>10 DEF IInv, TypeOK
  <2>2. /\ pc' \in [Processes -> WriterLabels \cup SweepLabels]
        /\ \A q \in Writers : pc'[q] \in WriterLabels
        /\ \A s \in Sweepers : pc'[s] \in SweepLabels
    BY <1>1, <1>3 DEF IInv, TypeOK, WriterLabels
  <2>3. UNCHANGED <<runs, results, clock, code, todo, left>>
    BY <1>1 DEF tables
  <2> QED
    BY <2>1, <2>2, <2>3 DEF IInv, TypeOK
<1>12. pc'[p] = "commit" /\ left' = left /\ todo' = todo
  BY <1>1, <1>3 DEF IInv, TypeOK
<1>13. /\ \A q \in Writers \ {p} : PlanOf(q)' /\ TransactionOf(q)' /\ ExitsOf(q)'
       /\ \A s \in Sweepers \ {p} : SweepOf(s)'
       /\ Runs' /\ Whole' /\ SweepRows' /\ PlanOf(p)' /\ ExitsOf(p)'
       /\ tx'[p].at \in Nat /\ tx'[p].at < clock'
       /\ \A r \in runs' : r.created # tx'[p].at
       /\ \A q \in Writers \ {p} : pc'[q] \in Writing => tx'[q].at # tx'[p].at
  <2>1. pc'[p] \in Writing /\ pc' \in [Processes -> WriterLabels \cup SweepLabels]
    BY <1>11, <1>12 DEF Writing, TypeOK
  <2>2. \A q \in Processes \ {p} : pc'[q] = pc[q] /\ left'[q] = left[q]
    BY <1>1 DEF IInv, TypeOK
  <2>3. \A q \in Writers \ {p} : tx'[q] = tx[q]
    BY <1>10 DEF IInv, TypeOK
  <2>4. UNCHANGED <<tables, code, todo>>
    BY <1>1
  <2> HIDE DEF Writing
  <2> QED
    BY <1>2, <1>10, <2>1, <2>2, <2>3, <2>4, WithinKeeps
<1>14. TransactionOf(p)'
  <2>1. \A e \in ToSet(Examples) : Result(Head(todo[p]).id, e, p) \in tx[p].results
    <3>1. ToSet(left[p]) = {}
      BY <1>1 DEF ToSet
    <3> QED
      BY <1>1, <1>4, <3>1 DEF TransactionOf
  <2>2. \A x \in tx[p].results : x.run = Head(todo[p]).id /\ x.by = p
    BY <1>2, <1>4 DEF TransactionOf
  <2>3. LockedRow(p)' = LockedRow(p)
    BY <1>10, <1>12 DEF LockedRow
  <2> QED
    BY <1>10, <1>12, <1>13, <2>1, <2>2, <2>3 DEF TransactionOf
<1> QED
  BY <1>3, <1>11, <1>13, <1>14, Together

\* The transaction commits: the run's row, its lock and all its results at once.
LEMMA CommitKeeps ==
  ASSUME IInv, NEW p \in Writers, Commit(p)
  PROVE  IInv'
<1> DEFINE h == Head(todo[p])
           row == LockedRow(p)
           last == Len(todo[p]) = 1
<1>1. /\ pc[p] = "commit" /\ runs' = runs \cup tx[p].rows
      /\ results' = results \cup tx[p].results
      /\ tx' = [tx EXCEPT ![p] = NoTx] /\ todo' = [todo EXCEPT ![p] = Tail(@)]
      /\ pc' = [pc EXCEPT ![p] = IF last THEN "done" ELSE "begin"]
      /\ code' = [code EXCEPT ![p] = IF last THEN ExitCode(p) ELSE @]
      /\ UNCHANGED <<clock, left>>
  BY DEF Commit
<1>2. pc[p] \in Active /\ pc[p] \in Writing
  BY <1>1 DEF Active, Writing
<1>3. /\ p \in Processes /\ p \notin Sweepers /\ h \in PlannedRows(p)
      /\ todo[p] \in Seq(PlannedRows(p)) /\ todo[p] # <<>> /\ h = todo[p][1]
      /\ 1 \in DOMAIN todo[p] /\ h.id[1] = p /\ \A r \in runs : r.id # h.id
  BY <1>2, AtWork
<1>4. PlanOf(p) /\ TransactionOf(p) /\ ExitsOf(p)
  BY DEF IInv, Scripts
<1>5. /\ tx[p].at \in Nat /\ tx[p].at < clock /\ \A r \in runs : r.created # tx[p].at
      /\ \A q \in Writers \ {p} : pc[q] \in Writing => tx[q].at # tx[p].at
      /\ \A x \in tx[p].results : x.run = h.id /\ x.by = p
  BY <1>2, <1>4 DEF TransactionOf
<1>6. /\ tx[p].rows = {row}
      /\ \A e \in ToSet(Examples) : Result(h.id, e, p) \in tx[p].results
  BY <1>1, <1>4 DEF TransactionOf
<1>7. /\ row.id = h.id /\ row.by = p /\ row.created = tx[p].at
      /\ row.strategy = "fixed_window" /\ row.path = h.path /\ row.component = h.component
      /\ row.measured = h.measured
  BY <1>3, <1>5, InsertedIs DEF LockedRow
<1>8. row.winner = h.lock
  BY DEF LockedRow, Inserted
<1>9. p \in Embedders => last /\ Written(p) = {}
  BY <1>2, <1>4 DEF PlanOf
<1>10. runs' = runs \cup {row}
  BY <1>1, <1>6
<1> HIDE DEF h, row
<1>11. /\ pc'[p] = (IF last THEN "done" ELSE "begin") /\ todo'[p] = Tail(todo[p])
       /\ code'[p] = IF last THEN ExitCode(p) ELSE code[p]
  BY <1>1, <1>3 DEF IInv, TypeOK
<1>12. \A q \in Processes \ {p} : pc'[q] = pc[q] /\ code'[q] = code[q] /\ left'[q] = left[q]
  BY <1>1 DEF IInv, TypeOK
<1>13. \A q \in Writers \ {p} : todo'[q] = todo[q] /\ tx'[q] = tx[q]
  BY <1>1 DEF IInv, TypeOK
<1>14. TypeOK'
  <2>1. runs' \in SUBSET LedgerRows /\ results' \in SUBSET ResultRows
    BY <1>1 DEF IInv, TypeOK
  <2>2. /\ pc' \in [Processes -> WriterLabels \cup SweepLabels]
        /\ \A q \in Writers : pc'[q] \in WriterLabels
        /\ \A s \in Sweepers : pc'[s] \in SweepLabels
    BY <1>1, <1>3 DEF IInv, TypeOK, WriterLabels
  <2>3. code' \in [Processes -> {"none", "zero", "one", "two"}]
    BY <1>1 DEF IInv, TypeOK, ExitCode
  <2>4. todo' \in [Writers -> Seq(AllRows)]
    BY <1>1, <1>3 DEF IInv, TypeOK
  <2>5. tx' \in [Writers -> [at : Nat \cup {-1}, rows : SUBSET LedgerRows,
                             results : SUBSET ResultRows]]
    BY <1>1 DEF IInv, TypeOK, NoTx
  <2> QED
    BY <1>1, <2>1, <2>2, <2>3, <2>4, <2>5 DEF IInv, TypeOK
<1>15. /\ \A q \in Writers \ {p} : PlanOf(q)' /\ TransactionOf(q)' /\ ExitsOf(q)'
       /\ \A s \in Sweepers \ {p} : SweepOf(s)'
  <2> DEFINE A == {row}
  <2>1. runs' = runs \cup A /\ \A r \in A : r = row
    BY <1>10
  <2>2. clock' \in Nat /\ clock <= clock'
    BY <1>1 DEF IInv, TypeOK
  <2>3. pc'[p] \notin Writing
    BY <1>11 DEF Writing
  <2> HIDE DEF A
  <2>4. \A r \in A : r.by = p /\ r.id[1] \notin Writers \ {p}
    BY <1>3, <1>7, <2>1
  <2>5. \A r \in A : \A q \in Writers \ {p} : pc[q] \in Writing => r.created # tx[q].at
    BY <1>5, <1>7, <2>1
  <2>6. p \in Writers /\ pc'[p] \in Writing =>
          \A q \in Writers \ {p} : pc[q] \in Writing => tx'[p].at # tx[q].at
    BY <2>3
  <2>7. runs' = runs \cup A
    BY <2>1
  <2>8. p \in Processes
    BY <1>3
  <2> HIDE DEF Writing
  <2>9. Aside(p, A)
    BY ONLY <1>12, <1>13, <2>2, <2>4, <2>5, <2>6, <2>7 DEF Aside
  <2> QED
    BY ONLY IInv, <2>8, <2>9, OthersKeep
<1>16. Runs'
  <2>1. RunOf(row)
    <3>1. /\ p \notin Embedders => h.lock = NoCandidate
          /\ p \in Embedders =>
               /\ h.path = "embeddings_bakeoff" /\ h.component = "text_embeddings"
               /\ h.measured \in Measured /\ h.lock = SelectWinner(h.measured)
      BY <1>3, PlannedAre
    <3> QED
      BY <1>3, <1>5, <1>7, <1>8, <3>1 DEF RunOf
  <2>2. \A r \in runs' : RunOf(r)' <=> RunOf(r)
    BY <1>1 DEF RunOf
  <2>3. Runs
    BY DEF IInv
  <2> QED
    BY <1>5, <1>7, <1>10, <2>1, <2>2, <2>3 DEF Runs
<1>17. PlanOf(p)'
  <2>1. CASE last
    BY <1>11, <2>1 DEF PlanOf, Active, Writing
  <2>2. CASE ~last
    <3>1. Len(todo[p]) \in Nat /\ Len(todo[p]) > 1
      <4>1. Len(todo[p]) \in Nat \ {0}
        BY <1>3, HeadOrTail
      <4>2. Len(todo[p]) # 1
        BY <2>2
      <4>3. \A n \in Nat \ {0} : n # 1 => n \in Nat /\ n > 1
        OBVIOUS
      <4> QED
        BY <4>1, <4>2, <4>3
    <3>2. /\ Tail(todo[p]) \in Seq(PlannedRows(p))
          /\ DOMAIN Tail(todo[p]) = 1 .. Len(todo[p]) - 1
          /\ \A i \in 1 .. Len(todo[p]) - 1 :
               i + 1 \in DOMAIN todo[p] /\ Tail(todo[p])[i] = todo[p][i + 1]
      BY <1>3, HeadOrTail
    <3>3. Tail(todo[p]) # <<>>
      BY <1>3, <3>1, HeadOrTail
    <3>4. \A i, j \in DOMAIN todo[p] : todo[p][i].id = todo[p][j].id => i = j
      BY <1>2, <1>4 DEF PlanOf
    <3>5. ASSUME NEW i \in DOMAIN Tail(todo[p])
          PROVE  \A r \in runs' : r.id # Tail(todo[p])[i].id
      <4>1. i \in 1 .. Len(todo[p]) - 1 /\ i + 1 # 1
        BY <3>1, <3>2
      <4>2. \A r \in runs : r.id # todo[p][i + 1].id
        BY <1>2, <1>4, <3>2, <4>1 DEF PlanOf
      <4>3. row.id # todo[p][i + 1].id
        BY <1>3, <1>7, <3>2, <3>4, <4>1
      <4> QED
        BY <1>10, <3>2, <4>1, <4>2, <4>3
    <3>6. \A i, j \in DOMAIN Tail(todo[p]) : Tail(todo[p])[i].id = Tail(todo[p])[j].id => i = j
      <4> SUFFICES ASSUME NEW i \in DOMAIN Tail(todo[p]), NEW j \in DOMAIN Tail(todo[p]),
                          Tail(todo[p])[i].id = Tail(todo[p])[j].id
                   PROVE  i = j
        OBVIOUS
      <4>1. i \in 1 .. Len(todo[p]) - 1 /\ j \in 1 .. Len(todo[p]) - 1
        BY <3>2
      <4>2. i + 1 = j + 1
        BY <3>2, <3>4, <4>1
      <4> QED
        BY <3>1, <4>1, <4>2
    <3>7. pc'[p] = "begin" /\ todo'[p] = Tail(todo[p]) /\ p \notin Embedders
      BY <1>9, <1>11, <2>2
    <3> QED
      BY <3>2, <3>3, <3>5, <3>6, <3>7 DEF PlanOf
  <2> QED
    BY <2>1, <2>2
<1>18. TransactionOf(p)'
  BY <1>11 DEF TransactionOf, Writing
<1>19. ExitsOf(p)'
  <2>1. pc'[p] # "done" => code'[p] = "none"
    BY <1>1, <1>4, <1>11 DEF ExitsOf
  <2>2. ASSUME p \in Embedders, code'[p] = "zero", NEW r \in Written(p)'
        PROVE  r.winner # NoCandidate
    <3>1. h.lock # NoCandidate
      BY <1>9, <1>11, <2>2 DEF ExitCode, h
    <3>2. r = row
      BY <1>9, <1>10, <2>2 DEF Written
    <3> QED
      BY <1>8, <3>1, <3>2
  <2> QED
    BY <2>1, <2>2 DEF ExitsOf
<1>20. Whole'
  <2>1. ASSUME NEW r \in runs, r.by \in Writers
        PROVE  {x.example : x \in {y \in results' : y.run = r.id}} = ToSet(Examples)
    <3>1. r.id # h.id
      BY <1>3
    <3>2. {y \in results' : y.run = r.id} = {y \in results : y.run = r.id}
      BY <1>1, <1>5, <3>1
    <3> QED
      BY <2>1, <3>2 DEF IInv, Whole
  <2>2. {x.example : x \in {y \in results' : y.run = row.id}} = ToSet(Examples)
    <3>1. \A x \in results : x.run # h.id
      BY <1>3 DEF IInv, SweepRows
    <3>2. {y \in results' : y.run = row.id} = tx[p].results
      BY <1>1, <1>5, <1>7, <3>1
    <3>3. \A x \in tx[p].results : x.example \in ToSet(Examples)
      BY DEF IInv, TypeOK, ResultRows
    <3>4. \A e \in ToSet(Examples) : Result(h.id, e, p).example = e
      BY DEF Result
    <3> QED
      BY <1>6, <3>2, <3>3, <3>4
  <2> QED
    BY <1>10, <2>1, <2>2 DEF Whole
<1>21. SweepRows'
  <2>1. \A x \in results' : \E r \in runs' : r.id = x.run /\ r.by = x.by
    BY <1>1, <1>5, <1>7, <1>10 DEF IInv, SweepRows
  <2>2. ASSUME NEW r \in runs', r.by \in Sweepers
        PROVE  \/ \E x \in results' : x.run = r.id
               \/ pc'[r.by] \in {"result", "dead"} /\ r.id = SweepRun(r.by)'
    <3>1. r \in runs /\ r.by # p
      BY <1>3, <1>7, <1>10, <2>2
    <3>2. pc'[r.by] = pc[r.by] /\ SweepRun(r.by)' = SweepRun(r.by)
      BY <1>12, <2>2, <3>1 DEF Processes, SweepRun
    <3> QED
      BY <1>1, <2>2, <3>1, <3>2 DEF IInv, SweepRows
  <2> QED
    BY <2>1, <2>2 DEF SweepRows
<1> QED
  BY <1>3, <1>14, <1>15, <1>16, <1>17, <1>18, <1>19, <1>20, <1>21, Together

\* A writer dies: its transaction rolls back.
LEMMA DiesKeeps ==
  ASSUME IInv, NEW p \in Writers, Dies(p)
  PROVE  IInv'
<1>1. /\ pc[p] \in {"measure", "begin", "run", "results", "commit"}
      /\ pc' = [pc EXCEPT ![p] = "dead"] /\ tx' = [tx EXCEPT ![p] = NoTx]
      /\ todo' = [todo EXCEPT ![p] = <<>>] /\ UNCHANGED <<tables, code, left>>
  BY DEF Dies
<1>2. p \in Processes /\ p \notin Sweepers
  BY ScriptsAssumption DEF Processes
<1>3. TypeOK'
  <2>1. todo' \in [Writers -> Seq(AllRows)]
    BY <1>1 DEF IInv, TypeOK
  <2>2. tx' \in [Writers -> [at : Nat \cup {-1}, rows : SUBSET LedgerRows,
                             results : SUBSET ResultRows]]
    BY <1>1 DEF IInv, TypeOK, NoTx
  <2>3. /\ pc' \in [Processes -> WriterLabels \cup SweepLabels]
        /\ \A q \in Writers : pc'[q] \in WriterLabels
        /\ \A s \in Sweepers : pc'[s] \in SweepLabels
    BY <1>1, <1>2 DEF IInv, TypeOK, WriterLabels
  <2>4. UNCHANGED <<runs, results, clock, code, left>>
    BY <1>1 DEF tables
  <2> QED
    BY <2>1, <2>2, <2>3, <2>4 DEF IInv, TypeOK
<1>4. pc'[p] = "dead" /\ code'[p] = code[p] /\ runs' = runs
  BY <1>1, <1>2 DEF IInv, TypeOK, tables
<1>5. /\ \A q \in Writers \ {p} : PlanOf(q)' /\ TransactionOf(q)' /\ ExitsOf(q)'
      /\ \A s \in Sweepers \ {p} : SweepOf(s)'
      /\ Runs' /\ Whole' /\ SweepRows'
  <2>1. \A q \in Processes \ {p} : pc'[q] = pc[q] /\ code'[q] = code[q] /\ left'[q] = left[q]
    BY <1>1 DEF IInv, TypeOK
  <2>2. \A q \in Writers \ {p} : todo'[q] = todo[q] /\ tx'[q] = tx[q]
    BY <1>1 DEF IInv, TypeOK
  <2>3. UNCHANGED tables
    BY <1>1
  <2>4. pc'[p] \notin Writing
    BY <1>4 DEF Writing
  <2> QED
    BY <1>2, <2>1, <2>2, <2>3, <2>4, QuietKeeps
<1>6. PlanOf(p)' /\ TransactionOf(p)' /\ ExitsOf(p)'
  <2>1. ExitsOf(p) /\ Written(p)' = Written(p) /\ pc[p] # "done"
    BY <1>1, <1>4 DEF IInv, Scripts, Written
  <2> QED
    BY <1>4, <2>1 DEF PlanOf, TransactionOf, ExitsOf, Active, Writing
<1> QED
  BY <1>2, <1>3, <1>5, <1>6, Together

-----------------------------------------------------------------------------
\* The preparation sweep, whose every statement commits.

\* A sweep's run is no writer's.
LEMMA SweepNames ==
  ASSUME IInv, NEW s \in Sweepers, left[s] # <<>>
  PROVE  /\ s \in Processes /\ s \notin Writers /\ SweepRun(s) \in Ids
         /\ SweepRun(s)[1] = SweepId[s] /\ SweepId[s] \notin Writers
         /\ Head(left[s]) \in ToSet(Examples)
<1>1. s \in Processes /\ s \notin Writers /\ SweepId[s] \notin Writers
  BY ScriptsAssumption, SweepAssumption DEF Processes
<1>2. left[s] \in Seq(ToSet(Examples))
  BY <1>1 DEF IInv, TypeOK
<1>3. Head(left[s]) \in ToSet(Examples)
  BY <1>2, HeadOrTail
<1> QED
  BY <1>1, <1>3 DEF SweepRun, Ids

\* insert_run of a sweep.
LEMMA GenerateForBakeoffKeeps ==
  ASSUME IInv, NEW s \in Sweepers, GenerateForBakeoff(s)
  PROVE  IInv'
<1> DEFINE row == SweepRow(s)
<1>1. /\ left[s] # <<>> /\ pc[s] = "example" /\ pc' = [pc EXCEPT ![s] = "result"]
      /\ \A r \in runs : r.id # SweepRun(s)
      /\ runs' = runs \cup {row} /\ clock' = clock + 1
      /\ UNCHANGED <<results, code, todo, left, tx>>
  BY DEF GenerateForBakeoff, Goto
<1>2. /\ s \in Processes /\ s \notin Writers /\ SweepRun(s) \in Ids
      /\ SweepRun(s)[1] = SweepId[s] /\ SweepId[s] \notin Writers
  BY <1>1, SweepNames
<1>3. clock \in Nat /\ clock' \in Nat /\ clock < clock' /\ clock <= clock'
  BY <1>1 DEF IInv, TypeOK
<1>4. /\ row \in LedgerRows /\ row.id = SweepRun(s) /\ row.by = s /\ row.created = clock
      /\ row.winner = NoCandidate
  <2> HIDE DEF Ids, Processes
  <2> QED
    BY <1>2, <1>3, NoConstants DEF SweepRow, Inserted, Row, LedgerRows, Paths, Components
<1> HIDE DEF row
<1>5. TypeOK'
  <2>1. runs' \in SUBSET LedgerRows
    BY <1>1, <1>4 DEF IInv, TypeOK
  <2>2. /\ pc' \in [Processes -> WriterLabels \cup SweepLabels]
        /\ \A q \in Writers : pc'[q] \in WriterLabels
        /\ \A q \in Sweepers : pc'[q] \in SweepLabels
    BY <1>1, <1>2 DEF IInv, TypeOK, SweepLabels
  <2> QED
    BY <1>1, <1>3, <2>1, <2>2 DEF IInv, TypeOK
<1>6. pc'[s] = "result" /\ left' = left
  BY <1>1, <1>2 DEF IInv, TypeOK
<1>7. \A q \in Processes \ {s} : pc'[q] = pc[q]
  BY <1>1 DEF IInv, TypeOK
<1>8. /\ \A q \in Writers \ {s} : PlanOf(q)' /\ TransactionOf(q)' /\ ExitsOf(q)'
      /\ \A q \in Sweepers \ {s} : SweepOf(q)'
  <2> DEFINE A == {row}
  <2>1. runs' = runs \cup A /\ \A r \in A : r = row
    BY <1>1
  <2> HIDE DEF A
  <2>2. \A r \in A : r.by = s /\ r.id[1] \notin Writers \ {s}
    BY <1>2, <1>4, <2>1
  <2>3. \A r \in A : \A q \in Writers \ {s} : pc[q] \in Writing => r.created # tx[q].at
    <3>1. \A q \in Writers : pc[q] \in Writing => tx[q].at \in Nat /\ tx[q].at < clock
      BY DEF IInv, Scripts, TransactionOf
    <3> QED
      BY <1>3, <1>4, <2>1, <3>1
  <2>4. s \in Writers /\ pc'[s] \in Writing =>
          \A q \in Writers \ {s} : pc[q] \in Writing => tx'[s].at # tx[q].at
    BY <1>2
  <2>5. \A q \in Processes \ {s} : pc'[q] = pc[q] /\ code'[q] = code[q] /\ left'[q] = left[q]
    BY <1>1, <1>7
  <2>6. \A q \in Writers \ {s} : todo'[q] = todo[q] /\ tx'[q] = tx[q]
    BY <1>1
  <2>7. runs' = runs \cup A
    BY <2>1
  <2>8. s \in Processes /\ clock' \in Nat /\ clock <= clock'
    BY <1>2, <1>3
  <2> HIDE DEF Writing
  <2>9. Aside(s, A)
    BY ONLY <2>2, <2>3, <2>4, <2>5, <2>6, <2>7, <2>8 DEF Aside
  <2>10. s \in Processes
    BY <2>8
  <2> QED
    BY ONLY IInv, <2>9, <2>10, OthersKeep
<1>9. Runs'
  <2>1. \A r \in runs : r.created \in Nat /\ r.created < clock /\ RunOf(r)
    BY DEF IInv, TypeOK, LedgerRows, Runs, RunOf
  <2>2. \A r \in runs : RunOf(r)'
    BY <1>3, <2>1 DEF RunOf
  <2>3. ASSUME NEW r, r = row  PROVE RunOf(r)'
    <3>1. s \notin Embedders
      BY <1>2 DEF Writers
    <3>2. /\ r.id = SweepRun(s) /\ r.by = s /\ r.created = clock
          /\ r.winner = NoCandidate /\ r.created < clock'
      BY <1>3, <1>4, <2>3
    <3> QED
      BY <1>2, <3>1, <3>2 DEF RunOf
  <2>4. \A r \in runs' : RunOf(r)'
    BY <1>1, <2>2, <2>3
  <2>5. ASSUME NEW r \in runs', NEW q \in runs', r.created = q.created  PROVE r = q
    <3>1. CASE r \in runs /\ q \in runs
      BY <2>5, <3>1 DEF IInv, Runs
    <3>2. CASE r \notin runs \/ q \notin runs
      BY <1>1, <1>3, <1>4, <2>1, <2>5, <3>2
    <3> QED
      BY <3>1, <3>2
  <2> QED
    BY <2>4, <2>5 DEF Runs
<1>10. Whole'
  BY <1>1, <1>2, <1>4 DEF IInv, Whole
<1>11. SweepRows'
  <2>1. \A x \in results' : \E r \in runs' : r.id = x.run /\ r.by = x.by
    BY <1>1 DEF IInv, SweepRows
  <2>2. \A q \in Sweepers : SweepRun(q)' = SweepRun(q)
    BY <1>6 DEF SweepRun
  <2>3. ASSUME NEW r \in runs', r.by \in Sweepers
        PROVE  \/ \E x \in results' : x.run = r.id
               \/ pc'[r.by] \in {"result", "dead"} /\ r.id = SweepRun(r.by)'
    <3>1. CASE r = row
      BY <1>4, <1>6, <2>2, <3>1
    <3>2. CASE r # row
      <4>1. r \in runs
        BY <1>1, <3>2
      <4>2. \/ \E x \in results : x.run = r.id
            \/ pc[r.by] \in {"result", "dead"} /\ r.id = SweepRun(r.by)
        BY <2>3, <4>1 DEF IInv, SweepRows
      <4>3. r.by # s => pc'[r.by] = pc[r.by]
        BY <1>7, <2>3 DEF Processes
      <4> QED
        BY <1>1, <2>2, <2>3, <4>2, <4>3
    <3> QED
      BY <3>1, <3>2
  <2> QED
    BY <2>1, <2>3 DEF SweepRows
<1>12. SweepOf(s)'
  BY <1>1, <1>4, <1>6 DEF SweepOf, SweepRun
<1> QED
  BY <1>2, <1>5, <1>8, <1>9, <1>10, <1>11, <1>12, Together

\* insert_result of a sweep.
LEMMA SweepResultKeeps ==
  ASSUME IInv, NEW s \in Sweepers, SweepResult(s)
  PROVE  IInv'
<1> DEFINE new == Result(SweepRun(s), Head(left[s]), s)
<1>1. /\ pc[s] = "result" /\ pc' = [pc EXCEPT ![s] = "example"]
      /\ results' = results \cup {new} /\ left' = [left EXCEPT ![s] = Tail(@)]
      /\ UNCHANGED <<runs, clock, code, todo, tx>>
  BY DEF SweepResult, Goto
<1>2. left[s] # <<>> /\ \E r \in runs : r.id = SweepRun(s) /\ r.by = s
  BY <1>1 DEF IInv, Scripts, SweepOf
<1>3. /\ s \in Processes /\ s \notin Writers /\ SweepRun(s) \in Ids
      /\ SweepRun(s)[1] = SweepId[s] /\ SweepId[s] \notin Writers
      /\ Head(left[s]) \in ToSet(Examples)
  BY <1>2, SweepNames
<1>4. new \in ResultRows /\ new.run = SweepRun(s) /\ new.by = s
  BY <1>3 DEF Result, ResultRows
<1> HIDE DEF new
<1>5. TypeOK'
  <2>1. results' \in SUBSET ResultRows
    BY <1>1, <1>4 DEF IInv, TypeOK
  <2>2. /\ pc' \in [Processes -> WriterLabels \cup SweepLabels]
        /\ \A q \in Writers : pc'[q] \in WriterLabels
        /\ \A q \in Sweepers : pc'[q] \in SweepLabels
    BY <1>1, <1>3 DEF IInv, TypeOK, SweepLabels
  <2>3. left' \in [Processes -> Seq(ToSet(Examples))]
    <3>1. left[s] \in Seq(ToSet(Examples))
      BY <1>3 DEF IInv, TypeOK
    <3>2. Tail(left[s]) \in Seq(ToSet(Examples))
      BY <1>2, <3>1, HeadOrTail
    <3> QED
      BY <1>1, <3>2 DEF IInv, TypeOK
  <2> QED
    BY <1>1, <2>1, <2>2, <2>3 DEF IInv, TypeOK
<1>6. pc'[s] = "example"
  BY <1>1, <1>3 DEF IInv, TypeOK
<1>7. \A q \in Processes \ {s} : pc'[q] = pc[q] /\ code'[q] = code[q] /\ left'[q] = left[q]
  BY <1>1 DEF IInv, TypeOK
<1>8. /\ \A q \in Writers \ {s} : PlanOf(q)' /\ TransactionOf(q)' /\ ExitsOf(q)'
      /\ \A q \in Sweepers \ {s} : SweepOf(q)'
  <2> DEFINE A == {}
  <2>1. runs' = runs \cup A /\ \A r \in A : FALSE
    BY <1>1
  <2>2. s \in Writers /\ pc'[s] \in Writing =>
          \A q \in Writers \ {s} : pc[q] \in Writing => tx'[s].at # tx[q].at
    BY <1>3
  <2>3. \A q \in Writers \ {s} : todo'[q] = todo[q] /\ tx'[q] = tx[q]
    BY <1>1
  <2>4. clock' \in Nat /\ clock <= clock'
    BY <1>1 DEF IInv, TypeOK
  <2> HIDE DEF A
  <2>5. Aside(s, A)
    BY <1>7, <2>1, <2>2, <2>3, <2>4 DEF Aside
  <2>6. s \in Processes
    BY <1>3
  <2> QED
    BY ONLY IInv, <2>5, <2>6, OthersKeep
<1>9. Runs'
  BY <1>1 DEF IInv, Runs, RunOf
<1>10. Whole'
  <2>1. ASSUME NEW r \in runs, r.by \in Writers
        PROVE  {x.example : x \in {y \in results' : y.run = r.id}} = ToSet(Examples)
    <3>1. r.id[1] = r.by
      BY <2>1 DEF IInv, Runs, RunOf
    <3>2. r.id # SweepRun(s)
      BY <1>3, <2>1, <3>1
    <3>3. {y \in results' : y.run = r.id} = {y \in results : y.run = r.id}
      BY <1>1, <1>4, <3>2
    <3> QED
      BY <2>1, <3>3 DEF IInv, Whole
  <2> QED
    BY <1>1, <2>1 DEF Whole
<1>11. SweepRows'
  <2>1. \A x \in results' : \E r \in runs' : r.id = x.run /\ r.by = x.by
    BY <1>1, <1>2, <1>4 DEF IInv, SweepRows
  <2>2. ASSUME NEW r \in runs', r.by \in Sweepers
        PROVE  \/ \E x \in results' : x.run = r.id
               \/ pc'[r.by] \in {"result", "dead"} /\ r.id = SweepRun(r.by)'
    <3>1. \/ \E x \in results : x.run = r.id
          \/ pc[r.by] \in {"result", "dead"} /\ r.id = SweepRun(r.by)
      BY <1>1, <2>2 DEF IInv, SweepRows
    <3>2. CASE r.by = s
      BY <1>1, <1>4, <3>1, <3>2
    <3>3. CASE r.by # s
      <4>1. pc'[r.by] = pc[r.by] /\ SweepRun(r.by)' = SweepRun(r.by)
        BY <1>7, <2>2, <3>3 DEF Processes, SweepRun
      <4> QED
        BY <1>1, <3>1, <4>1
    <3> QED
      BY <3>2, <3>3
  <2> QED
    BY <2>1, <2>2 DEF SweepRows
<1>12. SweepOf(s)'
  BY <1>6 DEF SweepOf
<1> QED
  BY <1>3, <1>5, <1>8, <1>9, <1>10, <1>11, <1>12, Together

\* A sweep skips an example, or dies.
LEMMA SkipOrDieKeeps ==
  ASSUME IInv, NEW s \in Sweepers, Skip(s) \/ SweepDies(s)
  PROVE  IInv'
<1>1. s \in Processes /\ s \notin Writers
  BY ScriptsAssumption DEF Processes
<1>2. UNCHANGED tables /\ UNCHANGED <<code, todo, tx>>
  BY DEF Skip, SweepDies
<1>3. TypeOK'
  <2>1. CASE Skip(s)
    <3>1. left[s] \in Seq(ToSet(Examples)) /\ left[s] # <<>>
      BY <1>1, <2>1 DEF IInv, TypeOK, Skip
    <3>2. Tail(left[s]) \in Seq(ToSet(Examples))
      BY <3>1, HeadOrTail
    <3>3. left' \in [Processes -> Seq(ToSet(Examples))]
      BY <2>1, <3>2 DEF IInv, TypeOK, Skip
    <3> QED
      BY <1>2, <2>1, <3>3 DEF IInv, TypeOK, Skip, tables
  <2>2. CASE SweepDies(s)
    <3>1. /\ pc' \in [Processes -> WriterLabels \cup SweepLabels]
          /\ \A q \in Writers : pc'[q] \in WriterLabels
          /\ \A q \in Sweepers : pc'[q] \in SweepLabels
      BY <1>1, <2>2 DEF IInv, TypeOK, SweepDies, SweepLabels
    <3> QED
      BY <1>2, <2>2, <3>1 DEF IInv, TypeOK, SweepDies, tables
  <2> QED
    BY <2>1, <2>2
<1>4. \A q \in Processes \ {s} : pc'[q] = pc[q] /\ code'[q] = code[q] /\ left'[q] = left[q]
  BY <1>2 DEF IInv, TypeOK, Skip, SweepDies
<1>5. pc[s] \in {"result", "dead"} => pc'[s] \in {"result", "dead"} /\ left'[s] = left[s]
  BY <1>1 DEF IInv, TypeOK, Skip, SweepDies
<1>6. /\ \A q \in Writers \ {s} : PlanOf(q)' /\ TransactionOf(q)' /\ ExitsOf(q)'
      /\ \A q \in Sweepers \ {s} : SweepOf(q)'
      /\ Runs' /\ Whole' /\ SweepRows'
  <2>1. \A q \in Writers \ {s} : todo'[q] = todo[q] /\ tx'[q] = tx[q]
    BY <1>2
  <2> HIDE DEF Writing
  <2> QED
    BY <1>1, <1>2, <1>4, <1>5, <2>1, QuietKeeps
<1>7. SweepOf(s)'
  <2>1. pc'[s] # "result"
    BY <1>1 DEF IInv, TypeOK, Skip, SweepDies
  <2> QED
    BY <2>1 DEF SweepOf
<1> QED
  BY <1>1, <1>3, <1>6, <1>7, Together

-----------------------------------------------------------------------------
\* The invariant.

\* It holds of empty tables.
LEMMA InitIInv == Init => IInv
<1> SUFFICES ASSUME Init  PROVE IInv
  OBVIOUS
<1>1. PICK cast \in Casts :
        pc = [p \in Processes |->
               IF p \notin cast THEN "off"
               ELSE IF p \in Sweepers THEN "example" ELSE "measure"]
  BY DEF Init
<1>2. /\ runs = {} /\ results = {} /\ clock = 0 /\ code = [p \in Processes |-> "none"]
      /\ todo = [p \in Writers |-> <<>>]
      /\ left = [p \in Processes |-> IF p \in Sweepers THEN Examples ELSE <<>>]
      /\ tx = [p \in Writers |-> NoTx]
  BY DEF Init
<1>3. /\ \A p \in Writers : p \in Processes /\ p \notin Sweepers /\ pc[p] \in {"off", "measure"}
      /\ \A s \in Sweepers : s \in Processes /\ pc[s] \in {"off", "example"}
  BY <1>1, ScriptsAssumption DEF Processes
<1>4. TypeOK
  <2>1. NoTx \in [at : Nat \cup {-1}, rows : SUBSET LedgerRows, results : SUBSET ResultRows]
    BY DEF NoTx
  <2>2. todo \in [Writers -> Seq(AllRows)]
    BY <1>2
  <2>3. left \in [Processes -> Seq(ToSet(Examples))]
    BY <1>2, ExamplesAssumption
  <2>4. /\ pc \in [Processes -> WriterLabels \cup SweepLabels]
        /\ \A p \in Writers : pc[p] \in WriterLabels
        /\ \A s \in Sweepers : pc[s] \in SweepLabels
    BY <1>1, <1>3 DEF WriterLabels, SweepLabels
  <2> QED
    BY <1>2, <2>1, <2>2, <2>3, <2>4 DEF TypeOK
<1>5. Runs /\ Whole /\ SweepRows
  BY <1>2 DEF Runs, Whole, SweepRows
<1>6. ASSUME NEW p \in Writers  PROVE PlanOf(p) /\ TransactionOf(p) /\ ExitsOf(p)
  <2>1. pc[p] \in {"off", "measure"} /\ code[p] = "none" /\ Written(p) = {}
    BY <1>2, <1>3 DEF Written
  <2> QED
    BY <2>1 DEF PlanOf, TransactionOf, ExitsOf, Active, Writing
<1>7. \A s \in Sweepers : SweepOf(s)
  BY <1>3 DEF SweepOf
<1> QED
  BY <1>4, <1>5, <1>6, <1>7 DEF IInv, Scripts

\* Every step of every process keeps it.
LEMMA NextIInv == IInv /\ [Next]_vars => IInv'
<1> SUFFICES ASSUME IInv, [Next]_vars  PROVE IInv'
  OBVIOUS
<1>1. ASSUME NEW p \in Writers,
             \/ MeasureEmbeddings(p) \/ MeasureGenerators(p) \/ MeasureVisual(p)
             \/ Begin(p) \/ InsertRun(p) \/ InsertResult(p) \/ LockWinner(p) \/ Commit(p)
             \/ Dies(p)
      PROVE  IInv'
  BY <1>1, MeasureKeeps, BeginKeeps, InsertRunKeeps, InsertResultKeeps, LockWinnerKeeps,
     CommitKeeps, DiesKeeps
<1>2. ASSUME NEW s \in Sweepers, SweepEnds(s)  PROVE IInv'
  <2>1. s \in Processes /\ s \notin Writers
    BY ScriptsAssumption DEF Processes
  <2> DEFINE c == IF Written(s) = {} THEN "one" ELSE "zero"
  <2>2. c \in {"zero", "one", "two"} /\ pc[s] = "example" /\ Exit(s, c)
    BY <1>2 DEF SweepEnds
  <2> HIDE DEF c
  <2> QED
    BY <2>1, <2>2, ExitKeeps
<1>3. ASSUME NEW s \in Sweepers,
             Skip(s) \/ GenerateForBakeoff(s) \/ SweepResult(s) \/ SweepEnds(s) \/ SweepDies(s)
      PROVE  IInv'
  BY <1>2, <1>3, SkipOrDieKeeps, GenerateForBakeoffKeeps, SweepResultKeeps
<1>4. CASE UNCHANGED vars
  <2>1. UNCHANGED <<runs, results, clock, pc, code, todo, left, tx>>
    BY <1>4 DEF vars, tables
  <2>2. TypeOK' /\ Runs' /\ Whole' /\ SweepRows'
    BY <2>1 DEF IInv, TypeOK, Runs, RunOf, Whole, SweepRows, SweepRun
  <2>3. ASSUME NEW p \in Writers  PROVE PlanOf(p)' /\ TransactionOf(p)' /\ ExitsOf(p)'
    <3>1. PlanOf(p) /\ TransactionOf(p) /\ ExitsOf(p)
      BY DEF IInv, Scripts
    <3>2. PlanOf(p)' /\ ExitsOf(p)'
      BY <2>1, <3>1 DEF PlanOf, ExitsOf, Written
    <3>3. TransactionOf(p)'
      BY <2>1, <3>1 DEF TransactionOf, LockedRow
    <3> QED
      BY <3>2, <3>3
  <2>4. \A s \in Sweepers : SweepOf(s)'
    BY <2>1 DEF IInv, Scripts, SweepOf, SweepRun
  <2> QED
    BY <2>2, <2>3, <2>4 DEF IInv, Scripts
<1> QED
  BY <1>1, <1>3, <1>4 DEF Next

\* So it always holds.
LEMMA AlwaysIInv == Spec => []IInv
<1> QED
  BY InitIInv, NextIInv, PTL DEF Spec

-----------------------------------------------------------------------------
\* No table holds what the schema and the scripts would not put there, and every
\* process is at a statement of its own script.
THEOREM TypeCorrect == Spec => []TypeOK
<1>1. IInv => TypeOK
  BY DEF IInv
<1> QED
  BY <1>1, AlwaysIInv, PTL

\* The sweep's runs and results match, whatever else runs, and a run without its
\* result is the last of a sweep that is at it or died (run_bakeoff_prep_sweep).
THEOREM SweepsMatch == Spec => []SweepRows
<1>1. IInv => SweepRows
  BY DEF IInv
<1> QED
  BY <1>1, AlwaysIInv, PTL

\* A bakeoff's or an evaluation's run is committed with all of its results and
\* with its lock, or not at all (one psycopg transaction per run).
THEOREM RunsCommitWhole == Spec => []RunsAreWhole
<1>1. ASSUME IInv  PROVE RunsAreWhole
  <2>1. ASSUME NEW r \in runs, r.by \in Embedders
        PROVE  r.winner # NoCandidate <=> Eligible(r.measured) # {}
    <3>1. r.measured \in Measured /\ r.winner = SelectWinner(r.measured)
      BY <1>1, <2>1 DEF IInv, Runs, RunOf
    <3> QED
      BY <3>1, RuleSelects
  <2>2. \A x \in results : \E r \in runs : r.id = x.run
    BY <1>1 DEF IInv, SweepRows
  <2> QED
    BY <1>1, <2>1, <2>2 DEF IInv, Whole, RunsAreWhole
<1> QED
  BY <1>1, AlwaysIInv, PTL

\* Some run is the newest of those locked, if any is: there is a row for
\* load_bakeoff_winner to serve.
LEMMA NewestLock ==
  ASSUME IInv, NEW component, NEW path, NEW r \in Locked(component, path)
  PROVE  \E s \in LoadBakeoffWinner(component, path) : s.created >= r.created
<1> DEFINE L == Locked(component, path)
           T == {s.created : s \in L}
<1>1. \A s \in L : s \in runs /\ s.created \in Nat /\ s.created < clock
  BY DEF Locked, IInv, TypeOK, LedgerRows, Runs, RunOf
<1>2. T \in SUBSET (0 .. clock) /\ clock \in Int
  BY <1>1 DEF IInv, TypeOK
<1>3. IsFiniteSet(T)
  <2>1. IsFiniteSet(0 .. clock)
    BY <1>2, FS_Interval
  <2> HIDE DEF T
  <2> QED
    BY <1>2, <2>1, FS_Subset
<1>4. r.created \in T /\ T \in SUBSET Int
  BY <1>2
<1>5. PICK m \in T : \A x \in T : x <= m
  <2> HIDE DEF T
  <2> QED
    BY <1>3, <1>4, Greatest
<1>6. PICK s \in L : s.created = m
  BY <1>5
<1>7. \A q \in L : s.created >= q.created
  BY <1>1, <1>5, <1>6
<1> QED
  BY <1>6, <1>7 DEF LoadBakeoffWinner

\* The lock is the rule's choice, and that of a bakeoff that exits with 0 is
\* served until a bakeoff begun later commits its own (ADR 004;
\* run_embeddings_bakeoff, load_bakeoff_winner).
THEOREM LocksFollowRule == Spec => []LockedByRule
<1>1. ASSUME IInv  PROVE LockedByRule
  <2>1. ASSUME NEW r \in runs, r.winner # NoCandidate
        PROVE  /\ r.winner = SelectGeneratorWinner(r.measured)
               /\ ByRule(r.measured, r.winner)
    <3>1. r.measured \in Measured /\ r.winner = SelectWinner(r.measured)
      BY <1>1, <2>1 DEF IInv, Runs, RunOf
    <3> QED
      BY <2>1, <3>1, RuleSelects
  <2>2. ASSUME NEW p \in Embedders, code[p] = "zero", NEW r \in Written(p)
        PROVE  /\ r.winner # NoCandidate
               /\ \E s \in LoadBakeoffWinner("text_embeddings", "embeddings_bakeoff") :
                    s.created >= r.created
    <3>1. p \in Writers /\ r \in runs /\ r.by = p
      BY <2>2 DEF Writers, Written
    <3>2. r.winner # NoCandidate
      BY <1>1, <2>2, <3>1 DEF IInv, Scripts, ExitsOf
    <3>3. r \in Locked("text_embeddings", "embeddings_bakeoff")
      BY <1>1, <2>2, <3>1, <3>2 DEF IInv, Runs, RunOf, Locked
    <3> QED
      BY <1>1, <3>2, <3>3, NewestLock
  <2> QED
    BY <2>1, <2>2 DEF LockedByRule, ByRule
<1> QED
  BY <1>1, AlwaysIInv, PTL

\* The winner in force only gives way to that of a bakeoff that began later, in
\* whatever order their transactions commit (insert_run's created_at is now(), the
\* time the transaction began; load_bakeoff_winner orders by it).
THEOREM WinnerNeverFallsBack == Spec => WinnerAdvances
<1>1. IInv /\ IInv' /\ [Next]_vars =>
        [LET now == LoadBakeoffWinner("text_embeddings", "embeddings_bakeoff") IN
         \A r \in now, s \in now' : r = s \/ r.created < s.created]_vars
  <2> SUFFICES ASSUME IInv, IInv', [Next]_vars,
                      NEW r \in LoadBakeoffWinner("text_embeddings", "embeddings_bakeoff"),
                      NEW s \in LoadBakeoffWinner("text_embeddings", "embeddings_bakeoff")'
               PROVE  r = s \/ r.created < s.created
    OBVIOUS
  <2>1. runs \subseteq runs'
    BY DEF Next, MeasureEmbeddings, MeasureGenerators, MeasureVisual, Exit, Plan, Begin,
           InsertRun, InsertResult, LockWinner, Commit, Dies, Skip, GenerateForBakeoff,
           SweepResult, SweepEnds, SweepDies, vars, tables
  <2>2. /\ r \in runs /\ r \in Locked("text_embeddings", "embeddings_bakeoff")'
    BY <2>1 DEF LoadBakeoffWinner, Locked
  <2>3. s \in runs' /\ s.created >= r.created
    BY <2>2 DEF LoadBakeoffWinner, Locked
  <2>4. r.created \in Nat /\ s.created \in Nat
    BY <2>1, <2>2, <2>3 DEF IInv, TypeOK, LedgerRows
  <2>5. r.created = s.created => r = s
    BY <2>1, <2>2, <2>3 DEF IInv, Runs
  <2> QED
    BY <2>3, <2>4, <2>5
<1> QED
  BY <1>1, AlwaysIInv, PTL DEF Spec, WinnerAdvances
=============================================================================
