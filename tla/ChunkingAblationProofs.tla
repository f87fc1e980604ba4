----------------------- MODULE ChunkingAblationProofs -----------------------
(***************************************************************************)
(* Theorems about ChunkingAblation, for all talks, workers, lists of talks *)
(* and numbers of runs, proved with TLAPS: the strategies coexist, and an  *)
(* aligned row was counted when all its chunks were embedded, and no chunk *)
(* waits for its embeddings without a message.                             *)
(***************************************************************************)
EXTENDS ChunkingAblation, FiniteSetTheorems, TLAPS

Chunks == [id : ChunkIds, talk : Talks, strategy : {BASELINE, CANDIDATE}]
Messages == [id : Nat, chunk : ChunkIds]
Results == [n : Nat, aligned : BOOLEAN, complete : BOOLEAN]
Rows == [run : Nat, strategy : {BASELINE, CANDIDATE}, result : Results]
Phases == {"idle", "rechunk", "drain", "recall", "count", "embeds", "tsv", "persist"}

TablesOK ==
  /\ chunks \subseteq Chunks /\ embedded \subseteq ChunkIds
  /\ status \in [ChunkIds -> {"absent", "pending", "completed"}]
  /\ queue \subseteq Messages
  /\ holds \in [Processes -> Messages \cup {NoMessage}]
  /\ lastChunk \in Nat /\ lastMsg \in Nat

MeasuringOK ==
  /\ phase \in Phases
  /\ at \in [strategy : 1..2, vid : 1..Len(VIDS)]
  /\ total \in Nat /\ dense \in Nat
  /\ results \in Seq(Results) /\ rows \subseteq Rows
  /\ runs \in 0..MaxRuns /\ cuts \in 0..MaxCuts /\ faults \in 0..MaxFaults

TypeOK == TablesOK /\ MeasuringOK

\* An id is given once, and there are enough: each run takes one per talk of
\* its list, each chunk job at most one.
IdsAreFresh ==
  /\ \A c, d \in chunks : c.id = d.id => c = d
  /\ \A c \in chunks : c.id <= lastChunk
  /\ lastChunk + (IF phase = "rechunk" THEN Len(VIDS) ELSE 0) <= cuts + runs * Len(VIDS)

\* The chunks of the strategy that is measured, and those of them that can be
\* found, only become more until the text index is counted; so there are at
\* least as many as were counted.
Measured ==
  /\ phase = "tsv" =>
       dense <= Cardinality(Ids(ChunksOf(Strategies[at.strategy])) \cap embedded)
  /\ phase \in {"rechunk", "drain", "recall", "count", "embeds", "tsv"} =>
       Len(results) = at.strategy - 1
  /\ phase = "persist" => Len(results) = 2
  /\ \A i \in DOMAIN results : results[i].aligned => results[i].complete

IInv == TypeOK /\ IdsAreFresh /\ Measured /\ AlignedIsComplete

-----------------------------------------------------------------------------
\* Ids and lists.

\* VIDS has talks in it.
LEMMA ListFacts ==
  Len(VIDS) \in Nat \ {0} /\ DOMAIN VIDS = 1..Len(VIDS) /\ \A i \in 1..Len(VIDS) : VIDS[i] \in Talks
  BY VidsAssumption

\* A serial that no more jobs and runs have taken than there may be is an id.
LEMMA EnoughIds ==
  ASSUME NEW x \in Nat, NEW c \in 0..MaxCuts, NEW r \in 0..MaxRuns, x <= c + r * Len(VIDS)
  PROVE  x <= MaxCuts + MaxRuns * Len(VIDS)
<1> DEFINE n == Len(VIDS)
<1>1. n \in Nat /\ MaxRuns \in Nat /\ MaxCuts \in Nat
  BY ListFacts, BoundsAssumption
<1>2. r * n <= MaxRuns * n
  <2>1. PICK d \in Nat : MaxRuns = r + d
    <3>1. MaxRuns - r \in Nat /\ MaxRuns = r + (MaxRuns - r)
      BY <1>1
    <3> QED
      BY <3>1
  <2>2. MaxRuns * n = r * n + d * n
    BY <1>1, <2>1
  <2>3. d * n \in Nat /\ r * n \in Nat
    BY <1>1, <2>1
  <2> QED
    BY <2>2, <2>3
<1>3. r * n \in Nat /\ MaxRuns * n \in Nat
  BY <1>1
<1> QED
  BY <1>1, <1>2, <1>3

\* Sets of ids are finite, and the larger one has more of them.
LEMMA MoreIds ==
  ASSUME NEW T \in SUBSET ChunkIds, NEW S \in SUBSET T
  PROVE  /\ IsFiniteSet(S) /\ IsFiniteSet(T)
         /\ Cardinality(S) \in Nat /\ Cardinality(T) \in Nat
         /\ Cardinality(S) <= Cardinality(T)
         /\ Cardinality(S) = Cardinality(T) => S = T
<1>1. MaxCuts + MaxRuns * Len(VIDS) \in Int
  BY ListFacts, BoundsAssumption
<1>2. IsFiniteSet(ChunkIds)
  BY ONLY <1>1, FS_Interval DEF ChunkIds
<1>3. IsFiniteSet(T)
  BY <1>2, FS_Subset
<1> QED
  BY <1>3, FS_Subset, FS_CardinalityType

\* Counting chunks counts their ids.
LEMMA CountsIds ==
  ASSUME IInv, NEW S \in SUBSET chunks
  PROVE  /\ Ids(S) \in SUBSET ChunkIds
         /\ Cardinality(Ids(S)) = Cardinality(S)
<1> DEFINE f == [i \in Ids(S) |-> CHOOSE c \in S : c.id = i]
<1>1. Ids(S) \in SUBSET ChunkIds
  BY DEF IInv, TypeOK, TablesOK, Chunks, Ids
<1>2. \A i \in Ids(S) : f[i] \in S /\ f[i].id = i
  BY DEF Ids
<1>3. \A c \in S : c.id \in Ids(S) /\ f[c.id] = c
  BY <1>2 DEF IInv, IdsAreFresh, Ids
<1>4. f \in Bijection(Ids(S), S)
  <2> HIDE DEF f
  <2>1. f \in [Ids(S) -> S]
    BY <1>2 DEF f
  <2>2. f \in Injection(Ids(S), S)
    BY <1>2, <2>1 DEF Injection, IsInjective
  <2>3. f \in Surjection(Ids(S), S)
    BY <1>3, <2>1 DEF Surjection
  <2> QED
    BY <2>2, <2>3 DEF Bijection
<1>5. IsFiniteSet(Ids(S))
  BY <1>1, MoreIds
<1> QED
  BY <1>1, <1>4, <1>5, FS_Bijection DEF ExistsBijection

\* The strategy that is measured is one of the two.
LEMMA StrategyFacts ==
  ASSUME IInv
  PROVE  Strategies[at.strategy] \in {BASELINE, CANDIDATE}
<1>1. at.strategy \in 1..2
  BY DEF IInv, TypeOK, MeasuringOK
<1> QED
  BY <1>1 DEF Strategies

\* While chunks and embeddings are only added, what was counted is still there.
LEMMA StillFound ==
  ASSUME IInv, TablesOK', UNCHANGED <<at, dense>>, phase' = "tsv" => phase = "tsv",
         chunks \subseteq chunks', embedded \subseteq embedded'
  PROVE  phase' = "tsv" =>
           dense' <= Cardinality(Ids(ChunksOf(Strategies[at.strategy])) \cap embedded)'
<1> SUFFICES ASSUME phase' = "tsv"
             PROVE  dense <= Cardinality(Ids(ChunksOf(Strategies[at.strategy]))' \cap embedded')
  OBVIOUS
<1> DEFINE s == Strategies[at.strategy]
           S == Ids(ChunksOf(s)) \cap embedded
           T == {c.id : c \in {d \in chunks' : d.strategy = s}} \cap embedded'
<1>1. s' = s
  OBVIOUS
<1>2. T = Ids(ChunksOf(s))' \cap embedded'
  BY <1>1 DEF Ids, ChunksOf
<1>3. S \subseteq T
  BY DEF Ids, ChunksOf
<1>4. T \in SUBSET ChunkIds
  BY DEF TablesOK
<1>5. dense <= Cardinality(S) /\ dense \in Nat
  BY DEF IInv, Measured, TypeOK, MeasuringOK
<1> HIDE DEF S, T
<1>6. Cardinality(S) \in Nat /\ Cardinality(T) \in Nat /\ Cardinality(S) <= Cardinality(T)
  BY <1>3, <1>4, MoreIds
<1> QED
  BY <1>2, <1>5, <1>6

-----------------------------------------------------------------------------
\* The workers.

\* A claimed message names an id.
LEMMA Claimed ==
  ASSUME IInv, NEW p \in Processes, holds[p] # NoMessage
  PROVE  holds[p] \in Messages
  BY DEF IInv, TypeOK, TablesOK

\* Steps that leave the chunks and the course of the ablation alone, and only
\* add embeddings, keep the invariant; so do those that end its run.
LEMMA WorkKeeps ==
  ASSUME IInv, TablesOK', UNCHANGED <<chunks, lastChunk, measuring, rows, runs, cuts>>,
         phase' \in {phase, "idle"}, embedded \subseteq embedded', faults' \in 0..MaxFaults
  PROVE  IInv'
<1>1. TypeOK'
  BY DEF IInv, TypeOK, MeasuringOK, measuring, Phases
<1>2. IdsAreFresh'
  <2>1. lastChunk \in Nat /\ cuts \in Nat /\ runs * Len(VIDS) \in Nat /\ Len(VIDS) \in Nat
    BY ListFacts DEF IInv, TypeOK, TablesOK, MeasuringOK
  <2> DEFINE n == runs * Len(VIDS)
  <2>2. n' = n /\ n \in Nat
    BY <2>1
  <2> HIDE DEF n
  <2>3. lastChunk + (IF phase = "rechunk" THEN Len(VIDS) ELSE 0) <= cuts + n
    BY DEF IInv, IdsAreFresh, n
  <2>4. (lastChunk + (IF phase = "rechunk" THEN Len(VIDS) ELSE 0) <= cuts + n)'
    BY <2>1, <2>2, <2>3
  <2> QED
    BY <2>4 DEF IInv, IdsAreFresh, n
<1>3. phase' = "tsv" =>
        dense' <= Cardinality(Ids(ChunksOf(Strategies[at.strategy])) \cap embedded)'
  BY StillFound DEF measuring
<1>4. Measured'
  BY <1>3 DEF IInv, Measured, measuring
<1> QED
  BY <1>1, <1>2, <1>4 DEF IInv, AlignedIsComplete

\* Reading a message keeps the invariant: a queued one names a known chunk.
LEMMA ClaimKeeps ==
  ASSUME IInv, NEW p \in Processes, Claim(p)
  PROVE  IInv'
<1>1. PICK m \in Oldest : holds' = [holds EXCEPT ![p] = m]
  BY DEF Claim
<1>2. m \in Messages
  BY <1>1 DEF Oldest, Visible, IInv, TypeOK, TablesOK
<1>3. TablesOK'
  BY <1>1, <1>2 DEF Claim, tables, IInv, TypeOK, TablesOK
<1> QED
  BY <1>3, WorkKeeps DEF Claim, tables, bounds, IInv, TypeOK, MeasuringOK

\* Archiving a message keeps the invariant.
LEMMA AcknowledgeKeeps ==
  ASSUME IInv, NEW p \in Processes, Acknowledge(p)
  PROVE  IInv'
<1>1. queue' \subseteq queue
  BY DEF Acknowledge
<1>2. TablesOK'
  BY <1>1 DEF Acknowledge, IInv, TypeOK, TablesOK
<1> QED
  BY <1>2, WorkKeeps DEF Acknowledge, bounds, IInv, TypeOK, MeasuringOK

\* A message whose row is gone ends the ablation's run, and keeps the invariant.
LEMMA RowMissingKeeps ==
  ASSUME IInv, RowMissing
  PROVE  IInv'
<1>1. TablesOK'
  BY DEF RowMissing, tables, IInv, TypeOK, TablesOK
<1> QED
  BY <1>1, WorkKeeps DEF RowMissing, tables, bounds, IInv, TypeOK, MeasuringOK

\* Embedding a chunk keeps the invariant, also one a later strategy replaced.
LEMMA EmbedKeeps ==
  ASSUME IInv, NEW p \in Processes, Embed(p)
  PROVE  IInv'
<1>1. holds[p].chunk \in ChunkIds
  BY Claimed DEF Embed, Messages
<1>2. TablesOK'
  BY <1>1 DEF Embed, IInv, TypeOK, TablesOK
<1> QED
  BY <1>2, WorkKeeps DEF Embed, bounds, IInv, TypeOK, MeasuringOK

\* A handler that raises keeps the invariant.
LEMMA FailsKeeps ==
  ASSUME IInv, NEW p \in Processes, Fails(p)
  PROVE  IInv'
<1>1. TablesOK'
  BY DEF Fails, tables, IInv, TypeOK, TablesOK
<1>2. faults' \in 0..MaxFaults
  BY BoundsAssumption DEF Fails, IInv, TypeOK, MeasuringOK
<1> QED
  BY <1>1, <1>2, WorkKeeps DEF Fails, tables

\* An ablation that is killed keeps the invariant: what it wrote is whole.
LEMMA KilledKeeps ==
  ASSUME IInv, Killed
  PROVE  IInv'
<1>1. TablesOK'
  BY DEF Killed, tables, IInv, TypeOK, TablesOK
<1>2. faults' \in 0..MaxFaults
  BY BoundsAssumption DEF Killed, IInv, TypeOK, MeasuringOK
<1> QED
  BY <1>1, <1>2, WorkKeeps DEF Killed, tables

-----------------------------------------------------------------------------
\* Chunks are added.

\* A chunk job keeps the ids of the chunks it finds, or takes the next one.
LEMMA CutKeeps ==
  ASSUME IInv, NEW t \in Talks, Cut(t)
  PROVE  IInv' /\ chunks \subseteq chunks'
<1> DEFINE old == {c \in chunks : c.talk = t /\ c.strategy = BASELINE}
           ids == IF old = {} THEN {lastChunk + 1} ELSE Ids(old)
           new == {[id |-> i, talk |-> t, strategy |-> BASELINE] : i \in ids}
<1>1. /\ chunks' = chunks \cup new
      /\ lastChunk' = IF old = {} THEN lastChunk + 1 ELSE lastChunk
      /\ status' = [i \in ChunkIds |-> IF i \in ids THEN "pending" ELSE status[i]]
      /\ lastMsg' = lastMsg + 1
      /\ queue' = queue \cup {[id |-> lastMsg', chunk |-> i] : i \in ids}
      /\ cuts < MaxCuts /\ cuts' = cuts + 1
      /\ UNCHANGED <<embedded, holds, phase, measuring, rows, runs, faults>>
  BY DEF Cut
<1>2. /\ lastChunk \in Nat /\ cuts \in 0..MaxCuts /\ runs \in 0..MaxRuns
      /\ runs * Len(VIDS) \in Nat /\ Len(VIDS) \in Nat /\ MaxCuts \in Nat
  BY ListFacts, BoundsAssumption DEF IInv, TypeOK, TablesOK, MeasuringOK
<1>3. old = {} => lastChunk + 1 \in ChunkIds
  <2> SUFFICES ASSUME old = {}  PROVE lastChunk + 1 \in ChunkIds
    OBVIOUS
  <2> DEFINE n == runs * Len(VIDS)
  <2>1. lastChunk + (IF phase = "rechunk" THEN Len(VIDS) ELSE 0) <= cuts + n
    BY DEF IInv, IdsAreFresh
  <2> HIDE DEF n
  <2>2. lastChunk + 1 <= (cuts + 1) + n
    <3>1. n \in Nat
      BY <1>2 DEF n
    <3> QED
      BY <1>2, <2>1, <3>1
  <2>3. cuts + 1 \in 0..MaxCuts /\ lastChunk + 1 \in Nat /\ runs \in 0..MaxRuns
    BY <1>1, <1>2
  <2>4. lastChunk + 1 <= (cuts + 1) + runs * Len(VIDS)
    BY <2>2 DEF n
  <2>5. lastChunk + 1 <= MaxCuts + MaxRuns * Len(VIDS)
    BY ONLY <2>3, <2>4, EnoughIds
  <2> QED
    BY <1>2, <2>5 DEF ChunkIds
<1>4. old \subseteq chunks /\ Ids(old) \subseteq ChunkIds
  BY CountsIds
<1>5. ids \subseteq ChunkIds
  BY <1>3, <1>4
<1>6. \A c \in new : c.id \in ids /\ c.talk = t /\ c.strategy = BASELINE /\ c \in Chunks
  BY <1>5 DEF Chunks
<1>7. old # {} => new \subseteq chunks
  <2> SUFFICES ASSUME old # {}, NEW c \in new  PROVE c \in chunks
    OBVIOUS
  <2>1. PICK d \in old : d.id = c.id
    BY <1>6 DEF Ids
  <2>2. d \in Chunks
    BY <2>1 DEF IInv, TypeOK, TablesOK
  <2>3. c = [id |-> c.id, talk |-> c.talk, strategy |-> c.strategy]
    BY <1>6 DEF Chunks
  <2>4. d = [id |-> d.id, talk |-> d.talk, strategy |-> d.strategy]
    BY <2>2 DEF Chunks
  <2>5. c = d
    BY <1>6, <2>1, <2>3, <2>4
  <2> QED
    BY <2>1, <2>5
<1>8. TablesOK'
  <2>1. chunks' \subseteq Chunks
    BY <1>1, <1>6 DEF IInv, TypeOK, TablesOK
  <2>2. lastChunk' \in Nat /\ lastMsg' \in Nat
    BY <1>1 DEF IInv, TypeOK, TablesOK
  <2>3. queue' \subseteq Messages
    <3>1. \A i \in ids : [id |-> lastMsg', chunk |-> i] \in Messages
      BY <1>5, <2>2 DEF Messages
    <3> QED
      BY <1>1, <3>1 DEF IInv, TypeOK, TablesOK
  <2>4. status' \in [ChunkIds -> {"absent", "pending", "completed"}]
    BY <1>1 DEF IInv, TypeOK, TablesOK
  <2> QED
    BY <1>1, <2>1, <2>2, <2>3, <2>4 DEF IInv, TypeOK, TablesOK
<1>9. MeasuringOK'
  BY <1>1, <1>2 DEF measuring, IInv, TypeOK, MeasuringOK
<1>10. IdsAreFresh'
  <2>1. CASE old = {}
    <3>1. new = {[id |-> lastChunk + 1, talk |-> t, strategy |-> BASELINE]}
      BY <2>1
    <3>2. /\ \A c \in chunks : c.id \in Nat /\ c.id <= lastChunk
          /\ \A c, d \in chunks : c.id = d.id => c = d
      BY DEF IInv, TypeOK, TablesOK, IdsAreFresh, Chunks, ChunkIds
    <3>3. lastChunk' = lastChunk + 1
      BY <1>1, <2>1
    <3> HIDE DEF new
    <3>4. \A c \in chunks' : c.id <= lastChunk'
      BY <1>1, <1>2, <3>1, <3>2, <3>3
    <3>5. \A c, d \in chunks' : c.id = d.id => c = d
      <4> SUFFICES ASSUME NEW c \in chunks \cup new, NEW d \in chunks \cup new, c.id = d.id
                   PROVE  c = d
        BY <1>1
      <4>1. \A e \in new : e.id = lastChunk + 1 /\ \A g \in new : e = g
        BY <3>1
      <4> QED
        BY <1>2, <3>2, <4>1
    <3> DEFINE n == runs * Len(VIDS)
    <3>6. n' = n
      BY <1>1
    <3>7. lastChunk + (IF phase = "rechunk" THEN Len(VIDS) ELSE 0) <= cuts + n
      BY DEF IInv, IdsAreFresh
    <3>8. n \in Nat
      BY <1>2
    <3> HIDE DEF n
    <3>9. lastChunk' + (IF phase' = "rechunk" THEN Len(VIDS) ELSE 0) <= cuts' + n'
      <4>1. phase' = phase /\ cuts' = cuts + 1 /\ lastChunk \in Nat /\ cuts \in Nat
        BY <1>1, <1>2
      <4>2. Len(VIDS) \in Nat
        BY ListFacts
      <4> DEFINE X == IF phase = "rechunk" THEN Len(VIDS) ELSE 0
      <4>3. X \in Nat /\ lastChunk + X <= cuts + n
        BY <3>7, <4>2
      <4>4. (IF phase' = "rechunk" THEN Len(VIDS) ELSE 0) = X
        BY <4>1
      <4> HIDE DEF X
      <4>5. (lastChunk + 1) + X <= (cuts + 1) + n
        BY <3>8, <4>1, <4>3
      <4> QED
        BY <3>3, <3>6, <4>1, <4>4, <4>5
    <3> QED
      BY <3>4, <3>5, <3>9 DEF IdsAreFresh, n
  <2>2. CASE old # {}
    <3>1. chunks' = chunks /\ lastChunk' = lastChunk
      BY <1>1, <1>7, <2>2
    <3> DEFINE n == runs * Len(VIDS)
    <3>2. n' = n
      BY <1>1
    <3>3. lastChunk + (IF phase = "rechunk" THEN Len(VIDS) ELSE 0) <= cuts + n
      BY DEF IInv, IdsAreFresh
    <3>4. n \in Nat
      BY <1>2
    <3> HIDE DEF n
    <3>5. lastChunk' + (IF phase' = "rechunk" THEN Len(VIDS) ELSE 0) <= cuts' + n'
      BY <1>1, <1>2, <3>1, <3>2, <3>3, <3>4
    <3> QED
      BY <3>1, <3>5 DEF IInv, IdsAreFresh, n
  <2> QED
    BY <2>1, <2>2
<1>11. Measured'
  <2>1. phase' = "tsv" =>
          dense' <= Cardinality(Ids(ChunksOf(Strategies[at.strategy])) \cap embedded)'
    <3>1. chunks \subseteq chunks' /\ embedded \subseteq embedded'
      BY <1>1
    <3>2. UNCHANGED <<at, dense, phase>>
      BY <1>1 DEF measuring
    <3> QED
      BY ONLY IInv, <1>8, <3>1, <3>2, StillFound
  <2>2. UNCHANGED <<phase, at, results>>
    BY <1>1 DEF measuring
  <2> QED
    BY ONLY IInv, <2>1, <2>2 DEF IInv, Measured
<1>12. AlignedIsComplete'
  BY <1>1 DEF IInv, AlignedIsComplete
<1> QED
  BY <1>1, <1>8, <1>9, <1>10, <1>11, <1>12 DEF IInv, TypeOK

-----------------------------------------------------------------------------
\* The ablation.

\* Steps that only measure leave the ids alone.
LEMMA MeasuringKeepsIds ==
  ASSUME IInv, UNCHANGED <<tables, holds, cuts, runs>>, phase' # "rechunk"
  PROVE  IdsAreFresh' /\ TablesOK'
<1> DEFINE n == runs * Len(VIDS)
<1>1. n \in Nat /\ n' = n /\ Len(VIDS) \in Nat /\ lastChunk \in Nat /\ cuts \in Nat
  BY ListFacts DEF IInv, TypeOK, TablesOK, MeasuringOK
<1>2. lastChunk + (IF phase = "rechunk" THEN Len(VIDS) ELSE 0) <= cuts + n
  BY DEF IInv, IdsAreFresh
<1> HIDE DEF n
<1>3. lastChunk' + (IF phase' = "rechunk" THEN Len(VIDS) ELSE 0) <= cuts' + n'
  BY <1>1, <1>2 DEF tables
<1> QED
  BY <1>3 DEF n, tables, IInv, IdsAreFresh, TypeOK, TablesOK

\* A run takes its ids within its share.
LEMMA BeginKeeps ==
  ASSUME IInv, NEW measureOnly \in BOOLEAN, Begin(measureOnly)
  PROVE  IInv'
<1>1. /\ phase = "idle" /\ runs < MaxRuns /\ runs' = runs + 1
      /\ phase' = IF measureOnly THEN "recall" ELSE "rechunk"
      /\ at' = Start /\ total' = 0 /\ dense' = 0 /\ results' = NoResults
      /\ UNCHANGED <<tables, holds, rows, cuts, faults>>
  BY DEF Begin
<1>2. TypeOK'
  <2>1. TablesOK'
    BY <1>1 DEF tables, IInv, TypeOK, TablesOK
  <2>2. at' \in [strategy : 1..2, vid : 1..Len(VIDS)]
    BY <1>1, ListFacts DEF Start
  <2>3. results' \in Seq(Results)
    BY <1>1 DEF NoResults
  <2>4. runs' \in 0..MaxRuns
    BY <1>1, BoundsAssumption DEF IInv, TypeOK, MeasuringOK
  <2>5. phase' \in Phases
    BY <1>1 DEF Phases
  <2> QED
    BY <1>1, <2>1, <2>2, <2>3, <2>4, <2>5 DEF IInv, TypeOK, MeasuringOK
<1>3. IdsAreFresh'
  <2> DEFINE l == Len(VIDS)
  <2>1. l \in Nat /\ lastChunk \in Nat /\ cuts \in Nat /\ runs \in Nat
    BY ListFacts DEF IInv, TypeOK, TablesOK, MeasuringOK
  <2>2. lastChunk <= cuts + runs * l
    <3>1. lastChunk + 0 <= cuts + runs * l
      BY <1>1 DEF IInv, IdsAreFresh
    <3> QED
      BY <2>1, <3>1
  <2> HIDE DEF l
  <2>3. runs' * l = runs * l + l
    BY <1>1, <2>1
  <2>4. runs * l \in Nat
    BY <2>1
  <2>5. lastChunk + (IF phase' = "rechunk" THEN l ELSE 0) <= cuts + runs' * l
    BY <2>1, <2>2, <2>3, <2>4
  <2> QED
    BY <1>1, <2>5 DEF l, tables, IInv, IdsAreFresh
<1>4. Measured' /\ AlignedIsComplete'
  BY <1>1 DEF Start, NoResults, IInv, Measured, AlignedIsComplete
<1> QED
  BY <1>2, <1>3, <1>4 DEF IInv

\* What re-chunking takes and gives: it removes rows of the candidate only, and
\* the ids it gives are new ones.
LEMMA RechunkFacts ==
  ASSUME IInv, Rechunk
  PROVE  /\ \A i \in DOMAIN VIDS : lastChunk + i \in ChunkIds
         /\ \A c \in NewChunks : c \in Chunks /\ c.strategy = CANDIDATE
                                  /\ c.id > lastChunk /\ c.id <= lastChunk + Len(VIDS)
         /\ \A c, d \in NewChunks : c.id = d.id => c = d
         /\ OldChunks \subseteq chunks /\ \A c \in OldChunks : c.strategy = CANDIDATE
         /\ Ids(OldChunks) \cap Ids(ChunksOf(BASELINE)) = {}
         /\ Ids(NewChunks) \cap Ids(chunks) = {}
<1>1. /\ lastChunk \in Nat /\ cuts \in 0..MaxCuts /\ runs \in 0..MaxRuns
      /\ phase = "rechunk" /\ Len(VIDS) \in Nat /\ DOMAIN VIDS = 1..Len(VIDS)
  BY ListFacts DEF Rechunk, IInv, TypeOK, TablesOK, MeasuringOK
<1>2. lastChunk + Len(VIDS) <= cuts + runs * Len(VIDS)
  BY <1>1 DEF IInv, IdsAreFresh
<1>3. lastChunk + Len(VIDS) <= MaxCuts + MaxRuns * Len(VIDS)
  <2>1. lastChunk + Len(VIDS) \in Nat
    BY <1>1
  <2> QED
    BY ONLY <1>1, <1>2, <2>1, EnoughIds
<1>4. MaxCuts + MaxRuns * Len(VIDS) \in Nat
  BY <1>1, BoundsAssumption
<1>5. ASSUME NEW i \in DOMAIN VIDS
      PROVE  /\ lastChunk + i \in ChunkIds /\ lastChunk + i > lastChunk
             /\ lastChunk + i <= lastChunk + Len(VIDS)
  <2> DEFINE top == MaxCuts + MaxRuns * Len(VIDS)
  <2>1. i \in 1..Len(VIDS) /\ top \in Nat /\ lastChunk + Len(VIDS) <= top
    BY <1>1, <1>3, <1>4
  <2> HIDE DEF top
  <2>2. lastChunk + i \in 1..top
    BY <1>1, <2>1
  <2> QED
    BY <1>1, <2>1, <2>2 DEF ChunkIds, top
<1>6. ASSUME NEW c \in NewChunks
      PROVE  /\ c \in Chunks /\ c.strategy = CANDIDATE
             /\ c.id > lastChunk /\ c.id <= lastChunk + Len(VIDS)
  <2>1. PICK i \in DOMAIN VIDS :
          c = [id |-> lastChunk + i, talk |-> VIDS[i], strategy |-> CANDIDATE]
    BY DEF NewChunks
  <2>2. VIDS[i] \in Talks
    BY ListFacts
  <2> QED
    BY <1>5, <2>1, <2>2 DEF Chunks
<1>7. ASSUME NEW c \in NewChunks, NEW d \in NewChunks, c.id = d.id
      PROVE  c = d
  <2>1. PICK i \in DOMAIN VIDS :
          c = [id |-> lastChunk + i, talk |-> VIDS[i], strategy |-> CANDIDATE]
    BY DEF NewChunks
  <2>2. PICK j \in DOMAIN VIDS :
          d = [id |-> lastChunk + j, talk |-> VIDS[j], strategy |-> CANDIDATE]
    BY DEF NewChunks
  <2>3. lastChunk + i = lastChunk + j
    BY <1>7, <2>1, <2>2
  <2>4. i = j
    BY <1>1, <2>3
  <2> QED
    BY <2>1, <2>2, <2>4
<1>8. OldChunks \subseteq chunks /\ \A c \in OldChunks : c.strategy = CANDIDATE
  BY DEF OldChunks, ChunksOf
<1>9. Ids(OldChunks) \cap Ids(ChunksOf(BASELINE)) = {}
  BY <1>8 DEF Ids, ChunksOf, BASELINE, CANDIDATE, IInv, IdsAreFresh
<1>10. Ids(NewChunks) \cap Ids(chunks) = {}
  <2>1. \A c \in chunks : c.id <= lastChunk /\ c.id \in Nat
    BY DEF IInv, IdsAreFresh, TypeOK, TablesOK, Chunks, ChunkIds
  <2>2. \A c \in NewChunks, d \in chunks : c.id # d.id
    BY <1>1, <1>6, <2>1 DEF Chunks, ChunkIds
  <2> QED
    BY <2>2 DEF Ids
<1> QED
  BY <1>5, <1>6, <1>7, <1>8, <1>9, <1>10

\* Rechunking a talk keeps the invariant: its new ids are fresh, so no embedding
\* of an old chunk counts for a new one.
LEMMA RechunkKeeps ==
  ASSUME IInv, Rechunk
  PROVE  IInv'
<1>1. /\ phase = "rechunk" /\ phase' = "drain"
      /\ chunks' = (chunks \ OldChunks) \cup NewChunks
      /\ embedded' = embedded \ Ids(OldChunks)
      /\ status' = [i \in ChunkIds |->
                      CASE i \in Ids(NewChunks) -> "pending"
                        [] i \in Ids(OldChunks) -> "absent"
                        [] OTHER -> status[i]]
      /\ queue' = QueueAfterRechunk
      /\ lastChunk' = lastChunk + Len(VIDS) /\ lastMsg' = lastMsg + Len(VIDS)
      /\ UNCHANGED <<holds, measuring, rows, bounds>>
  BY DEF Rechunk
<1>2. /\ lastChunk \in Nat /\ lastMsg \in Nat /\ Len(VIDS) \in Nat /\ DOMAIN VIDS = 1..Len(VIDS)
      /\ chunks \subseteq Chunks
  BY ListFacts DEF IInv, TypeOK, TablesOK
<1>3. TablesOK'
  <2>1. chunks' \subseteq Chunks
    BY <1>1, <1>2, RechunkFacts
  <2>2. queue' \subseteq Messages
    <3>1. \A i \in DOMAIN VIDS : [id |-> lastMsg + i, chunk |-> lastChunk + i] \in Messages
      BY <1>2, RechunkFacts DEF Messages
    <3> QED
      BY <1>1, <3>1 DEF QueueAfterRechunk, IInv, TypeOK, TablesOK
  <2>3. status' \in [ChunkIds -> {"absent", "pending", "completed"}]
    BY <1>1 DEF IInv, TypeOK, TablesOK
  <2>4. lastChunk' \in Nat /\ lastMsg' \in Nat
    BY <1>1, <1>2
  <2> QED
    BY <1>1, <2>1, <2>2, <2>3, <2>4 DEF IInv, TypeOK, TablesOK
<1>4. MeasuringOK'
  BY <1>1 DEF measuring, bounds, IInv, TypeOK, MeasuringOK, Phases
<1>5. IdsAreFresh'
  <2>1. /\ \A c \in chunks : c.id \in Nat /\ c.id <= lastChunk
        /\ \A c, d \in chunks : c.id = d.id => c = d
    BY DEF IInv, TypeOK, TablesOK, IdsAreFresh, Chunks, ChunkIds
  <2>2. \A c \in NewChunks : c.id \in Nat /\ c.id > lastChunk /\ c.id <= lastChunk + Len(VIDS)
    BY RechunkFacts DEF Chunks, ChunkIds
  <2>3. \A c \in chunks' : c.id <= lastChunk'
    BY <1>1, <1>2, <2>1, <2>2
  <2>4. \A c, d \in chunks' : c.id = d.id => c = d
    BY <1>1, <1>2, <2>1, <2>2, RechunkFacts
  <2> DEFINE n == runs * Len(VIDS)
  <2>5. lastChunk + Len(VIDS) <= cuts + n
    BY <1>1 DEF IInv, IdsAreFresh
  <2>6. n' = n /\ cuts' = cuts
    BY <1>1 DEF bounds
  <2>7. n \in Nat /\ cuts \in Nat
    BY <1>2 DEF IInv, TypeOK, MeasuringOK
  <2> HIDE DEF n
  <2>8. lastChunk' + (IF phase' = "rechunk" THEN Len(VIDS) ELSE 0) <= cuts' + n'
    BY <1>1, <1>2, <2>5, <2>6, <2>7
  <2> QED
    BY <2>3, <2>4, <2>8 DEF IdsAreFresh, n
<1>6. Measured' /\ AlignedIsComplete'
  BY <1>1 DEF measuring, IInv, Measured, AlignedIsComplete
<1> QED
  BY <1>3, <1>4, <1>5, <1>6 DEF IInv, TypeOK

\* The end of a drain keeps the invariant.
LEMMA DrainedKeeps ==
  ASSUME IInv, Drained
  PROVE  IInv'
<1>1. phase = "drain" /\ phase' = "recall" /\ UNCHANGED <<tables, holds, measuring, rows, bounds>>
  BY DEF Drained
<1>2. IdsAreFresh' /\ TablesOK'
  BY <1>1, MeasuringKeepsIds DEF bounds
<1>3. MeasuringOK'
  BY <1>1 DEF measuring, bounds, IInv, TypeOK, MeasuringOK, Phases
<1>4. Measured' /\ AlignedIsComplete'
  BY <1>1 DEF measuring, IInv, Measured, AlignedIsComplete
<1> QED
  BY <1>2, <1>3, <1>4 DEF IInv, TypeOK

\* The recall queries change no table and keep the invariant.
LEMMA RecallKeeps ==
  ASSUME IInv, Recall
  PROVE  IInv'
<1>1. phase = "recall" /\ phase' = "count" /\ UNCHANGED <<tables, holds, measuring, rows, bounds>>
  BY DEF Recall
<1>2. IdsAreFresh' /\ TablesOK'
  BY <1>1, MeasuringKeepsIds DEF bounds
<1>3. MeasuringOK'
  BY <1>1 DEF measuring, bounds, IInv, TypeOK, MeasuringOK, Phases
<1>4. Measured' /\ AlignedIsComplete'
  BY <1>1 DEF measuring, IInv, Measured, AlignedIsComplete
<1> QED
  BY <1>2, <1>3, <1>4 DEF IInv, TypeOK

\* Counting the chunks of a talk keeps the invariant.
LEMMA CountChunksKeeps ==
  ASSUME IInv, CountChunks
  PROVE  IInv'
<1> DEFINE s == Strategies[at.strategy]
           mine == {c \in ChunksOf(s) : c.talk = VIDS[at.vid]}
<1>1. /\ phase = "count" /\ total' = total + Cardinality(mine)
      /\ \/ at.vid = Len(VIDS) /\ phase' = "embeds" /\ UNCHANGED at
         \/ at.vid # Len(VIDS) /\ at' = [at EXCEPT !.vid = @ + 1] /\ UNCHANGED phase
      /\ UNCHANGED <<tables, holds, dense, results, rows, bounds>>
  BY DEF CountChunks
<1>2. Cardinality(mine) \in Nat
  <2>1. mine \in SUBSET chunks
    BY DEF ChunksOf
  <2> HIDE DEF mine
  <2> QED
    BY <2>1, CountsIds, MoreIds
<1>3. at' \in [strategy : 1..2, vid : 1..Len(VIDS)] /\ at'.strategy = at.strategy
  BY <1>1, ListFacts DEF IInv, TypeOK, MeasuringOK
<1>4. IdsAreFresh' /\ TablesOK'
  BY <1>1, MeasuringKeepsIds DEF bounds
<1>5. MeasuringOK'
  <2>1. total' \in Nat
    BY <1>1, <1>2 DEF IInv, TypeOK, MeasuringOK
  <2> QED
    BY <1>1, <1>3, <2>1 DEF bounds, IInv, TypeOK, MeasuringOK, Phases
<1>6. Measured' /\ AlignedIsComplete'
  BY <1>1, <1>3 DEF IInv, Measured, AlignedIsComplete
<1> QED
  BY <1>4, <1>5, <1>6 DEF IInv, TypeOK

\* The embedded chunks are counted as they are now.
LEMMA CountEmbedsKeeps ==
  ASSUME IInv, CountEmbeds
  PROVE  IInv'
<1> DEFINE T == Ids(ChunksOf(Strategies[at.strategy])) \cap embedded
<1>1. /\ phase = "embeds" /\ phase' = "tsv" /\ dense' = Cardinality(T)
      /\ UNCHANGED <<tables, holds, at, total, results, rows, bounds>>
  BY DEF CountEmbeds
<1>2. T' = T
  BY <1>1 DEF tables, Ids, ChunksOf
<1>3. T \in SUBSET ChunkIds
  BY DEF IInv, TypeOK, TablesOK
<1>4. dense' \in Nat
  <2> HIDE DEF T
  <2> QED
    BY <1>1, <1>3, MoreIds
<1>5. IdsAreFresh' /\ TablesOK'
  BY <1>1, MeasuringKeepsIds DEF bounds
<1>6. MeasuringOK'
  BY <1>1, <1>4 DEF bounds, IInv, TypeOK, MeasuringOK, Phases
<1>7. Measured'
  <2>1. dense' <= Cardinality(T')
    BY <1>1, <1>2, <1>4
  <2> QED
    BY <1>1, <2>1 DEF IInv, Measured
<1>8. AlignedIsComplete'
  BY <1>1 DEF IInv, AlignedIsComplete
<1> QED
  BY <1>5, <1>6, <1>7, <1>8 DEF IInv, TypeOK

\* Equal counts leave no room for a chunk that is not embedded: those counted as
\* embedded are among the chunks counted last, and are as many.
LEMMA EqualCounts ==
  ASSUME IInv, phase = "tsv",
         dense = Cardinality(ChunksOf(Strategies[at.strategy]))
  PROVE  Ids(ChunksOf(Strategies[at.strategy])) \subseteq embedded
<1> DEFINE mine == ChunksOf(Strategies[at.strategy])
           T == Ids(mine)
           S == T \cap embedded
<1>1. mine \in SUBSET chunks
  BY DEF ChunksOf
<1>2. T \in SUBSET ChunkIds /\ Cardinality(T) = Cardinality(mine)
  BY <1>1, CountsIds
<1>3. S \in SUBSET T
  OBVIOUS
<1>4. dense <= Cardinality(S)
  BY DEF IInv, Measured
<1>5. dense = Cardinality(T)
  BY <1>2
<1> HIDE DEF T, S
<1>6. /\ Cardinality(S) \in Nat /\ Cardinality(T) \in Nat /\ Cardinality(S) <= Cardinality(T)
      /\ Cardinality(S) = Cardinality(T) => S = T
  BY ONLY <1>2, <1>3, MoreIds
<1>7. S = T
  BY <1>4, <1>5, <1>6
<1> QED
  BY <1>7 DEF S, T

\* Writing a strategy's row keeps the invariant: its count is that of the talks
\* counted since the drain.
LEMMA CountTsvKeeps ==
  ASSUME IInv, CountTsv
  PROVE  IInv'
<1> DEFINE mine == ChunksOf(Strategies[at.strategy])
           r == [n |-> total, aligned |-> Aligned(Cardinality(mine)),
                 complete |-> Ids(mine) \subseteq embedded]
<1>1. /\ phase = "tsv" /\ results' = Append(results, r)
      /\ \/ /\ at.strategy = Len(Strategies)
            /\ phase' = "persist" /\ at' = Start
         \/ /\ at.strategy # Len(Strategies)
            /\ phase' = "recall" /\ at' = [strategy |-> at.strategy + 1, vid |-> 1]
      /\ total' = 0 /\ dense' = 0
      /\ UNCHANGED <<tables, holds, rows, bounds>>
  BY DEF CountTsv
<1>2. Len(Strategies) = 2 /\ at.strategy \in 1..2 /\ Len(results) = at.strategy - 1
  BY <1>1 DEF Strategies, IInv, TypeOK, MeasuringOK, Measured
<1>3. r \in Results
  <2>1. Aligned(Cardinality(mine)) \in BOOLEAN /\ (Ids(mine) \subseteq embedded) \in BOOLEAN
    BY DEF Aligned
  <2>2. total \in Nat
    BY DEF IInv, TypeOK, MeasuringOK
  <2> QED
    BY <2>1, <2>2 DEF Results
<1>4. r.aligned => r.complete
  <2> SUFFICES ASSUME Aligned(Cardinality(mine))  PROVE Ids(mine) \subseteq embedded
    OBVIOUS
  <2>1. dense = Cardinality(mine)
    BY DEF Aligned
  <2> QED
    BY <1>1, <2>1, EqualCounts
<1> HIDE DEF r
<1>5. /\ results' \in Seq(Results) /\ Len(results') = Len(results) + 1
      /\ \A i \in DOMAIN results' : results'[i].aligned => results'[i].complete
  <2>1. results \in Seq(Results)
    BY DEF IInv, TypeOK, MeasuringOK
  <2>2. results' \in Seq(Results) /\ Len(results') = Len(results) + 1
    BY <1>1, <1>3, <2>1
  <2>3. ASSUME NEW i \in DOMAIN results'
        PROVE  results'[i] = r \/ (i \in DOMAIN results /\ results'[i] = results[i])
    BY <1>1, <1>3, <2>1
  <2> QED
    BY <1>4, <2>2, <2>3 DEF IInv, Measured
<1>6. at' \in [strategy : 1..2, vid : 1..Len(VIDS)]
  BY <1>1, <1>2, ListFacts DEF Start
<1>7. IdsAreFresh' /\ TablesOK'
  BY <1>1, MeasuringKeepsIds DEF bounds
<1>8. MeasuringOK'
  BY <1>1, <1>5, <1>6 DEF bounds, IInv, TypeOK, MeasuringOK, Phases
<1>9. Measured'
  <2>1. phase' \in {"persist", "recall"} /\ (phase' = "persist" => at.strategy = 2)
    BY <1>1, <1>2
  <2>2. phase' = "recall" => at'.strategy = at.strategy + 1
    BY <1>1
  <2>3. Len(results') = at.strategy
    BY <1>2, <1>5
  <2>4. phase' = "recall" => Len(results') = at'.strategy - 1
    BY <1>2, <2>2, <2>3
  <2> QED
    BY <1>5, <2>1, <2>3, <2>4 DEF Measured
<1>10. AlignedIsComplete'
  BY <1>1 DEF IInv, AlignedIsComplete
<1> QED
  BY <1>7, <1>8, <1>9, <1>10 DEF IInv, TypeOK

\* A row takes what was measured.
LEMMA PersistKeeps ==
  ASSUME IInv, Persist
  PROVE  IInv'
<1>1. /\ phase = "persist"
      /\ rows' = rows \cup {[run |-> runs, strategy |-> Strategies[at.strategy],
                             result |-> results[at.strategy]]}
      /\ \/ phase' = "idle" /\ UNCHANGED at
         \/ /\ at.strategy # Len(Strategies)
            /\ at' = [at EXCEPT !.strategy = @ + 1] /\ UNCHANGED phase
      /\ UNCHANGED <<tables, holds, total, dense, results, bounds>>
  BY DEF Persist
<1>2. at.strategy \in 1..2 /\ Len(results) = 2 /\ results \in Seq(Results) /\ Len(Strategies) = 2
  BY <1>1 DEF Strategies, IInv, TypeOK, MeasuringOK, Measured
<1>3. /\ results[at.strategy] \in Results
      /\ results[at.strategy].aligned => results[at.strategy].complete
  BY <1>2 DEF IInv, Measured
<1>4. rows' \subseteq Rows
  <2>1. runs \in Nat /\ rows \subseteq Rows
    BY BoundsAssumption DEF IInv, TypeOK, MeasuringOK
  <2>2. [run |-> runs, strategy |-> Strategies[at.strategy],
         result |-> results[at.strategy]] \in Rows
    BY <1>3, <2>1, StrategyFacts DEF Rows
  <2> QED
    BY <1>1, <2>1, <2>2
<1>5. AlignedIsComplete'
  BY <1>1, <1>3 DEF IInv, AlignedIsComplete
<1>6. at' \in [strategy : 1..2, vid : 1..Len(VIDS)]
  BY <1>1, <1>2 DEF IInv, TypeOK, MeasuringOK
<1>7. IdsAreFresh' /\ TablesOK'
  BY <1>1, MeasuringKeepsIds DEF bounds
<1>8. MeasuringOK'
  BY <1>1, <1>4, <1>6 DEF bounds, IInv, TypeOK, MeasuringOK, Phases
<1>9. Measured'
  BY <1>1, <1>2 DEF IInv, Measured
<1> QED
  BY <1>5, <1>7, <1>8, <1>9 DEF IInv, TypeOK

-----------------------------------------------------------------------------
\* The invariant.

\* The tables before the first run satisfy the invariant.
LEMMA InitIInv == Init => IInv
<1> SUFFICES ASSUME Init  PROVE IInv
  OBVIOUS
<1>1. Len(VIDS) \in Nat \ {0} /\ runs * Len(VIDS) = 0
  BY ListFacts DEF Init
<1>2. TypeOK
  BY <1>1, BoundsAssumption
  DEF Init, TypeOK, TablesOK, MeasuringOK, Start, NoResults, Phases
<1>3. IdsAreFresh
  BY <1>1 DEF Init, IdsAreFresh
<1> QED
  BY <1>2, <1>3 DEF Init, NoResults, IInv, Measured, AlignedIsComplete

\* Every step keeps the invariant.
LEMMA NextIInv == IInv /\ [Next]_vars => IInv'
<1> SUFFICES ASSUME IInv, [Next]_vars  PROVE IInv'
  OBVIOUS
<1>1. ASSUME NEW p \in Processes, Claim(p) \/ Acknowledge(p) \/ Embed(p) \/ Fails(p)
      PROVE  IInv'
  BY <1>1, ClaimKeeps, AcknowledgeKeeps, EmbedKeeps, FailsKeeps
<1>2. CASE UNCHANGED vars
  <2>1. UNCHANGED <<tables, holds, measuring, rows, bounds, phase>>
    BY <1>2 DEF vars
  <2>2. TablesOK'
    BY <2>1 DEF tables, IInv, TypeOK, TablesOK
  <2> QED
    BY <2>1, <2>2, WorkKeeps DEF tables, bounds, IInv, TypeOK, MeasuringOK
<1> QED
  BY <1>1, <1>2, RowMissingKeeps, CutKeeps, BeginKeeps, RechunkKeeps, DrainedKeeps,
     RecallKeeps, CountChunksKeeps, CountEmbedsKeeps, CountTsvKeeps, PersistKeeps, KilledKeeps
  DEF Next

\* The invariant holds throughout.
LEMMA AlwaysIInv == Spec => []IInv
<1> QED
  BY InitIInv, NextIInv, PTL DEF Spec

\* The tables, the queue and what the ablation counts keep their types, and ids
\* stay within those there are.
THEOREM TypeCorrect == Spec => []TypeOK
<1>1. IInv => TypeOK
  BY DEF IInv
<1> QED
  BY <1>1, AlwaysIInv, PTL

\* An eval_runs row that says "aligned" comes from a run whose last count found
\* every chunk of its strategy embedded (chunk_stats of run_chunking_ablation.py),
\* whatever the pipeline's workers committed between the counts.  The recall
\* figures of the row are older, and nothing is claimed of them.
THEOREM AlignedWhenCounted == Spec => []AlignedIsComplete
<1>1. IInv => AlignedIsComplete
  BY DEF IInv
<1> QED
  BY <1>1, AlwaysIInv, PTL

-----------------------------------------------------------------------------
\* Chunks that wait for their embeddings.

\* What EmbeddingIsDue rests on: a message is thrown away unserved only when the
\* status row says completed, and then the chunk has its embeddings.
DoneIsEmbedded == \A c \in chunks : status[c.id] = "completed" => c.id \in embedded

DueInv == EmbeddingIsDue /\ DoneIsEmbedded

\* The message archived unserved is that of an embedded chunk.
LEMMA AcknowledgeKeepsDue ==
  ASSUME DueInv, NEW p \in Processes, Acknowledge(p)
  PROVE  DueInv'
<1>1. PICK m \in Oldest : status[m.chunk] = "completed" /\ queue' = queue \ {m}
  BY DEF Acknowledge
<1>2. UNCHANGED <<chunks, embedded, status>>
  BY DEF Acknowledge
<1>3. ASSUME NEW c \in chunks, c.id \notin embedded
      PROVE  \E o \in queue' : o.chunk = c.id
  <2>1. PICK o \in queue : o.chunk = c.id
    BY <1>3 DEF DueInv, EmbeddingIsDue
  <2>2. o # m
    BY <1>1, <1>3, <2>1 DEF DueInv, DoneIsEmbedded
  <2> QED
    BY <1>1, <2>1, <2>2
<1> QED
  BY <1>2, <1>3 DEF DueInv, EmbeddingIsDue, DoneIsEmbedded

\* The message a worker archives is that of the chunk it has embedded.
LEMMA EmbedKeepsDue ==
  ASSUME IInv, DueInv, NEW p \in Processes, Embed(p)
  PROVE  DueInv'
<1>1. /\ embedded' = embedded \cup {holds[p].chunk} /\ queue' = queue \ {holds[p]}
      /\ status' = [status EXCEPT ![holds[p].chunk] = "completed"] /\ UNCHANGED chunks
  BY DEF Embed
<1>2. ASSUME NEW c \in chunks, c.id \notin embedded'
      PROVE  \E o \in queue' : o.chunk = c.id
  <2>1. PICK o \in queue : o.chunk = c.id
    BY <1>1, <1>2 DEF DueInv, EmbeddingIsDue
  <2>2. o # holds[p]
    BY <1>1, <1>2, <2>1
  <2> QED
    BY <1>1, <2>1, <2>2
<1>3. ASSUME NEW c \in chunks, status'[c.id] = "completed"
      PROVE  c.id \in embedded'
  <2>1. c.id \in ChunkIds
    BY DEF IInv, TypeOK, TablesOK, Chunks
  <2>2. status \in [ChunkIds -> {"absent", "pending", "completed"}]
    BY DEF IInv, TypeOK, TablesOK
  <2>3. c.id = holds[p].chunk \/ status[c.id] = "completed"
    BY <1>1, <1>3, <2>1, <2>2
  <2> QED
    BY <1>1, <2>3 DEF DueInv, DoneIsEmbedded
<1> QED
  BY <1>1, <1>2, <1>3 DEF DueInv, EmbeddingIsDue, DoneIsEmbedded

\* A chunk job sends a message for every chunk it writes, and resets its row.
LEMMA CutKeepsDue ==
  ASSUME IInv, DueInv, NEW t \in Talks, Cut(t)
  PROVE  DueInv'
<1> DEFINE old == {c \in chunks : c.talk = t /\ c.strategy = BASELINE}
           ids == IF old = {} THEN {lastChunk + 1} ELSE Ids(old)
           new == {[id |-> i, talk |-> t, strategy |-> BASELINE] : i \in ids}
<1>1. /\ chunks' = chunks \cup new /\ UNCHANGED embedded
      /\ status' = [i \in ChunkIds |-> IF i \in ids THEN "pending" ELSE status[i]]
      /\ queue' = queue \cup {[id |-> lastMsg', chunk |-> i] : i \in ids}
  BY DEF Cut
<1>2. \A c \in chunks' : c.id \in ChunkIds
  BY CutKeeps DEF IInv, TypeOK, TablesOK, Chunks
<1>3. \A c \in new : c.id \in ids
  OBVIOUS
<1> HIDE DEF ids, new
<1>4. ASSUME NEW c \in chunks', c.id \notin embedded'
      PROVE  \E o \in queue' : o.chunk = c.id
  <2>1. CASE c.id \in ids
    <3> DEFINE o == [id |-> lastMsg', chunk |-> c.id]
    <3>1. o \in queue' /\ o.chunk = c.id
      BY <1>1, <2>1
    <3> QED
      BY <3>1
  <2>2. CASE c.id \notin ids
    BY <1>1, <1>3, <1>4, <2>2 DEF DueInv, EmbeddingIsDue
  <2> QED
    BY <2>1, <2>2
<1>5. ASSUME NEW c \in chunks', status'[c.id] = "completed"
      PROVE  c.id \in embedded'
  <2>1. c.id \notin ids /\ status[c.id] = "completed"
    BY <1>1, <1>2, <1>5
  <2> QED
    BY <1>1, <1>3, <2>1 DEF DueInv, DoneIsEmbedded
<1> QED
  BY <1>4, <1>5 DEF DueInv, EmbeddingIsDue, DoneIsEmbedded

\* Re-chunking sends a message for every chunk it inserts; the embeddings it
\* deletes are those of the chunks it deletes.
LEMMA RechunkKeepsDue ==
  ASSUME IInv, DueInv, Rechunk
  PROVE  DueInv'
<1>1. /\ chunks' = (chunks \ OldChunks) \cup NewChunks
      /\ embedded' = embedded \ Ids(OldChunks)
      /\ status' = [i \in ChunkIds |->
                      CASE i \in Ids(NewChunks) -> "pending"
                        [] i \in Ids(OldChunks) -> "absent"
                        [] OTHER -> status[i]]
      /\ queue' = queue \cup {[id |-> lastMsg + i, chunk |-> lastChunk + i] : i \in DOMAIN VIDS}
  BY DEF Rechunk, QueueAfterRechunk
<1>2. ASSUME NEW c \in chunks \ OldChunks
      PROVE  c.id \notin Ids(OldChunks) /\ c.id \notin Ids(NewChunks) /\ c.id \in ChunkIds
  <2>1. c.id \notin Ids(OldChunks)
    BY RechunkFacts DEF IInv, IdsAreFresh, Ids
  <2>2. c.id \in Ids(chunks)
    BY DEF Ids
  <2>3. c.id \in ChunkIds
    BY DEF IInv, TypeOK, TablesOK, Chunks
  <2> QED
    BY <2>1, <2>2, <2>3, RechunkFacts
<1>3. ASSUME NEW c \in NewChunks
      PROVE  /\ status'[c.id] = "pending"
             /\ \E o \in queue' : o.chunk = c.id
  <2>1. PICK i \in DOMAIN VIDS :
          c = [id |-> lastChunk + i, talk |-> VIDS[i], strategy |-> CANDIDATE]
    BY DEF NewChunks
  <2>2. c.id = lastChunk + i /\ c.id \in Ids(NewChunks) /\ c.id \in ChunkIds
    BY <2>1, RechunkFacts DEF Ids
  <2> DEFINE o == [id |-> lastMsg + i, chunk |-> lastChunk + i]
  <2>3. o \in queue' /\ o.chunk = c.id
    BY <1>1, <2>2
  <2>4. status'[c.id] = "pending"
    <3>1. Ids(OldChunks) \subseteq Ids(chunks)
      BY RechunkFacts DEF Ids
    <3>2. c.id \notin Ids(OldChunks)
      BY <2>2, <3>1, RechunkFacts
    <3> QED
      BY <1>1, <2>2, <3>2
  <2> QED
    BY <2>3, <2>4
<1>4. ASSUME NEW c \in chunks', c.id \notin embedded'
      PROVE  \E o \in queue' : o.chunk = c.id
  <2>1. CASE c \in chunks \ OldChunks
    BY <1>1, <1>2, <1>4, <2>1 DEF DueInv, EmbeddingIsDue
  <2> QED
    BY <1>1, <1>3, <2>1
<1>5. ASSUME NEW c \in chunks', status'[c.id] = "completed"
      PROVE  c.id \in embedded'
  <2>1. CASE c \in chunks \ OldChunks
    <3>1. status'[c.id] = status[c.id]
      BY <1>1, <1>2, <2>1
    <3> QED
      BY <1>1, <1>2, <1>5, <2>1, <3>1 DEF DueInv, DoneIsEmbedded
  <2> QED
    BY <1>1, <1>3, <1>5, <2>1
<1> QED
  BY <1>4, <1>5 DEF DueInv, EmbeddingIsDue, DoneIsEmbedded

\* A chunk of either strategy that has no embeddings has a message in the queue
\* (chunk_handler, rechunk_candidate and embed_text_handler), whatever runs died
\* and whoever reads a second message of a chunk.
THEOREM EmbeddingStaysDue == Spec => []EmbeddingIsDue
<1>1. Init => DueInv
  BY DEF Init, DueInv, EmbeddingIsDue, DoneIsEmbedded
<1>2. IInv /\ DueInv /\ [Next]_vars => DueInv'
  <2> SUFFICES ASSUME IInv, DueInv, [Next]_vars  PROVE DueInv'
    OBVIOUS
  <2>1. ASSUME NEW p \in Processes, Acknowledge(p) \/ Embed(p)
        PROVE  DueInv'
    BY <2>1, AcknowledgeKeepsDue, EmbedKeepsDue
  <2>2. ASSUME UNCHANGED <<chunks, embedded, status, queue>>
        PROVE  DueInv'
    BY <2>2 DEF DueInv, EmbeddingIsDue, DoneIsEmbedded
  <2> QED
    BY <2>1, <2>2, CutKeepsDue, RechunkKeepsDue
    DEF Next, vars, tables, Claim, Fails, RowMissing, Begin, Drained, Recall,
        CountChunks, CountEmbeds, CountTsv, Persist, Killed
<1>3. DueInv => EmbeddingIsDue
  BY DEF DueInv
<1> QED
  BY <1>1, <1>2, <1>3, AlwaysIInv, PTL DEF Spec

-----------------------------------------------------------------------------
\* What a step does to the baseline.

Keeps ==
  LET ids == Ids(ChunksOf(BASELINE)) IN
  /\ ChunksOf(BASELINE) \subseteq chunks'
  /\ embedded \cap ids \subseteq embedded'
  /\ \A i \in ids : status[i] = "pending" => status'[i] = "pending" \/ i \in embedded'

\* A step that removes no chunk, no embedding and no status keeps the baseline.
LEMMA QuietStepKeeps ==
  ASSUME chunks \subseteq chunks', embedded \subseteq embedded',
         \A i \in Ids(ChunksOf(BASELINE)) :
           status[i] = "pending" => status'[i] = "pending" \/ i \in embedded'
  PROVE  Keeps
  BY DEF Keeps, ChunksOf

\* Rechunking drops only the chunks of the strategies it replaces.
LEMMA RechunkKeepsBaseline ==
  ASSUME IInv, Rechunk
  PROVE  Keeps
<1> DEFINE ids == Ids(ChunksOf(BASELINE))
<1>1. /\ chunks' = (chunks \ OldChunks) \cup NewChunks
      /\ embedded' = embedded \ Ids(OldChunks)
      /\ status' = [i \in ChunkIds |->
                      CASE i \in Ids(NewChunks) -> "pending"
                        [] i \in Ids(OldChunks) -> "absent"
                        [] OTHER -> status[i]]
  BY DEF Rechunk
<1>2. ids \cap Ids(OldChunks) = {}
  BY RechunkFacts
<1>3. ChunksOf(BASELINE) \subseteq chunks'
  BY <1>1, RechunkFacts DEF ChunksOf, BASELINE, CANDIDATE
<1>4. ASSUME NEW i \in ids, status[i] = "pending"
      PROVE  status'[i] = "pending"
  <2>1. ChunksOf(BASELINE) \in SUBSET chunks
    BY DEF ChunksOf
  <2>2. i \in ChunkIds
    BY <2>1, CountsIds
  <2>3. i \notin Ids(OldChunks)
    BY <1>2
  <2> QED
    BY <1>1, <1>4, <2>2, <2>3
<1> QED
  BY <1>1, <1>2, <1>3, <1>4 DEF Keeps

\* The strategies coexist (rechunk_candidate deletes the candidate's rows of its
\* talks): no step removes a chunk of the baseline or its embeddings, and one that
\* waits for its embeddings stops waiting only by getting them.
THEOREM BaselineStays == Spec => BaselineKept
<1>1. IInv /\ [Next]_vars => [Keeps]_vars
  <2> SUFFICES ASSUME IInv, Next  PROVE Keeps
    OBVIOUS
  <2> DEFINE ids == Ids(ChunksOf(BASELINE))
  <2>1. ASSUME NEW t \in Talks, Cut(t)
        PROVE  Keeps
    <3>1. /\ chunks \subseteq chunks' /\ UNCHANGED embedded
          /\ \A i \in ChunkIds : status'[i] = "pending" \/ status'[i] = status[i]
      BY <2>1, CutKeeps DEF Cut
    <3>2. ids \subseteq ChunkIds
      <4>1. ChunksOf(BASELINE) \in SUBSET chunks
        BY DEF ChunksOf
      <4> QED
        BY <4>1, CountsIds
    <3> QED
      BY <3>1, <3>2, QuietStepKeeps
  <2>2. ASSUME NEW p \in Processes, Embed(p)
        PROVE  Keeps
    <3>1. /\ UNCHANGED chunks /\ embedded' = embedded \cup {holds[p].chunk}
          /\ status' = [status EXCEPT ![holds[p].chunk] = "completed"]
      BY <2>2 DEF Embed
    <3>2. \A i : status[i] = "pending" => status'[i] = "pending" \/ i \in embedded'
      BY <3>1 DEF IInv, TypeOK, TablesOK
    <3> QED
      BY <3>1, <3>2, QuietStepKeeps
  <2>3. ASSUME UNCHANGED <<chunks, embedded, status>>
        PROVE  Keeps
    BY <2>3, QuietStepKeeps
  <2> QED
    BY <2>1, <2>2, <2>3, RechunkKeepsBaseline
    DEF Next, tables, Claim, Acknowledge, Fails, RowMissing, Begin, Drained, Recall,
        CountChunks, CountEmbeds, CountTsv, Persist, Killed
<1>2. BaselineKept <=> [][Keeps]_vars
  BY DEF BaselineKept, Keeps
<1> QED
  BY <1>1, <1>2, AlwaysIInv, PTL DEF Spec
=============================================================================
