-------------------------- MODULE QuestionPathProofs --------------------------
(***************************************************************************)
(* What is proved of a question's way, for every set of questions, tables, *)
(* replies and budgets: its calls keep the contract of ModelCall, its      *)
(* fused lists their order, its answers are grounded, its generators'      *)
(* scores earned and its metrics right.                                    *)
(***************************************************************************)
EXTENDS QuestionPath, FiniteSetTheorems, WellFoundedInduction, TLAPS

-----------------------------------------------------------------------------
(***************************************************************************)
(* Induction, for sets of numbers: the least number outside of a set.      *)
(***************************************************************************)

\* A set that has 0, and with each number the next, has them all.
LEMMA NatSetInduction ==
  ASSUME NEW S, 0 \in S, \A n \in Nat : n \in S => n + 1 \in S
  PROVE  Nat \subseteq S
<1> DEFINE Bad == Nat \ S
<1> SUFFICES ASSUME Bad # {}  PROVE FALSE
  OBVIOUS
<1>1. PICK x \in Bad : \A y \in Bad : ~(<<y, x>> \in OpToRel(<, Nat))
  <2>1. Bad \subseteq Nat
    OBVIOUS
  <2> HIDE DEF Bad
  <2> QED
    BY ONLY <2>1, Bad # {}, NatLessThanWellFounded, WFMin
<1>2. x \in Nat /\ x # 0 /\ x - 1 \in Nat /\ x - 1 < x /\ (x - 1) + 1 = x
  <2>1. x \in Nat /\ x \notin S
    OBVIOUS
  <2>2. x # 0
    BY <2>1
  <2> QED
    BY ONLY <2>1, <2>2
<1>3. <<x - 1, x>> \in OpToRel(<, Nat)
  BY <1>2 DEF OpToRel
<1>4. x - 1 \in S
  BY <1>1, <1>2, <1>3
<1> QED
  BY <1>1, <1>2, <1>4

\* The same up to m.
LEMMA UpTo ==
  ASSUME NEW m \in Nat, NEW S, 0 \in S, \A n \in 0..(m - 1) : n \in S => n + 1 \in S
  PROVE  0..m \subseteq S
<1> DEFINE T == {n \in Nat : n <= m => n \in S}
<1>1. 0 \in T
  OBVIOUS
<1>2. ASSUME NEW n \in Nat, n \in T  PROVE n + 1 \in T
  BY <1>2
<1>3. Nat \subseteq T
  <2> HIDE DEF T
  <2> QED
    BY ONLY <1>1, <1>2, NatSetInduction
<1> QED
  BY <1>3

\* A first value and a way to the next define a sequence.
LEMMA Iterated ==
  ASSUME NEW V, NEW base \in V, NEW h \in [V -> V]
  PROVE  \E f \in [Nat -> V] : f[0] = base /\ \A n \in Nat : f[n + 1] = h[f[n]]
<1> DEFINE Good(g, n) == g[0] = base /\ \A k \in Nat : k < n => g[k + 1] = h[g[k]]
           S == {n \in Nat : \E g \in [Nat -> V] : Good(g, n)}
<1>1. 0 \in S
  <2>1. Good([k \in Nat |-> base], 0)
    OBVIOUS
  <2> QED
    BY <2>1
<1>2. ASSUME NEW n \in Nat, n \in S  PROVE n + 1 \in S
  <2>1. PICK g \in [Nat -> V] : Good(g, n)
    BY <1>2
  <2> DEFINE next == [k \in Nat |-> IF k = 0 THEN base ELSE h[g[k - 1]]]
  <2>2. next \in [Nat -> V]
    OBVIOUS
  <2>3. \A k \in Nat : k <= n => next[k] = g[k]
    <3> SUFFICES ASSUME NEW k \in Nat, k <= n, k # 0  PROVE next[k] = g[k]
      BY <2>1
    <3>1. k - 1 \in Nat /\ k - 1 < n /\ (k - 1) + 1 = k
      OBVIOUS
    <3> QED
      BY <2>1, <3>1
  <2>4. Good(next, n + 1)
    <3> SUFFICES ASSUME NEW k \in Nat, k < n + 1  PROVE next[k + 1] = h[next[k]]
      OBVIOUS
    <3>1. next[k + 1] = h[g[k]]
      OBVIOUS
    <3>2. k <= n
      OBVIOUS
    <3> QED
      BY <2>3, <3>1, <3>2
  <2> HIDE DEF next, Good
  <2> QED
    BY <2>2, <2>4
<1>3. \A n \in Nat : \E g \in [Nat -> V] : Good(g, n)
  <2>1. Nat \subseteq S
    <3> HIDE DEF S
    <3> QED
      BY ONLY <1>1, <1>2, NatSetInduction
  <2> QED
    BY <2>1
<1>4. ASSUME NEW m \in Nat, NEW g \in [Nat -> V], NEW e \in [Nat -> V], Good(g, m), Good(e, m)
      PROVE  \A k \in 0..m : g[k] = e[k]
  <2> DEFINE T == {k \in Nat : k <= m => g[k] = e[k]}
  <2>1. 0 \in T
    BY <1>4
  <2>2. ASSUME NEW k \in Nat, k \in T  PROVE k + 1 \in T
    BY <1>4, <2>2
  <2>3. Nat \subseteq T
    <3> HIDE DEF T
    <3> QED
      BY ONLY <2>1, <2>2, NatSetInduction
  <2> QED
    BY <2>3
<1> DEFINE G == [n \in Nat |-> CHOOSE g \in [Nat -> V] : Good(g, n)]
           f == [n \in Nat |-> G[n][n]]
<1>5. \A n \in Nat : G[n] \in [Nat -> V] /\ Good(G[n], n)
  <2> HIDE DEF Good
  <2> QED
    BY <1>3
<1>6. f \in [Nat -> V]
  <2> HIDE DEF G, Good
  <2> QED
    BY <1>5
<1>7. ASSUME NEW n \in Nat  PROVE f[n + 1] = h[f[n]]
  <2>1. n + 1 \in Nat /\ n \in 0..n /\ n < n + 1
    OBVIOUS
  <2>2. Good(G[n + 1], n)
    <3> HIDE DEF G
    <3> QED
      BY <1>5, <2>1
  <2>3. G[n + 1][n] = G[n][n]
    <3> HIDE DEF G, Good
    <3> QED
      BY <1>4, <1>5, <2>1, <2>2
  <2>4. G[n + 1][n + 1] = h[G[n + 1][n]]
    <3> HIDE DEF G
    <3> QED
      BY <1>5, <2>1
  <2> HIDE DEF G, Good
  <2> QED
    BY <2>1, <2>3, <2>4
<1>8. f[0] = base
  <2>1. Good(G[0], 0) => G[0][0] = base
    <3> HIDE DEF G
    <3> QED
      OBVIOUS
  <2> HIDE DEF G, Good
  <2> QED
    BY <1>5, <2>1
<1> HIDE DEF f
<1> QED
  BY <1>6, <1>7, <1>8

-----------------------------------------------------------------------------
(***************************************************************************)
(* Folds: the functions on the subsets of a finite set that the folds of   *)
(* the library choose do exist.                                            *)
(***************************************************************************)

\* A choice of an element from each subset, and a fold that takes away what is chosen.
Chooses(c, S) == \A s \in SUBSET S : s # {} => c[s] \in s
FoldsBy(f, S, c, base, h) ==
  \A s \in SUBSET S : f[s] = IF s = {} THEN base ELSE h[<<c[s], f[s \ {c[s]}]>>]

\* A function on the subsets of S may be defined from smaller to larger, an
\* element taken away at a time.
LEMMA FoldExists ==
  ASSUME NEW S, IsFiniteSet(S), NEW c, Chooses(c, S),
         NEW V, NEW base \in V, NEW h \in [S \X V -> V]
  PROVE  \E f \in [SUBSET S -> V] : FoldsBy(f, S, c, base, h)
<1> DEFINE Eq(f, s) == f[s] = IF s = {} THEN base ELSE h[<<c[s], f[s \ {c[s]}]>>]
           Good(f, n) == \A s \in SUBSET S : Cardinality(s) <= n => Eq(f, s)
           T == {n \in Nat : \E f \in [SUBSET S -> V] : Good(f, n)}
<1>1. \A s \in SUBSET S : /\ IsFiniteSet(s) /\ Cardinality(s) \in Nat
                          /\ Cardinality(s) <= Cardinality(S)
                          /\ Cardinality(s) = 0 <=> s = {}
  BY FS_Subset, FS_CardinalityType, FS_EmptySet
<1>2. ASSUME NEW s \in SUBSET S, s # {}
      PROVE  /\ s \ {c[s]} \in SUBSET S /\ c[s] \in S
             /\ Cardinality(s \ {c[s]}) = Cardinality(s) - 1
  <2>1. c[s] \in s
    BY <1>2 DEF Chooses
  <2> QED
    BY <1>1, <2>1, FS_RemoveElement
<1>3. 0 \in T
  <2>1. [s \in SUBSET S |-> base] \in [SUBSET S -> V]
    OBVIOUS
  <2>2. Good([s \in SUBSET S |-> base], 0)
    BY <1>1
  <2> QED
    BY <2>1, <2>2
<1>4. ASSUME NEW n \in Nat, n \in T  PROVE n + 1 \in T
  <2>1. PICK f \in [SUBSET S -> V] : Good(f, n)
    BY <1>4
  <2> DEFINE g == [s \in SUBSET S |-> IF s = {} THEN base ELSE h[<<c[s], f[s \ {c[s]}]>>]]
  <2>2. g \in [SUBSET S -> V]
    BY <1>2
  <2>3. \A s \in SUBSET S : Cardinality(s) <= n => g[s] = f[s]
    BY <2>1
  <2>4. Good(g, n + 1)
    <3> SUFFICES ASSUME NEW s \in SUBSET S, Cardinality(s) <= n + 1, s # {}
                 PROVE  Eq(g, s)
      OBVIOUS
    <3>1. g[s] = h[<<c[s], f[s \ {c[s]}]>>]
      OBVIOUS
    <3>2. Cardinality(s \ {c[s]}) <= n /\ s \ {c[s]} \in SUBSET S
      BY <1>1, <1>2
    <3>3. g[s \ {c[s]}] = f[s \ {c[s]}]
      <4> HIDE DEF g
      <4> QED
        BY <2>3, <3>2
    <3> QED
      BY ONLY <3>1, <3>3, s # {}
  <2> HIDE DEF g, Good
  <2> QED
    BY <2>2, <2>4
<1>5. Cardinality(S) \in T
  <2>1. Nat \subseteq T
    <3> HIDE DEF T
    <3> QED
      BY ONLY <1>3, <1>4, NatSetInduction
  <2> HIDE DEF T
  <2> QED
    BY <1>1, <2>1
<1>6. PICK f \in [SUBSET S -> V] : Good(f, Cardinality(S))
  BY <1>5
<1>7. \A s \in SUBSET S : Eq(f, s)
  BY <1>1, <1>6
<1> QED
  BY <1>7 DEF FoldsBy

\* The greatest of the first k numbers is the k-th.
LEMMA MaxOfInitial ==
  ASSUME NEW k \in Nat \ {0}
  PROVE  Max(1..k) = k /\ (1..k) \ {k} = 1..(k - 1) /\ 1..k # {}
<1>1. k \in 1..k /\ \A i \in 1..k : i <= k
  OBVIOUS
<1>2. Max(1..k) = CHOOSE x \in 1..k : \A y \in 1..k : x >= y
  BY DEF Max
<1>3. \A x \in 1..k : (\A y \in 1..k : x >= y) => x = k
  BY <1>1
<1>4. \E x \in 1..k : \A y \in 1..k : x >= y
  BY <1>1
<1>5. Max(1..k) = k
  BY <1>2, <1>3, <1>4
<1> QED
  BY <1>1, <1>5

\* Folding over the first numbers, the greatest taken away; and going up.
TakesMax(it, n, V, base, h) ==
  /\ it[{}] = base
  /\ \A s \in SUBSET (1..n) : s # {} /\ it[s \ {Max(s)}] \in V
       => it[s] = h[<<Max(s), it[s \ {Max(s)}]>>]
GoesUp(f, n, base, h) == f[0] = base /\ \A k \in 1..n : f[k] = h[<<k, f[k - 1]>>]

\* Folding from the left goes through the numbers one after the other.
LEMMA FoldGoesUp ==
  ASSUME NEW n \in Nat, NEW V, NEW base \in V, NEW h \in [(1..n) \X V -> V], NEW it,
         TakesMax(it, n, V, base, h)
  PROVE  \E f \in [0..n -> V] : f[n] = it[1..n] /\ GoesUp(f, n, base, h)
<1> DEFINE f == [k \in 0..n |-> it[1..k]]
           T == {k \in 0..n : f[k] \in V}
<1>1. f[0] = base
  <2>1. 1..0 = {}
    OBVIOUS
  <2> QED
    BY <2>1 DEF TakesMax
<1>2. ASSUME NEW k \in 1..n, f[k - 1] \in V
      PROVE  f[k] = h[<<k, f[k - 1]>>]
  <2>1. k \in Nat \ {0} /\ k - 1 \in 0..n /\ k \in 0..n /\ 1..k \in SUBSET (1..n)
    OBVIOUS
  <2>2. Max(1..k) = k /\ (1..k) \ {k} = 1..(k - 1) /\ 1..k # {}
    BY <2>1, MaxOfInitial
  <2>3. it[1..(k - 1)] \in V
    BY <1>2, <2>1
  <2>4. it[1..k] = h[<<k, it[1..(k - 1)]>>]
    BY ONLY <2>1, <2>2, <2>3, TakesMax(it, n, V, base, h) DEF TakesMax
  <2> QED
    BY <2>1, <2>4
<1>3. 0..n \subseteq T
  <2>1. 0 \in T
    BY <1>1
  <2>2. ASSUME NEW k \in 0..(n - 1), k \in T  PROVE k + 1 \in T
    <3>1. k + 1 \in 1..n /\ (k + 1) - 1 = k /\ k \in 0..n
      OBVIOUS
    <3>2. f[k + 1] = h[<<k + 1, f[k]>>] /\ f[k] \in V
      <4> HIDE DEF f
      <4> QED
        BY <1>2, <2>2, <3>1
    <3> HIDE DEF f
    <3> QED
      BY <3>1, <3>2
  <2> HIDE DEF T
  <2> QED
    BY ONLY <2>1, <2>2, UpTo, n \in Nat
<1>4. \A k \in 1..n : f[k] = h[<<k, f[k - 1]>>]
  <2> SUFFICES ASSUME NEW k \in 1..n  PROVE f[k] = h[<<k, f[k - 1]>>]
    OBVIOUS
  <2>1. k - 1 \in 0..n
    OBVIOUS
  <2>2. f[k - 1] \in V
    <3> HIDE DEF f
    <3> QED
      BY <1>3, <2>1
  <2> HIDE DEF f
  <2> QED
    BY <1>2, <2>2
<1>5. f \in [0..n -> V] /\ f[n] = it[1..n]
  BY <1>3
<1> HIDE DEF f
<1> QED
  BY <1>1, <1>4, <1>5 DEF GoesUp

-----------------------------------------------------------------------------
(***************************************************************************)
(* The provider's calls, and the refinement of ModelCall.                  *)
(***************************************************************************)

\* The back-off doubles.
LEMMA DelayDoubles ==
  /\ Delay \in [Nat -> Nat] /\ Delay[0] = Backoff
  /\ \A n \in Nat : Delay[n + 1] = 2 * Delay[n]
<1> DEFINE twice == [v \in Nat |-> 2 * v]
<1>1. Backoff \in Nat
  BY CallAssumption
<1>2. PICK f \in [Nat -> Nat] : f[0] = Backoff /\ \A n \in Nat : f[n + 1] = twice[f[n]]
  <2>1. twice \in [Nat -> Nat]
    OBVIOUS
  <2>2. \A V : \A base \in V, h \in [V -> V] :
          \E f \in [Nat -> V] : f[0] = base /\ \A n \in Nat : f[n + 1] = h[f[n]]
    BY ONLY Iterated
  <2> DEFINE V == Nat
  <2>3. Backoff \in V /\ twice \in [V -> V]
    BY <1>1, <2>1
  <2> HIDE DEF twice, V
  <2>4. \E f \in [Nat -> V] : f[0] = Backoff /\ \A n \in Nat : f[n + 1] = twice[f[n]]
    BY ONLY <2>2, <2>3
  <2> QED
    BY <2>4 DEF V
<1>3. f = [n \in Nat |-> IF n = 0 THEN Backoff ELSE 2 * f[n - 1]]
  <2> SUFFICES ASSUME NEW n \in Nat, n # 0  PROVE f[n] = 2 * f[n - 1]
    BY <1>2
  <2>1. n - 1 \in Nat /\ (n - 1) + 1 = n
    OBVIOUS
  <2> QED
    BY <1>2, <2>1
<1>4. Delay = [n \in Nat |-> IF n = 0 THEN Backoff ELSE 2 * Delay[n - 1]]
  BY <1>3 DEF Delay
<1>5. Delay[0] = Backoff /\ \A n \in Nat : Delay[n + 1] = 2 * Delay[n]
  <2>1. \A n \in Nat : n + 1 \in Nat /\ n + 1 # 0 /\ (n + 1) - 1 = n
    OBVIOUS
  <2>2. 0 \in Nat
    OBVIOUS
  <2>3. \A n \in Nat : Delay[n] = IF n = 0 THEN Backoff ELSE 2 * Delay[n - 1]
    BY <1>4
  <2> QED
    BY ONLY <2>1, <2>2, <2>3
<1>6. Nat \subseteq {n \in Nat : Delay[n] \in Nat}
  <2> DEFINE T == {n \in Nat : Delay[n] \in Nat}
  <2>1. 0 \in T
    BY <1>1, <1>5
  <2>2. ASSUME NEW n \in Nat, n \in T  PROVE n + 1 \in T
    BY <1>5, <2>2
  <2> HIDE DEF T
  <2>3. Nat \subseteq T
    BY ONLY <2>1, <2>2, NatSetInduction
  <2> QED
    BY <2>3 DEF T
<1>7. Delay \in [Nat -> Nat]
  <2>1. \A n \in Nat : Delay[n] \in Nat
    BY <1>6
  <2>2. DOMAIN Delay = Nat /\ Delay = [n \in Nat |-> Delay[n]]
    BY <1>4
  <2> QED
    BY ONLY <2>1, <2>2
<1> QED
  BY <1>5, <1>7

\* ModelCall counts the same delays.
LEMMA SameDelay == Abstract!Delay = Delay
  BY DEF Abstract!Delay, Delay

Phases == {"idle", "posting", "sleeping", "answered", "failed"}
Verdicts_ == {"none", "ok", "transient", "permanent"}

\* A call between two steps: a try is posted or waited for within the budget,
\* no earlier than the back-off allows, on a clock that began at zero.
CallInv ==
  /\ call \in [phase : Phases, budget : Nat, attempt : Nat, sent : Nat, verdict : Verdicts_,
               start : Nat, wait : Nat, latency : Nat]
  /\ now \in Nat
  /\ call.phase = "idle" => call = NoCall /\ now = 0
  /\ call.phase \in {"posting", "sleeping"} =>
       /\ call.start = 0 /\ call.latency = 0 /\ call.attempt <= call.budget
       /\ now + Backoff >= Delay[call.attempt]
  /\ call.phase = "posting" =>
       /\ call.sent = call.attempt
       /\ call.verdict = IF call.attempt = 0 THEN "none" ELSE "transient"
  /\ call.phase = "sleeping" =>
       /\ call.sent = call.attempt + 1 /\ call.verdict = "transient"
       /\ call.attempt < call.budget /\ call.wait >= Delay[call.attempt]

\* What the program does to the provider's variables.
CallStep ==
  \/ \E n \in Nat : Ask(n)
  \/ CannotAsk \/ Answered \/ Rejected \/ Transient \/ TryAgain
  \/ call.phase \in {"answered", "failed"} /\ TakeResult
  \/ UNCHANGED provider

\* A step of a call keeps its invariant, and is one of ModelCall or none.
LEMMA CallStepOk ==
  ASSUME CallInv, CallStep
  PROVE  CallInv' /\ [Abstract!Next]_(Abstract!vars)
<1> USE DEF Phases, Verdicts_
<1>1. Backoff \in Nat /\ PostTicks \in Nat
  BY CallAssumption
<1>2. Delay \in [Nat -> Nat] /\ Delay[0] = Backoff /\ \A n \in Nat : Delay[n + 1] = 2 * Delay[n]
  BY DelayDoubles
<1> HIDE DEF Delay
<1>3. ASSUME NEW n \in Nat, Ask(n)  PROVE CallInv' /\ [Abstract!Next]_(Abstract!vars)
  <2>1. call = NoCall /\ now = 0 /\ now' = 0
    BY <1>3 DEF Ask, CallInv
  <2>2. call' = [NoCall EXCEPT !.phase = "posting", !.budget = n, !.start = 0]
    BY <1>3, <2>1 DEF Ask
  <2>3. CallInv'
    <3>1. Delay[0] = Backoff
      BY <1>2
    <3>2. call' = [phase |-> "posting", budget |-> n, attempt |-> 0, sent |-> 0, verdict |-> "none",
                   start |-> 0, wait |-> 0, latency |-> 0]
      BY <2>2 DEF NoCall
    <3> QED
      BY ONLY <1>1, <2>1, <3>1, <3>2, n \in Nat DEF CallInv, Phases, Verdicts_
  <2>4. Abstract!Begin
    BY <2>1, <2>2 DEF Abstract!Begin, NoCall
  <2> QED
    BY <2>3, <2>4 DEF Abstract!Next
<1>4. ASSUME CannotAsk  PROVE CallInv' /\ [Abstract!Next]_(Abstract!vars)
  <2>1. call = NoCall /\ now = 0 /\ now' = 0
    BY <1>4 DEF CannotAsk, CallInv
  <2>2. call' = [NoCall EXCEPT !.phase = "failed"]
    BY <1>4, <2>1 DEF CannotAsk
  <2>3. CallInv'
    BY <1>1, <1>2, <2>1, <2>2 DEF CallInv, NoCall
  <2>4. Abstract!Refuse
    BY <2>1, <2>2 DEF Abstract!Refuse, NoCall
  <2> QED
    BY <2>3, <2>4 DEF Abstract!Next
<1>5. ASSUME NEW ticks \in 0..PostTicks, Posted(ticks), CallInv
      PROVE  /\ call.phase = "posting" /\ now' \in Nat /\ now' >= now
             /\ call.start = 0 /\ call.sent = call.attempt /\ call.attempt <= call.budget
             /\ call.verdict \in {"none", "transient"} /\ call.latency = 0
             /\ now' >= Delay[call.sent] - Backoff
             /\ now' + Backoff >= Delay[call.attempt]
             /\ call.sent + 1 \in Nat /\ now' - call.start = now'
  <2>1. Delay[call.attempt] \in Nat /\ ticks \in Nat /\ call.attempt \in Nat /\ now \in Nat
    BY <1>1, <1>2, <1>5 DEF CallInv
  <2>2. call.phase = "posting" /\ now' = now + ticks
    BY <1>5 DEF Posted
  <2> QED
    BY <1>1, <1>5, <2>1, <2>2 DEF CallInv
<1>6. ASSUME NEW ticks \in 0..PostTicks, Posted(ticks),
             call' = [call EXCEPT !.phase = "answered", !.sent = @ + 1, !.verdict = "ok",
                                  !.latency = now' - call.start]
      PROVE  CallInv' /\ Abstract!Post
  <2>1. CallInv'
    BY <1>5, <1>6 DEF CallInv
  <2>2. Abstract!Post
    BY <1>5, <1>6, SameDelay DEF Abstract!Post, CallInv
  <2> QED
    BY <2>1, <2>2
<1>7. ASSUME NEW ticks \in 0..PostTicks, Posted(ticks),
             call' = [call EXCEPT !.phase = "failed", !.sent = @ + 1, !.verdict = "permanent"]
      PROVE  CallInv' /\ Abstract!Post
  <2>1. CallInv'
    BY <1>5, <1>7 DEF CallInv
  <2>2. Abstract!Post
    BY <1>5, <1>7, SameDelay DEF Abstract!Post, CallInv
  <2> QED
    BY <2>1, <2>2
<1>8. ASSUME NEW ticks \in 0..PostTicks, Posted(ticks), NEW jitter \in {0, 1},
             call' = [call EXCEPT !.sent = @ + 1, !.verdict = "transient",
                            !.phase = IF call.attempt >= call.budget THEN "failed" ELSE "sleeping",
                            !.wait = IF call.attempt >= call.budget THEN 0
                                     ELSE Delay[call.attempt] + jitter]
      PROVE  CallInv' /\ Abstract!Post
  <2>1. /\ call.attempt \in Nat /\ call.budget \in Nat /\ Delay[call.attempt] \in Nat
        /\ Delay[call.attempt] + jitter \in Nat /\ Delay[call.attempt] + jitter >= Delay[call.attempt]
    BY <1>2 DEF CallInv
  <2>2. CASE call.attempt >= call.budget
    <3>1. call' = [call EXCEPT !.sent = @ + 1, !.verdict = "transient", !.phase = "failed", !.wait = 0]
      BY <1>8, <2>2
    <3>2. CallInv'
      BY <1>5, <1>8, <3>1 DEF CallInv
    <3>3. call.sent = call.budget
      BY <1>5, <1>8, <2>1, <2>2
    <3>4. Abstract!Post
      BY <1>5, <1>8, <3>1, <3>3, SameDelay DEF Abstract!Post, CallInv
    <3> QED
      BY <3>2, <3>4
  <2>3. CASE ~(call.attempt >= call.budget)
    <3>1. call' = [call EXCEPT !.sent = @ + 1, !.verdict = "transient", !.phase = "sleeping",
                               !.wait = Delay[call.attempt] + jitter]
      BY <1>8, <2>3
    <3>2. call.attempt < call.budget
      BY <2>1, <2>3
    <3>3. CallInv'
      <4>1. /\ now' \in Nat /\ now' + Backoff >= Delay[call.attempt]
            /\ call.start = 0 /\ call.latency = 0 /\ call.sent = call.attempt
        BY <1>5, <1>8
      <4>2. call \in [phase : Phases, budget : Nat, attempt : Nat, sent : Nat, verdict : Verdicts_,
                      start : Nat, wait : Nat, latency : Nat]
        BY DEF CallInv
      <4>3. /\ call'.phase = "sleeping" /\ call'.budget = call.budget
            /\ call'.attempt = call.attempt /\ call'.sent = call.attempt + 1
            /\ call'.verdict = "transient" /\ call'.start = 0 /\ call'.latency = 0
            /\ call'.wait = Delay[call.attempt] + jitter
        BY ONLY <3>1, <4>1, <4>2
      <4>4. call' \in [phase : Phases, budget : Nat, attempt : Nat, sent : Nat, verdict : Verdicts_,
                       start : Nat, wait : Nat, latency : Nat]
        <5>1. call.sent + 1 \in Nat /\ "transient" \in Verdicts_ /\ "sleeping" \in Phases
          BY ONLY <4>2 DEF Phases, Verdicts_
        <5> QED
          BY ONLY <2>1, <3>1, <4>2, <5>1
      <4> QED
        BY ONLY <2>1, <3>2, <4>1, <4>3, <4>4 DEF CallInv
    <3>4. Abstract!Post
      BY <1>5, <1>8, <3>1, <3>2, SameDelay DEF Abstract!Post, CallInv
    <3> QED
      BY <3>3, <3>4
  <2> QED
    BY <2>2, <2>3
<1>9. ASSUME TryAgain  PROVE CallInv' /\ [Abstract!Next]_(Abstract!vars)
  <2>1. /\ call.phase = "sleeping" /\ now' = now + call.wait
        /\ call' = [call EXCEPT !.phase = "posting", !.attempt = @ + 1, !.wait = 0]
    BY <1>9 DEF TryAgain
  <2>2. /\ call.attempt \in Nat /\ call.budget \in Nat /\ Delay[call.attempt] \in Nat
        /\ Delay[call.attempt + 1] = 2 * Delay[call.attempt]
        /\ now \in Nat /\ call.wait \in Nat
        /\ now + Backoff >= Delay[call.attempt] /\ call.wait >= Delay[call.attempt]
    BY <1>2, <2>1 DEF CallInv
  <2>3. now' \in Nat /\ now' + Backoff >= Delay[call.attempt + 1]
    BY <1>1, <2>1, <2>2
  <2>4. CallInv'
    <3>1. call \in [phase : Phases, budget : Nat, attempt : Nat, sent : Nat, verdict : Verdicts_,
                    start : Nat, wait : Nat, latency : Nat]
      BY DEF CallInv
    <3>2. /\ call.start = 0 /\ call.latency = 0 /\ call.sent = call.attempt + 1
          /\ call.verdict = "transient" /\ call.attempt < call.budget
      BY <2>1 DEF CallInv
    <3>3. /\ call'.phase = "posting" /\ call'.budget = call.budget
          /\ call'.attempt = call.attempt + 1 /\ call'.sent = call.attempt + 1
          /\ call'.verdict = "transient" /\ call'.start = 0 /\ call'.latency = 0
      BY ONLY <2>1, <3>1, <3>2
    <3>4. call' \in [phase : Phases, budget : Nat, attempt : Nat, sent : Nat, verdict : Verdicts_,
                     start : Nat, wait : Nat, latency : Nat]
      <4>1. call.attempt + 1 \in Nat /\ "posting" \in Phases
        BY ONLY <2>2 DEF Phases
      <4> QED
        BY ONLY <2>1, <3>1, <4>1
    <3>5. call.attempt + 1 <= call.budget /\ call.attempt + 1 # 0
      BY ONLY <2>2, <3>2
    <3> QED
      BY ONLY <2>3, <3>3, <3>4, <3>5 DEF CallInv
  <2>5. CASE call.wait = 0
    <3>1. UNCHANGED Abstract!vars
      BY <2>1, <2>2, <2>5 DEF Abstract!vars, CallInv
    <3> QED
      BY <2>4, <3>1
  <2>6. CASE call.wait # 0
    <3>1. now' > now
      BY <2>1, <2>2, <2>6
    <3>2. Abstract!Wait
      BY <2>1, <3>1 DEF Abstract!Wait, CallInv
    <3> QED
      BY <2>4, <3>2 DEF Abstract!Next
  <2> QED
    BY <2>5, <2>6
<1>10. ASSUME call.phase \in {"answered", "failed"}, TakeResult
       PROVE  CallInv' /\ [Abstract!Next]_(Abstract!vars)
  <2>1. CallInv'
    BY <1>1, <1>2, <1>10 DEF TakeResult, CallInv, NoCall
  <2>2. Abstract!Return
    BY <1>10 DEF Abstract!Return, TakeResult, NoCall
  <2> QED
    BY <2>1, <2>2 DEF Abstract!Next
<1>11. ASSUME UNCHANGED provider  PROVE CallInv' /\ [Abstract!Next]_(Abstract!vars)
  <2>1. call' = call /\ now' = now
    BY <1>11 DEF provider
  <2>2. UNCHANGED Abstract!vars
    BY <2>1 DEF Abstract!vars
  <2>3. CallInv'
    BY <2>1 DEF CallInv
  <2> QED
    BY <2>2, <2>3
<1>12. \A ticks \in 0..PostTicks : Posted(ticks) /\ Abstract!Post => [Abstract!Next]_(Abstract!vars)
  BY DEF Abstract!Next
<1>13. CASE Answered
  BY <1>6, <1>12, <1>13 DEF Answered
<1>14. CASE Rejected
  BY <1>7, <1>12, <1>14 DEF Rejected
<1>15. CASE Transient
  <2>1. PICK ticks \in 0..PostTicks, jitter \in {0, IF Backoff = 0 THEN 0 ELSE 1} :
          /\ Posted(ticks)
          /\ call' = [call EXCEPT !.sent = @ + 1, !.verdict = "transient",
                            !.phase = IF call.attempt >= call.budget THEN "failed" ELSE "sleeping",
                            !.wait = IF call.attempt >= call.budget THEN 0
                                     ELSE Delay[call.attempt] + jitter]
    BY <1>15 DEF Transient
  <2>2. jitter \in {0, 1}
    OBVIOUS
  <2> QED
    BY <1>8, <1>12, <2>1, <2>2
<1> QED
  BY <1>3, <1>4, <1>9, <1>10, <1>11, <1>13, <1>14, <1>15 DEF CallStep

\* Every step of a question does to the provider's variables one of these.
LEMMA StepsCall ==
  ASSUME path \in DOMAIN Asked, [Next]_vars
  PROVE  CallStep /\ path' = path
<1> USE DEF CallStep
<1>1. ASSUME NEW model \in {"generator", "judge"}, NEW from, NEW to, Asks(model, from, to)
      PROVE  CallStep /\ path' = path
  <2>1. Retries[path][model] \in Nat
    BY ModelsAssumption
  <2>2. path' = path /\ (Ask(Retries[path][model]) \/ CannotAsk)
    BY <1>1 DEF Asks
  <2> QED
    BY <2>1, <2>2
<1>2. CASE Generate \/ Judge
  BY <1>1, <1>2 DEF Generate, Judge
<1>3. CASE ServerReplies
  BY <1>3 DEF ServerReplies
<1>4. CASE CallFails
  BY <1>4 DEF CallFails
<1>5. CASE NoContent
  BY <1>5 DEF NoContent
<1>6. CASE ReadReply
  BY <1>6 DEF ReadReply
<1>7. CASE ReadJudgement
  BY <1>7 DEF ReadJudgement
<1>8. CASE CheckSubstrate \/ Search \/ RerankHits \/ CiteAnswer \/ ScoreChannels \/ ScoreVisual
             \/ FrameUnreadable \/ Finish \/ Ended \/ UNCHANGED vars
  <2>1. UNCHANGED <<path, provider>>
    BY <1>8 DEF CheckSubstrate, Search, RerankHits, CiteAnswer, ScoreChannels, ScoreVisual,
                FrameUnreadable, Finish, Ended, vars
  <2> QED
    BY <2>1
<1> QED
  BY <1>2, <1>3, <1>4, <1>5, <1>6, <1>7, <1>8 DEF Next

\* A call is one of a path.
CallOfPath == CallInv /\ path \in DOMAIN Asked

\* In every state.
LEMMA AlwaysCallInv == Spec => []CallOfPath
<1>1. Init => CallOfPath
  BY DEF Init, CallInit, CallInv, NoCall, Phases, Verdicts_, CallOfPath
<1>2. CallOfPath /\ [Next]_vars => CallOfPath'
  BY CallStepOk, StepsCall DEF CallOfPath
<1> QED
  BY <1>1, <1>2, PTL DEF Spec

\* Whatever a question asks of a hosted model, the call keeps the contract of
\* ModelCall (chat_completion's retries, back-off and clock).
THEOREM CallsImplement == Spec => ImplementsCall
<1>1. Init => Abstract!Init
  BY DEF Init, CallInit, NoCall, Abstract!Init
<1>2. CallOfPath /\ [Next]_vars => [Abstract!Next]_(Abstract!vars)
  BY CallStepOk, StepsCall DEF CallOfPath
<1> QED
  BY <1>1, <1>2, AlwaysCallInv, PTL DEF Spec, ImplementsCall, Abstract!Spec

-----------------------------------------------------------------------------
(***************************************************************************)
(* What the cite node makes of a reply, for every reply and every list of  *)
(* chunks: Cite of CiteCheck.                                              *)
(***************************************************************************)
\* A finite set that a relation orders has a last element: a smallest subset
\* without one would still lack it when one of its elements is taken away.
LEMMA LastElement ==
  ASSUME NEW S, IsFiniteSet(S), S # {}, NEW R,
         \A x, y \in S : x = y \/ <<x, y>> \in R \/ <<y, x>> \in R,
         \A x, y, z \in S : <<x, y>> \in R /\ <<y, z>> \in R => <<x, z>> \in R
  PROVE  \E m \in S : \A x \in S : x = m \/ <<x, m>> \in R
<1> DEFINE Bad == {T \in SUBSET S : T # {} /\ ~\E m \in T : \A x \in T : x = m \/ <<x, m>> \in R}
           Less == StrictSubsetOrdering(S)
<1> SUFFICES ASSUME Bad # {}  PROVE FALSE
  OBVIOUS
<1>1. IsWellFoundedOn(Less, SUBSET S)
  BY ONLY IsFiniteSet(S), FS_StrictSubsetOrderingWellFounded, FS_FiniteSubsetsOfFinite
<1>2. Bad \subseteq SUBSET S
  OBVIOUS
<1> HIDE DEF Less
<1>3. PICK T \in Bad : \A U \in Bad : ~(<<U, T>> \in Less)
  <2> HIDE DEF Bad
  <2> QED
    BY ONLY <1>1, <1>2, Bad # {}, WFMin
<1>4. PICK c \in T : TRUE
  BY <1>3
<1>5. T \ {c} # {}
  BY <1>3, <1>4
<1>6. <<T \ {c}, T>> \in Less
  BY <1>3, <1>4 DEF Less, StrictSubsetOrdering
<1>7. PICK f \in T \ {c} : \A x \in T \ {c} : x = f \/ <<x, f>> \in R
  BY <1>3, <1>5, <1>6
<1>8. c \in S /\ f \in S /\ T \subseteq S
  BY <1>3, <1>4, <1>7
<1>9. CASE <<c, f>> \in R
  BY <1>3, <1>7, <1>9
<1>10. CASE <<f, c>> \in R
  <2>1. \A x \in T : x = c \/ <<x, c>> \in R
    BY <1>7, <1>8, <1>10
  <2> QED
    BY <1>3, <1>4, <2>1
<1> QED
  BY <1>7, <1>8, <1>9, <1>10

\* The overlap counts the seconds the citation and the chunk share.
LEMMA OverlapCounts ==
  ASSUME NEW video, NEW s \in Int, NEW e \in Int, NEW cit, NEW chunk,
         cit.video = video, cit.start = s, cit.end = e,
         NEW t \in Int, NEW f \in Int, chunk.start = t, chunk.end = f
  PROVE  /\ Overlap(cit, chunk) = Cardinality(Covered(cit, chunk))
         /\ Overlap(cit, chunk) \in Nat
         /\ Seconds(cit) # {} <=> Span(cit) > 0
         /\ Span(cit) > 0 => Span(cit) = Cardinality(Seconds(cit))
<1> DEFINE last == IF e < f THEN e ELSE f
           first == IF s > t THEN s ELSE t
<1>1. Seconds(cit) = s .. (e - 1) /\ Seconds(chunk) = t .. (f - 1)
  BY DEF Seconds
<1>2. first \in Int /\ last - 1 \in Int /\ last \in Int
  OBVIOUS
<1>3. (s .. (e - 1)) \cap (t .. (f - 1)) = first .. (last - 1)
  OBVIOUS
<1>4. Cardinality(first .. (last - 1)) = IF last > first THEN last - first ELSE 0
  <2> HIDE DEF first, last
  <2>1. Cardinality(first .. (last - 1)) = IF first > last - 1 THEN 0 ELSE last - 1 - first + 1
    BY ONLY <1>2, FS_Interval
  <2> QED
    BY ONLY <1>2, <2>1
<1>5. Span(cit) = e - s
  BY DEF Span
<1>6. Overlap(cit, chunk) =
        IF cit.video = chunk.video /\ e - s > 0 /\ last > first THEN last - first ELSE 0
  BY <1>5 DEF Overlap
<1>7. ~(e - s > 0) => ~(last > first)
  OBVIOUS
<1>8. Covered(cit, chunk) = IF chunk.video # cit.video THEN {} ELSE first .. (last - 1)
  BY <1>1, <1>3 DEF Covered
<1>9. Overlap(cit, chunk) = Cardinality(Covered(cit, chunk))
  <2> HIDE DEF first, last
  <2>1. CASE chunk.video # cit.video
    BY <1>6, <1>8, <2>1, FS_EmptySet
  <2>2. CASE chunk.video = cit.video
    BY <1>4, <1>6, <1>7, <1>8, <2>2
  <2> QED
    BY <2>1, <2>2
<1>10. Overlap(cit, chunk) \in Nat
  <2> HIDE DEF first, last
  <2> QED
    BY <1>2, <1>6
<1>11. Seconds(cit) # {} <=> Span(cit) > 0
  <2>1. e - s > 0 => s \in s .. (e - 1)
    OBVIOUS
  <2>2. ~(e - s > 0) => s .. (e - 1) = {}
    OBVIOUS
  <2> QED
    BY <1>1, <1>5, <2>1, <2>2
<1>12. Span(cit) > 0 => Span(cit) = Cardinality(Seconds(cit))
  <2>1. Cardinality(s .. (e - 1)) = IF s > e - 1 THEN 0 ELSE e - 1 - s + 1
    <3>1. e - 1 \in Int
      OBVIOUS
    <3> QED
      BY ONLY s \in Int, <3>1, FS_Interval
  <2> QED
    BY <1>1, <1>5, <2>1
<1> QED
  BY <1>9, <1>10, <1>11, <1>12

\* Of the chunks that overlap a citation, one is the first of those that overlap
\* it most.
LEMMA FirstOfTheGreatest ==
  ASSUME NEW n \in Nat, NEW ov \in [1 .. n -> Nat], NEW e \in 1 .. n, ov[e] > 0
  PROVE  \E b \in 1 .. n :
           /\ ov[b] > 0
           /\ \A j \in 1 .. n : IF j < b THEN ov[j] < ov[b] ELSE ov[j] <= ov[b]
<1> DEFINE S == 1 .. n
           Below(x, y) == ov[x] < ov[y] \/ (ov[x] = ov[y] /\ y < x)
           R == {p \in S \X S : Below(p[1], p[2])}
<1>1. \A i \in S : i \in Int /\ ov[i] \in Nat
  OBVIOUS
<1>2. \A x, y \in S : <<x, y>> \in R <=> Below(x, y)
  OBVIOUS
<1>3. IsFiniteSet(S) /\ S # {} /\ e \in S
  <2>1. IsFiniteSet(1 .. n)
    <3>1. 1 \in Int /\ n \in Int
      OBVIOUS
    <3> QED
      BY ONLY <3>1, FS_Interval
  <2> QED
    BY <2>1
<1>4. \E m \in S : \A x \in S : x = m \/ <<x, m>> \in R
  <2>1. ASSUME NEW x \in S, NEW y \in S
        PROVE  x = y \/ Below(x, y) \/ Below(y, x)
    <3> HIDE DEF S
    <3> QED
      BY ONLY <1>1, <2>1
  <2>2. ASSUME NEW x \in S, NEW y \in S, NEW z \in S, Below(x, y), Below(y, z)
        PROVE  Below(x, z)
    <3> HIDE DEF S
    <3> QED
      BY ONLY <1>1, <2>2
  <2> HIDE DEF S, R, Below
  <2>3. \A x, y \in S : x = y \/ <<x, y>> \in R \/ <<y, x>> \in R
    BY ONLY <1>2, <2>1
  <2>4. \A x, y, z \in S : <<x, y>> \in R /\ <<y, z>> \in R => <<x, z>> \in R
    BY ONLY <1>2, <2>2
  <2> QED
    BY ONLY <1>3, <2>3, <2>4, LastElement, ZenonT(40)
<1>5. PICK b \in S : \A x \in S : x = b \/ <<x, b>> \in R
  BY <1>4
<1>6. ASSUME NEW j \in S
      PROVE  IF j < b THEN ov[j] < ov[b] ELSE ov[j] <= ov[b]
  <2>1. j = b \/ Below(j, b)
    <3> HIDE DEF Below, S, R
    <3> QED
      BY ONLY <1>2, <1>5, <1>6
  <2> HIDE DEF S, R
  <2> QED
    BY ONLY <1>1, <1>5, <1>6, <2>1
<1>7. ov[b] > 0
  <2> HIDE DEF S, R
  <2> QED
    BY <1>1, <1>3, <1>6
<1> QED
  BY <1>5, <1>6, <1>7

\* The chunk _validate_one chooses covers more of the citation than any earlier
\* one and no less than any later one; there is one if any chunk covers a second.
LEMMA BestCovers ==
  ASSUME NEW cit, NEW n \in Nat, NEW chunks, DOMAIN chunks = 1 .. n,
         \A i \in 1 .. n : Overlap(cit, chunks[i]) \in Nat
  PROVE  /\ \A b \in Best(cit, chunks) :
              /\ b \in 1 .. n
              /\ b = CHOOSE i \in Best(cit, chunks) : TRUE
              /\ \A j \in 1 .. n : Overlap(cit, chunks[j]) <= Overlap(cit, chunks[b])
         /\ \A e \in 1 .. n : Overlap(cit, chunks[e]) > 0 => Best(cit, chunks) # {}
<1> DEFINE ov == [i \in 1 .. n |-> Overlap(cit, chunks[i])]
           First(b) == /\ ov[b] > 0
                       /\ \A j \in 1 .. n : IF j < b THEN ov[j] < ov[b] ELSE ov[j] <= ov[b]
<1>1. ov \in [1 .. n -> Nat] /\ \A i \in 1 .. n : ov[i] = Overlap(cit, chunks[i]) /\ ov[i] \in Nat
  OBVIOUS
<1>2. Best(cit, chunks) = {b \in 1 .. n : First(b)}
  BY DEF Best
<1>3. \A b \in 1 .. n : First(b) => \A j \in 1 .. n : ov[j] <= ov[b]
  <2> HIDE DEF ov
  <2> QED
    BY <1>1
<1>4. \A b, k \in 1 .. n : First(b) /\ First(k) => b = k
  <2> HIDE DEF ov
  <2> QED
    BY <1>1
<1>5. \A e \in 1 .. n : ov[e] > 0 => \E b \in 1 .. n : First(b)
  <2> HIDE DEF ov
  <2> QED
    BY <1>1, FirstOfTheGreatest
<1>6. ASSUME NEW b \in Best(cit, chunks)
      PROVE  b = CHOOSE i \in Best(cit, chunks) : TRUE
  <2> DEFINE c == CHOOSE i \in Best(cit, chunks) : TRUE
  <2>1. c \in Best(cit, chunks)
    BY <1>6
  <2> HIDE DEF c, First
  <2>2. b = c
    BY <1>2, <1>4, <1>6, <2>1
  <2> QED
    BY <2>2 DEF c
<1> HIDE DEF First
<1>7. \A b \in Best(cit, chunks) : b \in 1 .. n /\ \A j \in 1 .. n : ov[j] <= ov[b]
  BY <1>2, <1>3
<1>8. \A e \in 1 .. n : ov[e] > 0 => Best(cit, chunks) # {}
  BY <1>2, <1>5
<1> HIDE DEF ov
<1> QED
  BY <1>1, <1>6, <1>7, <1>8

\* A citation is valid exactly if its claim exists and some chunk covers half of
\* its seconds, and the chunk it is matched with then does.
LEMMA ValidIsEnough ==
  ASSUME NEW cit, cit.start \in Int, cit.end \in Int, cit.claim \in Nat,
         NEW Held, NEW chunks \in Seq(Held),
         \A c \in Held : c.start \in Int /\ c.end \in Int,
         NEW n_claims \in Nat
  PROVE  LET v == ValidateOne(cit, chunks) IN
         /\ Valid(cit, chunks, n_claims) =>
              /\ cit.claim + 1 \in 1 .. n_claims
              /\ v.cit = cit /\ \E b \in DOMAIN chunks : v.matched = chunks[b]
              /\ Enough(cit, v.matched)
              /\ \A i \in DOMAIN chunks : Cardinality(Covered(cit, chunks[i]))
                                            <= Cardinality(Covered(cit, v.matched))
         /\ ~Valid(cit, chunks, n_claims) =>
              \/ cit.claim + 1 \notin 1 .. n_claims
              \/ ~\E i \in DOMAIN chunks : Enough(cit, chunks[i])
<1> DEFINE n == Len(chunks)
           ov(i) == Overlap(cit, chunks[i])
           best == CHOOSE i \in Best(cit, chunks) : TRUE
           v == ValidateOne(cit, chunks)
<1>1. n \in Nat /\ DOMAIN chunks = 1 .. n /\ \A i \in 1 .. n : chunks[i] \in Held
  OBVIOUS
<1>2. ASSUME NEW i \in 1 .. n
      PROVE  /\ ov(i) = Cardinality(Covered(cit, chunks[i])) /\ ov(i) \in Nat
             /\ Seconds(cit) # {} <=> Span(cit) > 0
             /\ Span(cit) > 0 => Span(cit) = Cardinality(Seconds(cit))
             /\ ov(i) > 0 => Span(cit) > 0
  <2>1. chunks[i].start \in Int /\ chunks[i].end \in Int
    BY <1>1, <1>2
  <2>2. ov(i) > 0 => Span(cit) > 0
    BY DEF Overlap
  <2> DEFINE c == chunks[i]
             video == cit.video
             s == cit.start
             e == cit.end
             t == c.start
             f == c.end
  <2>3. /\ s \in Int /\ e \in Int /\ t \in Int /\ f \in Int
        /\ cit.video = video /\ cit.start = s /\ cit.end = e /\ c.start = t /\ c.end = f
    BY <2>1
  <2> HIDE DEF c, video, s, e, t, f
  <2>4. /\ Overlap(cit, c) = Cardinality(Covered(cit, c)) /\ Overlap(cit, c) \in Nat
        /\ Seconds(cit) # {} <=> Span(cit) > 0
        /\ Span(cit) > 0 => Span(cit) = Cardinality(Seconds(cit))
    BY ONLY <2>3, OverlapCounts
  <2> QED
    BY <2>2, <2>4 DEF c
<1>3. /\ \A b \in Best(cit, chunks) :
           b \in 1 .. n /\ b = best /\ \A j \in 1 .. n : ov(j) <= ov(b)
      /\ \A e \in 1 .. n : ov(e) > 0 => Best(cit, chunks) # {}
  <2>1. \A i \in 1 .. n : Overlap(cit, chunks[i]) \in Nat
    BY <1>2
  <2>2. n \in Nat /\ DOMAIN chunks = 1 .. n
    BY <1>1
  <2> HIDE DEF n
  <2>3. /\ \A b \in Best(cit, chunks) :
             /\ b \in 1 .. n
             /\ b = CHOOSE i \in Best(cit, chunks) : TRUE
             /\ \A j \in 1 .. n : Overlap(cit, chunks[j]) <= Overlap(cit, chunks[b])
        /\ \A e \in 1 .. n : Overlap(cit, chunks[e]) > 0 => Best(cit, chunks) # {}
    BY ONLY <2>1, <2>2, BestCovers, Zenon
  <2> QED
    BY ONLY <2>3, Zenon
<1>4. v.cit = cit /\ v.matched = chunks[best]
  BY DEF ValidateOne
<1>5. Span(cit) \in Int
  BY DEF Span
<1>6. \A i \in 1 .. n :
        Enough(cit, chunks[i]) <=> Span(cit) > 0 /\ 2 * ov(i) >= Span(cit)
  BY <1>2 DEF Enough
<1>7. Valid(cit, chunks, n_claims) <=>
        cit.claim < n_claims /\ \E b \in Best(cit, chunks) : 2 * ov(b) >= Span(cit)
  BY DEF Valid
<1>8. cit.claim < n_claims <=> cit.claim + 1 \in 1 .. n_claims
  OBVIOUS
<1>9. \A b \in Best(cit, chunks) : ov(b) > 0
  BY DEF Best
<1>10. ASSUME Valid(cit, chunks, n_claims)
       PROVE  /\ cit.claim + 1 \in 1 .. n_claims
              /\ v.cit = cit /\ \E b \in DOMAIN chunks : v.matched = chunks[b]
              /\ Enough(cit, v.matched)
              /\ \A i \in DOMAIN chunks : Cardinality(Covered(cit, chunks[i]))
                                            <= Cardinality(Covered(cit, v.matched))
  <2>1. PICK b \in Best(cit, chunks) : 2 * ov(b) >= Span(cit)
    BY <1>7, <1>10
  <2>2. b \in 1 .. n /\ b = best /\ (\A j \in 1 .. n : ov(j) <= ov(b)) /\ ov(b) > 0
    BY <1>3, <1>9, <2>1
  <2>3. v.matched = chunks[b]
    BY <1>4, <2>2
  <2>4. Enough(cit, v.matched)
    BY <1>2, <1>6, <2>1, <2>2, <2>3
  <2>5. \A i \in 1 .. n : Cardinality(Covered(cit, chunks[i]))
                            <= Cardinality(Covered(cit, v.matched))
    <3> HIDE DEF ov, v, n
    <3> QED
      BY <1>2, <2>2, <2>3
  <2> HIDE DEF v, n
  <2> QED
    BY <1>1, <1>4, <1>7, <1>8, <1>10, <2>2, <2>3, <2>4, <2>5
<1>11. ASSUME ~Valid(cit, chunks, n_claims), cit.claim + 1 \in 1 .. n_claims,
              NEW i \in 1 .. n, Enough(cit, chunks[i])
       PROVE  FALSE
  <2>1. Span(cit) > 0 /\ 2 * ov(i) >= Span(cit)
    BY <1>6, <1>11
  <2>2. ov(i) \in Nat /\ ov(i) > 0
    <3> HIDE DEF ov, n
    <3> QED
      BY ONLY <1>2, <1>5, <2>1, <1>11
  <2>3. PICK b \in Best(cit, chunks) : b \in 1 .. n /\ ov(i) <= ov(b)
    <3> HIDE DEF ov, n, best
    <3> QED
      BY ONLY <1>3, <2>2, <1>11
  <2>4. ov(b) \in Nat
    BY <1>2, <2>3
  <2>5. 2 * ov(b) >= Span(cit)
    <3> HIDE DEF ov, n
    <3> QED
      BY ONLY <1>5, <2>1, <2>2, <2>3, <2>4
  <2> QED
    BY <1>7, <1>8, <1>11, <2>3, <2>5
<1> HIDE DEF v, n
<1> QED
  BY <1>1, <1>10, <1>11 DEF v

\* For every reply the parser returns and every list of chunks, the cite node
\* shows as valid exactly the citations whose claim exists and of whose seconds
\* some chunk covers half, each with the chunk that covers most of it; it reports
\* the others invalid, loses none, and an abstention shows nothing (Grounded).
THEOREM CitationsAreGrounded ==
  ASSUME NEW reply, reply.parse_ok \in BOOLEAN, reply.abstain \in BOOLEAN,
         NEW Claims, reply.claims \in Seq(Claims),
         \A i \in DOMAIN reply.citations :
           /\ reply.citations[i].start \in Int /\ reply.citations[i].end \in Int
           /\ reply.citations[i].claim \in Nat,
         NEW Held, NEW chunks \in Seq(Held),
         \A c \in Held : c.start \in Int /\ c.end \in Int
  PROVE  Grounded(reply, chunks, Cite(reply, chunks))
<1> DEFINE res == Cite(reply, chunks)
           n == Len(reply.claims)
           places == DOMAIN reply.citations
           ok == {i \in places : Valid(reply.citations[i], chunks, n)}
           given == {chunks[i] : i \in DOMAIN chunks}
<1>1. CASE ~reply.parse_ok \/ reply.abstain
  <2>1. res = [abstain |-> TRUE, parse_ok |-> reply.parse_ok, claims |-> <<>>,
                  valid |-> <<>>, invalid |-> <<>>]
    BY <1>1 DEF Cite, Abstention
  <2>2. /\ res.abstain = TRUE /\ res.claims = <<>>
        /\ res.valid = <<>> /\ res.invalid = <<>>
    BY <2>1
  <2>3. DOMAIN res.valid = {} /\ DOMAIN res.invalid = {}
    BY <2>2
  <2> HIDE DEF res
  <2> QED
    BY <1>1, <2>2, <2>3 DEF Grounded, res
<1>2. CASE reply.parse_ok /\ ~reply.abstain
  <2>1. res = [abstain |-> FALSE, parse_ok |-> TRUE, claims |-> reply.claims,
                  valid |-> [i \in ok |-> ValidateOne(reply.citations[i], chunks)],
                  invalid |-> [i \in places \ ok |-> reply.citations[i]]]
    BY <1>2 DEF Cite
  <2>2. /\ res.abstain = FALSE /\ res.claims = reply.claims
        /\ res.valid = [i \in ok |-> ValidateOne(reply.citations[i], chunks)]
        /\ res.invalid = [i \in places \ ok |-> reply.citations[i]]
    BY <2>1
  <2>3. /\ DOMAIN res.valid = ok /\ DOMAIN res.invalid = places \ ok /\ ok \subseteq places
        /\ \A i \in ok : res.valid[i] = ValidateOne(reply.citations[i], chunks)
        /\ \A i \in places \ ok : res.invalid[i] = reply.citations[i]
    BY <2>2
  <2>4. n \in Nat /\ DOMAIN res.claims = 1 .. n
    BY <2>2
  <2>5. ASSUME NEW i \in ok
        PROVE  LET v == res.valid[i] IN
               /\ v.cit = reply.citations[i] /\ v.cit.claim + 1 \in DOMAIN res.claims
               /\ v.matched \in given /\ Enough(v.cit, v.matched)
               /\ \A chunk \in given : Cardinality(Covered(v.cit, chunk))
                                         <= Cardinality(Covered(v.cit, v.matched))
    <3> DEFINE cit == reply.citations[i]
               v == ValidateOne(cit, chunks)
    <3>1. /\ i \in places /\ Valid(cit, chunks, n)
          /\ cit.start \in Int /\ cit.end \in Int /\ cit.claim \in Nat
      BY <2>5
    <3>2. /\ cit.claim + 1 \in 1 .. n /\ v.cit = cit
          /\ \E b \in DOMAIN chunks : v.matched = chunks[b]
          /\ Enough(cit, v.matched)
          /\ \A j \in DOMAIN chunks : Cardinality(Covered(cit, chunks[j]))
                                        <= Cardinality(Covered(cit, v.matched))
      <4>1. /\ cit.start \in Int /\ cit.end \in Int /\ cit.claim \in Nat /\ n \in Nat
            /\ Valid(cit, chunks, n) /\ chunks \in Seq(Held)
            /\ \A c \in Held : c.start \in Int /\ c.end \in Int
        BY <2>4, <3>1
      <4> HIDE DEF cit, n
      <4> QED
        BY ONLY <4>1, ValidIsEnough
    <3>3. res.valid[i] = v
      BY <2>3
    <3> HIDE DEF v, cit, n, res, ok
    <3> QED
      BY <2>4, <3>2, <3>3 DEF cit
  <2>6. ASSUME NEW i \in places \ ok
        PROVE  LET cit == res.invalid[i] IN
               /\ cit = reply.citations[i]
               /\ \/ cit.claim + 1 \notin DOMAIN res.claims
                  \/ ~\E chunk \in given : Enough(cit, chunk)
    <3> DEFINE cit == reply.citations[i]
    <3>1. /\ ~Valid(cit, chunks, n)
          /\ cit.start \in Int /\ cit.end \in Int /\ cit.claim \in Nat
      BY <2>6
    <3>2. \/ cit.claim + 1 \notin 1 .. n
          \/ ~\E j \in DOMAIN chunks : Enough(cit, chunks[j])
      <4>1. /\ cit.start \in Int /\ cit.end \in Int /\ cit.claim \in Nat /\ n \in Nat
            /\ ~Valid(cit, chunks, n) /\ chunks \in Seq(Held)
            /\ \A c \in Held : c.start \in Int /\ c.end \in Int
        BY <2>4, <3>1
      <4> HIDE DEF cit, n
      <4> QED
        BY ONLY <4>1, ValidIsEnough
    <3>3. res.invalid[i] = cit
      BY <2>3, <2>6
    <3> HIDE DEF cit, n, res, ok
    <3> QED
      BY <2>4, <3>2, <3>3 DEF cit
  <2>7. /\ DOMAIN res.valid \cup DOMAIN res.invalid = places
        /\ DOMAIN res.valid \cap DOMAIN res.invalid = {}
    <3> HIDE DEF res, ok, places
    <3> QED
      BY ONLY <2>3
  <2>8. res.abstain <=> (~reply.parse_ok \/ reply.abstain)
    BY <1>2, <2>2
  <2>9. ~res.abstain
    BY <2>2
  <2> HIDE DEF res, ok, n
  <2> QED
    BY <2>3, <2>5, <2>6, <2>7, <2>8, <2>9 DEF Grounded, res
<1> QED
  BY <1>1, <1>2

-----------------------------------------------------------------------------
(***************************************************************************)
(* Sorting, and picking from a list.                                       *)
(***************************************************************************)

\* A strict total order on S.
Orders(R, S) ==
  /\ \A x \in S : <<x, x>> \notin R
  /\ \A x, y \in S : x = y \/ <<x, y>> \in R \/ <<y, x>> \in R
  /\ \A x, y, z \in S : <<x, y>> \in R /\ <<y, z>> \in R => <<x, z>> \in R

\* Each element of S once, in the order of R.
Sorts(f, S, R) ==
  LET n == Cardinality(S)
  IN /\ n \in Nat /\ f \in [1..n -> S]
     /\ \A x \in S : \E k \in 1..n : f[k] = x
     /\ \A j, k \in 1..n : j < k => <<f[j], f[k]>> \in R /\ <<f[k], f[j]>> \notin R
     /\ \A j, k \in 1..n : f[j] = f[k] => j = k

\* Ordered lists each element of S once, in the order of R: the numbers of
\* elements before them tell the elements apart, so that each number occurs.
LEMMA OrderedSorts ==
  ASSUME NEW S, IsFiniteSet(S), NEW R, Orders(R, S)
  PROVE  Sorts(Ordered(S, R), S, R)
<1> DEFINE n == Cardinality(S)
           below == [x \in S |-> {y \in S : <<y, x>> \in R}]
           rank == [x \in S |-> Cardinality(below[x])]
           r == [x \in S |-> rank[x] + 1]
           f == Ordered(S, R)
<1>1. n \in Nat
  BY FS_CardinalityType
<1>2. \A x, y \in S : /\ <<x, x>> \notin R
                      /\ x = y \/ <<x, y>> \in R \/ <<y, x>> \in R
                      /\ \A z \in S : <<x, y>> \in R /\ <<y, z>> \in R => <<x, z>> \in R
  BY DEF Orders
<1>3. \A x \in S : /\ below[x] \in SUBSET S /\ IsFiniteSet(below[x]) /\ rank[x] \in Nat
                   /\ rank[x] = Cardinality(below[x])
                   /\ x \notin below[x] /\ IsFiniteSet(below[x] \cup {x})
                   /\ Cardinality(below[x] \cup {x}) = rank[x] + 1
  <2> SUFFICES ASSUME NEW x \in S
               PROVE  /\ below[x] \in SUBSET S /\ IsFiniteSet(below[x]) /\ rank[x] \in Nat
                      /\ rank[x] = Cardinality(below[x])
                      /\ x \notin below[x] /\ IsFiniteSet(below[x] \cup {x})
                      /\ Cardinality(below[x] \cup {x}) = rank[x] + 1
    OBVIOUS
  <2>1. below[x] \in SUBSET S /\ x \notin below[x] /\ rank[x] = Cardinality(below[x])
    BY <1>2
  <2> HIDE DEF below, rank
  <2>2. IsFiniteSet(below[x]) /\ Cardinality(below[x]) \in Nat
    BY <2>1, FS_Subset, FS_CardinalityType
  <2> QED
    BY <2>1, <2>2, FS_AddElement
<1>4. ASSUME NEW x \in S, NEW y \in S, <<x, y>> \in R
      PROVE  rank[x] + 1 <= rank[y]
  <2>1. below[x] \cup {x} \in SUBSET below[y]
    BY <1>2, <1>4
  <2> HIDE DEF below, rank
  <2>2. IsFiniteSet(below[y])
    BY <1>3
  <2>3. Cardinality(below[x] \cup {x}) <= Cardinality(below[y])
    BY ONLY <2>1, <2>2, FS_Subset
  <2> QED
    BY <1>3, <2>3
<1>5. \A x \in S : rank[x] + 1 <= n
  <2> SUFFICES ASSUME NEW x \in S  PROVE rank[x] + 1 <= n
    OBVIOUS
  <2>1. below[x] \cup {x} \in SUBSET S
    OBVIOUS
  <2> HIDE DEF below, rank, n
  <2>2. Cardinality(below[x] \cup {x}) <= Cardinality(S)
    BY ONLY <2>1, IsFiniteSet(S), FS_Subset
  <2> QED
    BY <1>3, <2>2 DEF n
<1>6. \A x, y \in S : rank[x] = rank[y] => x = y
  <2> SUFFICES ASSUME NEW x \in S, NEW y \in S, rank[x] = rank[y], x # y  PROVE FALSE
    OBVIOUS
  <2> HIDE DEF rank, below
  <2>1. rank[x] \in Nat /\ rank[y] \in Nat
    BY <1>3
  <2>2. ~(rank[x] + 1 <= rank[y]) /\ ~(rank[y] + 1 <= rank[x])
    BY <2>1, rank[x] = rank[y]
  <2>3. <<x, y>> \notin R /\ <<y, x>> \notin R
    BY <1>4, <2>2
  <2> QED
    BY <1>2, <2>3
<1>7. \A k \in 1..n : \E x \in S : rank[x] = k - 1
  <2>1. r \in [S -> 1..n]
    <3>1. \A x \in S : rank[x] \in Nat /\ rank[x] + 1 <= n
      BY <1>3, <1>5
    <3> HIDE DEF rank, below, n
    <3> QED
      BY <1>1, <3>1
  <2>2. \A x, y \in S : r[x] = r[y] => x = y
    <3>1. \A x \in S : r[x] = rank[x] + 1
      OBVIOUS
    <3>2. \A x \in S : rank[x] \in Nat
      BY <1>3
    <3> HIDE DEF rank, r, below
    <3> QED
      BY <1>6, <3>1, <3>2
  <2>3. IsFiniteSet(1..n) /\ Cardinality(1..n) = n
    <3>1. 1 \in Int /\ n \in Int
      BY <1>1
    <3> HIDE DEF n
    <3>2. IsFiniteSet(1..n) /\ Cardinality(1..n) = IF 1 > n THEN 0 ELSE n - 1 + 1
      BY ONLY <3>1, FS_Interval
    <3> QED
      BY <1>1, <3>2
  <2> HIDE DEF r
  <2>4. r \in Injection(S, 1..n)
    <3> HIDE DEF n
    <3> QED
      BY <2>1, <2>2 DEF Injection, IsInjective
  <2>5. r \in Surjection(S, 1..n)
    <3>1. Cardinality(S) = Cardinality(1..n)
      BY <2>3
    <3> HIDE DEF n
    <3> QED
      BY ONLY <2>3, <2>4, <3>1, FS_Injection
  <2>6. \A k \in 1..n : \E x \in S : r[x] = k
    BY <2>5 DEF Surjection
  <2> SUFFICES ASSUME NEW k \in 1..n  PROVE \E x \in S : rank[x] = k - 1
    OBVIOUS
  <2>7. PICK x \in S : r[x] = k
    BY <2>6
  <2>8. r[x] = rank[x] + 1
    BY DEF r
  <2>9. rank[x] \in Nat
    BY <1>3
  <2> HIDE DEF rank, below, n, r
  <2> QED
    BY <1>1, <2>7, <2>8, <2>9
<1>8. \A k \in 1..n : f[k] \in S /\ rank[f[k]] = k - 1
  <2> SUFFICES ASSUME NEW k \in 1..n  PROVE f[k] \in S /\ rank[f[k]] = k - 1
    OBVIOUS
  <2>1. f[k] = CHOOSE x \in S : Cardinality({y \in S : <<y, x>> \in R}) = k - 1
    BY ONLY k \in 1..n DEF Ordered, f, n
  <2>2. \A x \in S : rank[x] = Cardinality({y \in S : <<y, x>> \in R})
    OBVIOUS
  <2> HIDE DEF f, rank, below, n
  <2> QED
    BY <1>7, <2>1, <2>2
<1>9. f \in [1..n -> S]
  <2> DEFINE e(k) == CHOOSE x \in S : Cardinality({y \in S : <<y, x>> \in R}) = k - 1
  <2>1. f = [k \in 1..n |-> e(k)]
    BY ONLY DEF Ordered, f, n, e
  <2> HIDE DEF f, n, e, rank, below
  <2>2. \A k \in 1..n : e(k) \in S
    BY <1>8, <2>1
  <2> QED
    BY ONLY <2>1, <2>2
<1>10. \A x \in S : \E k \in 1..n : f[k] = x
  <2> SUFFICES ASSUME NEW x \in S  PROVE \E k \in 1..n : f[k] = x
    OBVIOUS
  <2>1. rank[x] + 1 \in 1..n /\ (rank[x] + 1) - 1 = rank[x]
    <3>1. rank[x] \in Nat /\ rank[x] + 1 <= n
      BY <1>3, <1>5
    <3> HIDE DEF rank, n, below
    <3> QED
      BY <1>1, <3>1
  <2> HIDE DEF rank, n, f, below
  <2> QED
    BY <1>6, <1>8, <2>1
<1>11. \A j, k \in 1..n : j < k => <<f[j], f[k]>> \in R /\ <<f[k], f[j]>> \notin R
  <2> SUFFICES ASSUME NEW j \in 1..n, NEW k \in 1..n, j < k
               PROVE  <<f[j], f[k]>> \in R /\ <<f[k], f[j]>> \notin R
    OBVIOUS
  <2>1. f[j] \in S /\ f[k] \in S /\ rank[f[j]] = j - 1 /\ rank[f[k]] = k - 1
    BY <1>8
  <2> HIDE DEF f, rank, below, n
  <2>2. rank[f[j]] < rank[f[k]] /\ rank[f[j]] \in Nat /\ rank[f[k]] \in Nat
    BY <1>1, <1>3, <2>1
  <2>3. <<f[k], f[j]>> \notin R
    BY <1>4, <2>1, <2>2
  <2>4. f[j] # f[k]
    BY <2>2
  <2> QED
    BY <1>2, <2>1, <2>3, <2>4
<1>12. \A j, k \in 1..n : f[j] = f[k] => j = k
  <2> HIDE DEF f, rank, below
  <2>1. \A k \in 1..n : rank[f[k]] = k - 1
    BY <1>8
  <2> QED
    BY <1>1, <2>1
<1> HIDE DEF f, n
<1> QED
  BY <1>1, <1>9, <1>10, <1>11, <1>12 DEF f, n, Sorts

\* Positions in the order of the numbers.
LEMMA PlacesInOrder ==
  ASSUME NEW m \in Nat, NEW I \in SUBSET (1..m)
  PROVE  LET n == Cardinality(I)
             place == Ordered(I, {p \in I \X I : p[1] < p[2]})
         IN /\ IsFiniteSet(I) /\ n \in Nat /\ place \in [1..n -> I]
            /\ \A i \in I : \E k \in 1..n : place[k] = i
            /\ \A j, k \in 1..n : j < k => place[j] < place[k]
<1> DEFINE R == {p \in I \X I : p[1] < p[2]}
<1>1. IsFiniteSet(I)
  <2>1. IsFiniteSet(1..m)
    <3>1. 1 \in Int /\ m \in Int
      OBVIOUS
    <3> QED
      BY ONLY <3>1, FS_Interval
  <2> QED
    BY <2>1, FS_Subset
<1>2. \A x, y \in I : x \in Int /\ (<<x, y>> \in R <=> x < y)
  OBVIOUS
<1> HIDE DEF R
<1>3. Orders(R, I)
  BY ONLY <1>2 DEF Orders
<1> DEFINE n == Cardinality(I)
           place == Ordered(I, R)
<1>4. /\ n \in Nat /\ place \in [1..n -> I]
      /\ \A i \in I : \E k \in 1..n : place[k] = i
      /\ \A j, k \in 1..n : j < k => <<place[j], place[k]>> \in R
  <2>1. LET m_ == Cardinality(I)
            f == Ordered(I, R)
        IN /\ m_ \in Nat /\ f \in [1..m_ -> I]
           /\ \A x \in I : \E k \in 1..m_ : f[k] = x
           /\ \A j, k \in 1..m_ : j < k => <<f[j], f[k]>> \in R /\ <<f[k], f[j]>> \notin R
           /\ \A j, k \in 1..m_ : f[j] = f[k] => j = k
    BY ONLY <1>1, <1>3, OrderedSorts DEF Sorts
  <2> QED
    BY ONLY <2>1
<1> HIDE DEF n, place
<1>5. \A j, k \in 1..n : j < k => place[j] < place[k]
  BY <1>2, <1>4
<1> QED
  BY <1>1, <1>4, <1>5 DEF n, place, R

\* What Picked returns: the elements at the positions, in their order.
LEMMA PickedIs ==
  ASSUME NEW V, NEW seq \in Seq(V), NEW I \in SUBSET (DOMAIN seq)
  PROVE  LET n == Cardinality(I)
             out == Picked(seq, I)
         IN /\ out \in Seq(V) /\ Len(out) = n /\ n \in Nat
            /\ \E place \in [1..n -> I] :
                 /\ \A k \in 1..n : out[k] = seq[place[k]]
                 /\ \A i \in I : \E k \in 1..n : place[k] = i
                 /\ \A j, k \in 1..n : j < k => place[j] < place[k]
<1> DEFINE n == Cardinality(I)
           place == Ordered(I, {p \in I \X I : p[1] < p[2]})
           out == Picked(seq, I)
           m == Len(seq)
<1>1. m \in Nat /\ DOMAIN seq = 1..m /\ \A i \in 1..m : seq[i] \in V
  OBVIOUS
<1>2. /\ n \in Nat /\ place \in [1..n -> I]
      /\ \A i \in I : \E k \in 1..n : place[k] = i
      /\ \A j, k \in 1..n : j < k => place[j] < place[k]
  <2>1. m \in Nat /\ I \in SUBSET (1..m)
    BY <1>1
  <2> HIDE DEF m
  <2> QED
    BY ONLY <2>1, PlacesInOrder
<1>3. out = [k \in 1..n |-> seq[place[k]]]
  BY DEF Picked
<1> HIDE DEF n, place, out, m
<1>4. \A k \in 1..n : seq[place[k]] \in V
  BY <1>1, <1>2
<1>5. out \in Seq(V) /\ Len(out) = n
  BY <1>2, <1>3, <1>4
<1>6. \A k \in 1..n : out[k] = seq[place[k]]
  BY <1>3
<1> QED
  BY <1>2, <1>5, <1>6 DEF n, out

-----------------------------------------------------------------------------
(***************************************************************************)
(* Fusion.                                                                 *)
(***************************************************************************)
Five == TextChannels \cup {"visual"}

\* The greater of two divisors with the same product has the smaller quotient.
LEMMA SmallerQuotient ==
  ASSUME NEW d \in Nat, NEW e \in Nat, d > 0, d < e, NEW s \in Nat, NEW t \in Nat,
         d * s = e * t, e * t > 0
  PROVE  t < s
<1>1. t > 0
  <2>1. t = 0 => e * t = 0
    OBVIOUS
  <2> QED
    BY <2>1
<1>2. e * t = d * t + (e - d) * t
  OBVIOUS
<1>3. (e - d) * t > 0
  <2>1. e - d \in Nat /\ e - d > 0
    OBVIOUS
  <2>2. \A x, y \in Nat : x > 0 /\ y > 0 => x * y > 0
    OBVIOUS
  <2> QED
    BY <1>1, <2>1, <2>2
<1>4. d * t < d * s
  <2>1. d * t \in Int /\ (e - d) * t \in Int /\ d * s \in Int
    OBVIOUS
  <2> QED
    BY <1>2, <1>3, <2>1
<1>5. \A x, y, z \in Nat : x <= y => z * x <= z * y
  OBVIOUS
<1> QED
  BY <1>4, <1>5

\* Division that leaves no rest.
LEMMA ExactQuotient ==
  ASSUME NEW a \in Nat, NEW d \in Nat, d > 0, a % d = 0
  PROVE  a \div d \in Int /\ a = d * (a \div d)
  OBVIOUS

\* A term of a score is a positive whole number, the less the lower the rank.
LEMMA TermFalls ==
  /\ \A p \in 1..MaxRank : Scale \div (RRF_K + p) \in Nat /\ Scale \div (RRF_K + p) > 0
  /\ \A p, q \in 1..MaxRank : p < q => Scale \div (RRF_K + q) < Scale \div (RRF_K + p)
<1>1. /\ RRF_K \in Nat \ {0} /\ MaxRank \in Nat \ {0} /\ Scale \in Nat \ {0}
      /\ \A p \in 1..MaxRank : Scale % (RRF_K + p) = 0
  BY RankAssumption
<1>2. ASSUME NEW p \in 1..MaxRank
      PROVE  /\ RRF_K + p \in Nat /\ RRF_K + p > 0
             /\ Scale \div (RRF_K + p) \in Nat
             /\ (RRF_K + p) * (Scale \div (RRF_K + p)) = Scale
             /\ Scale \div (RRF_K + p) > 0
  <2> DEFINE d == RRF_K + p
             m == Scale \div d
  <2>1. d \in Nat /\ d > 0 /\ Scale % d = 0
    BY <1>1
  <2> HIDE DEF d
  <2>2. m \in Int /\ Scale = d * m
    <3>1. Scale \in Nat
      BY <1>1
    <3> QED
      BY ONLY <2>1, <3>1, ExactQuotient
  <2>3. Scale = d * m
    BY <2>2
  <2> HIDE DEF m
  <2>4. m > 0
    <3>1. \A x \in Nat, y \in Int : y <= 0 => x * y <= 0
      OBVIOUS
    <3> QED
      BY <1>1, <2>1, <2>2, <2>3, <3>1
  <2> QED
    BY <2>1, <2>2, <2>3, <2>4 DEF d, m
<1>3. ASSUME NEW p \in 1..MaxRank, NEW q \in 1..MaxRank, p < q
      PROVE  Scale \div (RRF_K + q) < Scale \div (RRF_K + p)
  <2> DEFINE d == RRF_K + p
             e == RRF_K + q
             s == Scale \div d
             t == Scale \div e
  <2>1. d \in Nat /\ d > 0 /\ e \in Nat /\ s \in Nat /\ t \in Nat /\ d * s = Scale /\ e * t = Scale
    BY <1>2
  <2>2. d < e
    BY <1>1, <1>3
  <2>3. Scale > 0
    BY <1>1
  <2> HIDE DEF d, e, s, t
  <2>4. t < s
    BY <2>1, <2>2, <2>3, SmallerQuotient
  <2> QED
    BY <2>4 DEF d, e, s, t
<1> QED
  BY <1>2, <1>3

\* The ranks of a chunk are its places in the channels that found it.
LEMMA RanksAre ==
  ASSUME NEW N, NEW channels \in [N -> Hits], NEW c
  PROVE  LET r == Ranks(channels, c) IN
         /\ DOMAIN r = {name \in N : c \in ToSet(channels[name])}
         /\ \A name \in DOMAIN r :
              /\ r[name] = CHOOSE i \in DOMAIN channels[name] : channels[name][i] = c
              /\ r[name] \in DOMAIN channels[name] /\ channels[name][r[name]] = c
              /\ r[name] \in 1..MaxRank
<1> DEFINE r == Ranks(channels, c)
<1>1. /\ DOMAIN r = {name \in N : c \in ToSet(channels[name])}
      /\ \A name \in DOMAIN r : r[name] = CHOOSE i \in DOMAIN channels[name] : channels[name][i] = c
  BY DEF Ranks
<1>2. ASSUME NEW name \in DOMAIN r
      PROVE  /\ r[name] \in DOMAIN channels[name] /\ channels[name][r[name]] = c
             /\ r[name] \in 1..MaxRank
  <2>1. c \in ToSet(channels[name]) /\ channels[name] \in Hits
    BY <1>1
  <2>2. \E i \in DOMAIN channels[name] : channels[name][i] = c
    BY <2>1 DEF ToSet
  <2> HIDE DEF r
  <2>3. r[name] \in DOMAIN channels[name] /\ channels[name][r[name]] = c
    BY <1>1, <2>2
  <2>4. channels[name] \in Seq(Stored) /\ Len(channels[name]) <= MaxRank
    BY <2>1 DEF Hits, Listings
  <2> QED
    BY <2>3, <2>4, RankAssumption
<1> QED
  BY <1>1, <1>2

\* Ranks the score is made for.
RankRecords(r) == DOMAIN r \subseteq Five /\ \A name \in DOMAIN r : r[name] \in 1..MaxRank

\* A score is a natural number; and found wherever another is, at no lower rank,
\* and somewhere better, scores more.
LEMMA BetterScoresMore ==
  ASSUME NEW r, NEW s, RankRecords(r), RankRecords(s)
  PROVE  /\ Score(r) \in Nat
         /\ (/\ \A name \in DOMAIN s : name \in DOMAIN r /\ r[name] <= s[name]
             /\ \E name \in DOMAIN r : name \in DOMAIN s => r[name] < s[name])
            => Score(r) > Score(s)
<1> DEFINE t(f, name) == IF name \in DOMAIN f THEN Scale \div (RRF_K + f[name]) ELSE 0
<1>1. /\ Score(r) = t(r, "bm25") + t(r, "dense") + t(r, "sparse") + t(r, "multivec") + t(r, "visual")
      /\ Score(s) = t(s, "bm25") + t(s, "dense") + t(s, "sparse") + t(s, "multivec") + t(s, "visual")
  BY DEF Score
<1>2. \A name : t(r, name) \in Nat /\ t(s, name) \in Nat
  BY TermFalls DEF RankRecords
<1>3. ASSUME \A name \in DOMAIN s : name \in DOMAIN r /\ r[name] <= s[name]
      PROVE  \A name : t(r, name) >= t(s, name)
  <2> SUFFICES ASSUME NEW name, name \in DOMAIN s  PROVE t(r, name) >= t(s, name)
    BY <1>2
  <2>1. r[name] \in 1..MaxRank /\ s[name] \in 1..MaxRank /\ r[name] <= s[name] /\ name \in DOMAIN r
    BY <1>3 DEF RankRecords
  <2>2. CASE r[name] = s[name]
    BY <1>2, <2>1, <2>2
  <2>3. CASE r[name] # s[name]
    <3>1. r[name] < s[name]
      BY <2>1, <2>3
    <3> QED
      BY <1>2, <2>1, <3>1, TermFalls
  <2> QED
    BY <2>2, <2>3
<1>4. ASSUME NEW name \in DOMAIN r, name \in DOMAIN s => r[name] < s[name]
      PROVE  name \in Five /\ t(r, name) > t(s, name)
  <2>1. name \in Five /\ r[name] \in 1..MaxRank
    BY DEF RankRecords
  <2>2. CASE name \in DOMAIN s
    BY <1>4, <2>1, <2>2, TermFalls DEF RankRecords
  <2>3. CASE name \notin DOMAIN s
    BY <2>1, <2>3, TermFalls
  <2> QED
    BY <2>1, <2>2, <2>3
<1> HIDE DEF t
<1>5. Score(r) \in Nat
  BY <1>1, <1>2
<1>6. ASSUME \A name \in DOMAIN s : name \in DOMAIN r /\ r[name] <= s[name],
             \E name \in DOMAIN r : name \in DOMAIN s => r[name] < s[name]
      PROVE  Score(r) > Score(s)
  <2>1. PICK name \in Five : t(r, name) > t(s, name)
    BY <1>4, <1>6
  <2>2. \A x : t(r, x) >= t(s, x) /\ t(r, x) \in Nat /\ t(s, x) \in Nat
    BY <1>2, <1>3, <1>6
  <2>3. name \in {"bm25", "dense", "sparse", "multivec", "visual"}
    BY <2>1 DEF Five, TextChannels
  <2> QED
    BY <1>1, <2>1, <2>2, <2>3
<1> QED
  BY <1>5, <1>6

\* A list's elements are finitely many, as many as places if none is repeated.
LEMMA ElementsOf ==
  ASSUME NEW V, NEW seq \in Seq(V)
  PROVE  /\ IsFiniteSet(ToSet(seq)) /\ Cardinality(ToSet(seq)) <= Len(seq)
         /\ (\A i, j \in DOMAIN seq : seq[i] = seq[j] => i = j) => Cardinality(ToSet(seq)) = Len(seq)
<1> DEFINE n == Len(seq)
           E == ToSet(seq)
<1>1. n \in Nat /\ DOMAIN seq = 1..n /\ seq = [i \in 1..n |-> seq[i]]
  OBVIOUS
<1>2. E = {seq[i] : i \in 1..n}
  BY <1>1 DEF ToSet
<1>3. IsFiniteSet(1..n) /\ Cardinality(1..n) = n
  <2>1. 1 \in Int /\ n \in Int
    BY <1>1
  <2> HIDE DEF n
  <2>2. IsFiniteSet(1..n) /\ Cardinality(1..n) = IF 1 > n THEN 0 ELSE n - 1 + 1
    BY ONLY <2>1, FS_Interval
  <2> QED
    BY <1>1, <2>2
<1> HIDE DEF n, E
<1>4. seq \in Surjection(1..n, E)
  BY ONLY <1>1, <1>2 DEF Surjection
<1>5. /\ IsFiniteSet(E) /\ Cardinality(E) <= Cardinality(1..n)
      /\ Cardinality(E) = Cardinality(1..n) <=> seq \in Injection(1..n, E)
  BY ONLY <1>3, <1>4, FS_Surjection
<1>6. (\A i, j \in DOMAIN seq : seq[i] = seq[j] => i = j) => seq \in Injection(1..n, E)
  BY ONLY <1>1, <1>2 DEF Injection, IsInjective
<1> QED
  BY <1>3, <1>5, <1>6 DEF n, E

\* The first k elements.
LEMMA TopIs ==
  ASSUME NEW V, NEW seq \in Seq(V), NEW k \in Nat
  PROVE  LET top == Top(seq, k)
             n == IF k < Len(seq) THEN k ELSE Len(seq)
         IN /\ top \in Seq(V) /\ n \in Nat /\ n <= Len(seq) /\ Len(top) = n /\ DOMAIN top = 1..n
            /\ \A i \in 1..n : top[i] = seq[i]
<1> DEFINE n == IF k < Len(seq) THEN k ELSE Len(seq)
<1>1. n \in Nat /\ n <= Len(seq)
  OBVIOUS
<1>2. Top(seq, k) = SubSeq(seq, 1, n)
  BY DEF Top
<1>3. SubSeq(seq, 1, n) = [i \in 1..n |-> seq[i]]
  <2> HIDE DEF n
  <2> QED
    BY <1>1
<1> HIDE DEF n
<1> QED
  BY <1>1, <1>2, <1>3 DEF n

\* The chunks some channels found are rows of the table, and finitely many.
LEMMA FoundIsFinite ==
  ASSUME NEW N \in SUBSET Five, NEW channels \in [N -> Hits]
  PROVE  LET chunks == UNION {ToSet(channels[name]) : name \in DOMAIN channels} IN
         chunks \subseteq Stored /\ IsFiniteSet(chunks)
<1> DEFINE lists == {ToSet(channels[name]) : name \in N}
           g == [name \in N |-> ToSet(channels[name])]
<1>1. \A name \in N : channels[name] \in Seq(Stored)
  BY DEF Hits, Listings
<1>2. \A name \in N : ToSet(channels[name]) \subseteq Stored /\ IsFiniteSet(ToSet(channels[name]))
  <2> SUFFICES ASSUME NEW name \in N
               PROVE  ToSet(channels[name]) \subseteq Stored /\ IsFiniteSet(ToSet(channels[name]))
    OBVIOUS
  <2> DEFINE seq == channels[name]
  <2>1. seq \in Seq(Stored)
    BY <1>1
  <2> HIDE DEF seq
  <2>2. IsFiniteSet(ToSet(seq))
    BY ONLY <2>1, ElementsOf
  <2>3. ToSet(seq) \subseteq Stored
    BY ONLY <2>1 DEF ToSet
  <2> QED
    BY <2>2, <2>3 DEF seq
<1>3. IsFiniteSet(N)
  <2>1. IsFiniteSet(Five)
    <3>1. Five = {"bm25"} \cup ({"dense"} \cup ({"sparse"} \cup ({"multivec"} \cup {"visual"})))
      BY DEF Five, TextChannels
    <3>2. \A x : IsFiniteSet({x})
      BY FS_Singleton
    <3>3. \A S, T : IsFiniteSet(S) /\ IsFiniteSet(T) => IsFiniteSet(S \cup T)
      BY FS_Union
    <3> QED
      BY ONLY <3>1, <3>2, <3>3
  <2> QED
    BY ONLY <2>1, FS_Subset, N \in SUBSET Five
<1>4. g \in Surjection(N, lists)
  BY DEF Surjection
<1> HIDE DEF g, lists
<1>5. IsFiniteSet(lists)
  BY ONLY <1>3, <1>4, FS_Surjection
<1>6. \A T \in lists : IsFiniteSet(T)
  BY <1>2 DEF lists
<1>7. IsFiniteSet(UNION lists)
  BY ONLY <1>5, <1>6, FS_UNION
<1>8. UNION lists \subseteq Stored
  BY <1>2 DEF lists
<1> QED
  BY <1>7, <1>8 DEF lists

\* The chunks that some channel found.
AllFound(channels) == UNION {ToSet(channels[name]) : name \in DOMAIN channels}

\* What fuse returns: each found chunk once, as far as there is room, with the
\* ranks it has; and none that scores more is left out or comes later.
Fusion(out, channels, k) ==
  LET chunks == AllFound(channels)
      m == Cardinality(chunks)
      n == IF k < m THEN k ELSE m
  IN /\ chunks \subseteq Stored /\ IsFiniteSet(chunks)
     /\ m \in Nat /\ n \in Nat /\ DOMAIN out = 1..n /\ Len(out) = n /\ out \in Seq(ToSet(out))
     /\ \A i \in 1..n : /\ out[i].chunk \in chunks
                        /\ out[i].ranks = Ranks(channels, out[i].chunk)
     /\ \A i, j \in 1..n : out[i].chunk = out[j].chunk => i = j
     /\ \A i \in 1..n, c \in chunks :
          Score(Ranks(channels, c)) > Score(out[i].ranks) => \E j \in 1..(i - 1) : out[j].chunk = c

\* Fuse is such a fusion.
LEMMA FuseIs ==
  ASSUME NEW N \in SUBSET Five, NEW channels \in [N -> Hits], NEW up, NEW k \in Nat
  PROVE  Fusion(Fuse(channels, up, k), channels, k)
<1> DEFINE chunks == AllFound(channels)
           m == Cardinality(chunks)
           n == IF k < m THEN k ELSE m
           out == Fuse(channels, up, k)
           rounded(c) == IF c \in up /\ Cardinality(DOMAIN Ranks(channels, c)) > 2 THEN 1 ELSE 0
           Entry(c) == [chunk |-> c, ranks |-> Ranks(channels, c), score |-> Score(Ranks(channels, c)),
                        rounded |-> rounded(c)]
           entries == {Entry(c) : c \in chunks}
           R == {p \in entries \X entries : RankedBefore(p[1], p[2])}
           f == Ordered(entries, R)
<1>1. chunks \subseteq Stored /\ IsFiniteSet(chunks)
  BY FoundIsFinite DEF AllFound
<1>2. m \in Nat
  BY <1>1, FS_CardinalityType
<1>3. out = Top(f, k)
  BY DEF Fuse, AllFound
<1>4. \A c \in chunks : Score(Ranks(channels, c)) \in Nat
  <2> SUFFICES ASSUME NEW c  PROVE Score(Ranks(channels, c)) \in Nat
    OBVIOUS
  <2> DEFINE r == Ranks(channels, c)
  <2>1. DOMAIN r = {name \in N : c \in ToSet(channels[name])} /\ \A name \in DOMAIN r : r[name] \in 1..MaxRank
    <3>1. /\ DOMAIN r = {name \in N : c \in ToSet(channels[name])}
          /\ \A name \in DOMAIN r :
               /\ r[name] = CHOOSE i \in DOMAIN channels[name] : channels[name][i] = c
               /\ r[name] \in DOMAIN channels[name] /\ channels[name][r[name]] = c
               /\ r[name] \in 1..MaxRank
      BY ONLY channels \in [N -> Hits], RanksAre, ZenonT(20)
    <3> QED
      BY ONLY <3>1
  <2> HIDE DEF r
  <2>2. RankRecords(r)
    BY <2>1 DEF RankRecords
  <2>3. Score(r) \in Nat
    BY ONLY <2>2, BetterScoresMore
  <2> QED
    BY <2>3 DEF r
<1>5. \A c : rounded(c) \in {0, 1}
  OBVIOUS
<1> HIDE DEF rounded, chunks
<1>6. \A c : /\ Entry(c).chunk = c /\ Entry(c).ranks = Ranks(channels, c)
             /\ Entry(c).score = Score(Ranks(channels, c)) /\ Entry(c).rounded = rounded(c)
  OBVIOUS
<1> HIDE DEF Entry
<1>7. \A e \in entries : /\ e.chunk \in chunks /\ e = Entry(e.chunk)
                         /\ e.score = Score(Ranks(channels, e.chunk)) /\ e.ranks = Ranks(channels, e.chunk)
                         /\ e.score \in Nat /\ e.rounded \in Nat /\ e.chunk.id \in Int
  <2> SUFFICES ASSUME NEW c \in chunks
               PROVE  /\ Entry(c).chunk = c /\ Entry(c).score = Score(Ranks(channels, c))
                      /\ Entry(c).ranks = Ranks(channels, c)
                      /\ Entry(c).score \in Nat /\ Entry(c).rounded \in Nat /\ c.id \in Int
    OBVIOUS
  <2>1. c.id \in Int
    BY <1>1, StoredAssumption
  <2>2. rounded(c) \in Nat
    BY <1>5
  <2> QED
    BY <1>4, <1>6, <2>1, <2>2
<1>8. \A e, d \in entries : e.chunk.id = d.chunk.id => e = d
  <2> SUFFICES ASSUME NEW e \in entries, NEW d \in entries, e.chunk.id = d.chunk.id  PROVE e = d
    OBVIOUS
  <2>1. e.chunk \in Stored /\ d.chunk \in Stored
    BY <1>1, <1>7
  <2>2. e.chunk = d.chunk
    BY <2>1, StoredAssumption
  <2> QED
    BY <1>7, <2>2
<1>9. \A e, d \in entries : <<e, d>> \in R <=> RankedBefore(e, d)
  OBVIOUS
<1> HIDE DEF R, entries
<1>10. Orders(R, entries)
  <2>1. \A e \in entries : <<e, e>> \notin R
    BY <1>7, <1>9 DEF RankedBefore
  <2>2. ASSUME NEW e \in entries, NEW d \in entries, e # d
        PROVE  RankedBefore(e, d) \/ RankedBefore(d, e)
    <3>1. /\ e.score \in Nat /\ e.rounded \in Nat /\ e.chunk.id \in Int
          /\ d.score \in Nat /\ d.rounded \in Nat /\ d.chunk.id \in Int
      BY <1>7
    <3>2. e.chunk.id # d.chunk.id
      BY <1>8, <2>2
    <3> QED
      BY ONLY <3>1, <3>2 DEF RankedBefore
  <2>3. ASSUME NEW c \in entries, NEW d \in entries, NEW e \in entries,
               RankedBefore(c, d), RankedBefore(d, e)
        PROVE  RankedBefore(c, e)
    <3>1. /\ c.score \in Nat /\ c.rounded \in Nat /\ c.chunk.id \in Int
          /\ d.score \in Nat /\ d.rounded \in Nat /\ d.chunk.id \in Int
          /\ e.score \in Nat /\ e.rounded \in Nat /\ e.chunk.id \in Int
      BY <1>7
    <3> QED
      BY ONLY <2>3, <3>1 DEF RankedBefore
  <2> QED
    BY <1>9, <2>1, <2>2, <2>3 DEF Orders
<1>11. IsFiniteSet(entries) /\ Cardinality(entries) = m
  <2> DEFINE g == [c \in chunks |-> Entry(c)]
  <2>1. g \in Bijection(chunks, entries)
    <3>1. \A c, d \in chunks : g[c] = g[d] => c = d
      BY <1>6
    <3>2. g \in [chunks -> entries] /\ \A e \in entries : \E c \in chunks : g[c] = e
      BY DEF entries
    <3> HIDE DEF g
    <3> QED
      BY <3>1, <3>2 DEF Bijection, Injection, Surjection, IsInjective
  <2>2. ExistsBijection(chunks, entries)
    BY <2>1 DEF ExistsBijection
  <2> QED
    BY <1>1, <2>2, FS_Bijection
<1>12. /\ f \in [1..m -> entries]
       /\ \A e \in entries : \E j \in 1..m : f[j] = e
       /\ \A j, i \in 1..m : j < i => <<f[j], f[i]>> \in R /\ <<f[i], f[j]>> \notin R
       /\ \A j, i \in 1..m : f[j] = f[i] => j = i
  <2>1. LET p == Cardinality(entries)
            h == Ordered(entries, R)
        IN /\ p \in Nat /\ h \in [1..p -> entries]
           /\ \A x \in entries : \E i \in 1..p : h[i] = x
           /\ \A j, i \in 1..p : j < i => <<h[j], h[i]>> \in R /\ <<h[i], h[j]>> \notin R
           /\ \A j, i \in 1..p : h[j] = h[i] => j = i
    BY ONLY <1>10, <1>11, OrderedSorts DEF Sorts
  <2> HIDE DEF m
  <2> QED
    BY ONLY <1>11, <2>1
<1> HIDE DEF f, m, out
<1>13. f \in Seq(entries) /\ Len(f) = m
  BY <1>2, <1>12
<1>14. out \in Seq(entries) /\ n \in Nat /\ n <= m /\ Len(out) = n /\ DOMAIN out = 1..n /\ \A i \in 1..n : out[i] = f[i]
  <2>1. out = Top(f, k) /\ f \in Seq(entries) /\ Len(f) = m
    BY <1>3, <1>13
  <2> QED
    BY ONLY <2>1, k \in Nat, TopIs
<1> HIDE DEF n
<1>15. \A i \in 1..n : i \in 1..m /\ out[i] \in entries /\ out[i] = f[i]
  BY <1>2, <1>12, <1>14
<1>16. \A i \in 1..n : out[i].chunk \in chunks /\ out[i].ranks = Ranks(channels, out[i].chunk)
  BY <1>7, <1>15
<1>17. \A i, j \in 1..n : out[i].chunk = out[j].chunk => i = j
  <2> SUFFICES ASSUME NEW i \in 1..n, NEW j \in 1..n, out[i].chunk = out[j].chunk  PROVE i = j
    OBVIOUS
  <2>1. out[i] = out[j]
    BY <1>7, <1>15
  <2> QED
    BY <1>12, <1>15, <2>1
<1>18. ASSUME NEW i \in 1..n, NEW c \in chunks, Score(Ranks(channels, c)) > Score(out[i].ranks)
       PROVE  \E j \in 1..(i - 1) : out[j].chunk = c
  <2>1. Entry(c) \in entries
    BY DEF entries
  <2>2. PICK j \in 1..m : f[j] = Entry(c)
    BY <1>12, <2>1
  <2>3. f[j].score > f[i].score /\ f[j].score \in Nat /\ f[i].score \in Nat /\ i \in 1..m
    BY <1>6, <1>7, <1>12, <1>15, <1>18, <2>1, <2>2
  <2>4. ~RankedBefore(f[i], f[j])
    BY <2>3 DEF RankedBefore
  <2>5. ~(i < j) /\ i # j
    <3>1. i < j => RankedBefore(f[i], f[j])
      BY <1>9, <1>12, <2>3
    <3>2. i # j
      BY <2>3
    <3> QED
      BY <2>4, <3>1, <3>2
  <2>6. j \in 1..(i - 1) /\ j \in 1..n
    BY <1>2, <1>14, <2>3, <2>5
  <2> QED
    BY <1>6, <1>15, <2>2, <2>6
<1>19. out \in Seq(ToSet(out))
  <2>1. \A i \in DOMAIN out : out[i] \in ToSet(out)
    BY <1>14 DEF ToSet
  <2> QED
    BY ONLY <1>14, <2>1
<1> QED
  BY <1>1, <1>2, <1>14, <1>16, <1>17, <1>18, <1>19 DEF Fusion, n, m, chunks, out

\* What rerank returns are hits of the fusion.
LEMMA RerankIs ==
  ASSUME NEW V, NEW list \in Seq(V), \A i \in DOMAIN list : list[i].chunk \in Stored,
         \A i, j \in DOMAIN list : list[i].chunk = list[j].chunk => i = j,
         NEW confidence \in [ToSet(Chunks(list)) -> Confidences], NEW k \in Nat
  PROVE  Rerank(list, confidence, k) \in Seq(ToSet(list))
<1> DEFINE hits == ToSet(list)
           Before(r, s) ==
             \/ confidence[r.chunk] > confidence[s.chunk]
             \/ confidence[r.chunk] = confidence[s.chunk] /\ r.chunk.id < s.chunk.id
           R == {p \in hits \X hits : Before(p[1], p[2])}
<1>1. IsFiniteSet(hits)
  BY ElementsOf
<1>2. \A h \in hits : \E i \in DOMAIN list : h = list[i]
  BY DEF ToSet
<1>3. \A h \in hits : h.chunk \in Stored /\ h.chunk.id \in Int /\ confidence[h.chunk] \in Int
  <2> SUFFICES ASSUME NEW i \in DOMAIN list
               PROVE  list[i].chunk.id \in Int /\ confidence[list[i].chunk] \in Int
    BY <1>2
  <2>1. list[i].chunk.id \in Int
    BY StoredAssumption
  <2>2. list[i].chunk \in ToSet(Chunks(list))
    BY DEF ToSet, Chunks
  <2>3. Confidences \subseteq Int
    BY ModelsAssumption
  <2> QED
    BY <2>1, <2>2, <2>3
<1>4. \A g, h \in hits : g.chunk.id = h.chunk.id => g = h
  <2> SUFFICES ASSUME NEW g \in hits, NEW h \in hits, g.chunk.id = h.chunk.id  PROVE g = h
    OBVIOUS
  <2>1. g.chunk = h.chunk
    BY <1>3, StoredAssumption
  <2> QED
    BY <1>2, <2>1
<1>5. \A g, h \in hits : <<g, h>> \in R <=> Before(g, h)
  OBVIOUS
<1>6. Orders(R, hits)
  <2>1. \A h \in hits : ~Before(h, h)
    BY <1>3
  <2>2. ASSUME NEW g \in hits, NEW h \in hits, g # h
        PROVE  Before(g, h) \/ Before(h, g)
    <3>1. /\ g.chunk.id \in Int /\ h.chunk.id \in Int /\ g.chunk.id # h.chunk.id
          /\ confidence[g.chunk] \in Int /\ confidence[h.chunk] \in Int
      BY <1>3, <1>4, <2>2
    <3> QED
      BY ONLY <3>1
  <2>3. ASSUME NEW f \in hits, NEW g \in hits, NEW h \in hits, Before(f, g), Before(g, h)
        PROVE  Before(f, h)
    <3>1. /\ f.chunk.id \in Int /\ g.chunk.id \in Int /\ h.chunk.id \in Int
          /\ confidence[f.chunk] \in Int /\ confidence[g.chunk] \in Int /\ confidence[h.chunk] \in Int
      BY <1>3
    <3> QED
      BY ONLY <2>3, <3>1
  <2> HIDE DEF Before, hits, R
  <2> QED
    BY <1>5, <2>1, <2>2, <2>3 DEF Orders
<1> DEFINE f == Ordered(hits, R)
           n == Cardinality(hits)
<1>7. Rerank(list, confidence, k) = Top(f, k)
  BY DEF Rerank
<1>8. f \in [1..n -> hits] /\ n \in Nat
  <2> HIDE DEF hits, R
  <2>1. LET p == Cardinality(hits)
            h == Ordered(hits, R)
        IN /\ p \in Nat /\ h \in [1..p -> hits]
           /\ \A x \in hits : \E i \in 1..p : h[i] = x
           /\ \A j, i \in 1..p : j < i => <<h[j], h[i]>> \in R /\ <<h[i], h[j]>> \notin R
           /\ \A j, i \in 1..p : h[j] = h[i] => j = i
    BY ONLY <1>1, <1>6, OrderedSorts DEF Sorts
  <2> QED
    BY ONLY <2>1
<1> HIDE DEF f, hits, n
<1>9. f \in Seq(hits)
  BY <1>8
<1>10. Top(f, k) \in Seq(hits)
  BY ONLY <1>9, TopIs, k \in Nat
<1> QED
  BY <1>7, <1>10 DEF hits

\* A selection of a listing is a listing.
LEMMA PickedHits ==
  ASSUME NEW seq \in Hits, NEW I \in SUBSET (DOMAIN seq)
  PROVE  Picked(seq, I) \in Hits
<1> DEFINE out == Picked(seq, I)
           n == Cardinality(I)
<1>1. seq \in Seq(Stored) /\ Len(seq) <= MaxRank /\ \A i, j \in DOMAIN seq : seq[i] = seq[j] => i = j
  BY DEF Hits, Listings
<1>2. /\ out \in Seq(Stored) /\ Len(out) = n /\ n \in Nat
      /\ \E place \in [1..n -> I] :
           /\ \A k \in 1..n : out[k] = seq[place[k]]
           /\ \A i \in I : \E k \in 1..n : place[k] = i
           /\ \A j, k \in 1..n : j < k => place[j] < place[k]
  <2>1. LET p == Cardinality(I)
            o == Picked(seq, I)
        IN /\ o \in Seq(Stored) /\ Len(o) = p /\ p \in Nat
           /\ \E place \in [1..p -> I] :
                /\ \A k \in 1..p : o[k] = seq[place[k]]
                /\ \A i \in I : \E k \in 1..p : place[k] = i
                /\ \A j, k \in 1..p : j < k => place[j] < place[k]
    BY ONLY <1>1, I \in SUBSET (DOMAIN seq), PickedIs
  <2> QED
    BY ONLY <2>1
<1>3. n <= Len(seq)
  <2>1. IsFiniteSet(1..Len(seq)) /\ Cardinality(1..Len(seq)) = Len(seq) /\ DOMAIN seq = 1..Len(seq)
    <3>1. Len(seq) \in Nat /\ DOMAIN seq = 1..Len(seq)
      BY <1>1
    <3>2. 1 \in Int /\ Len(seq) \in Int
      BY <3>1
    <3>3. IsFiniteSet(1..Len(seq)) /\ Cardinality(1..Len(seq)) = IF 1 > Len(seq) THEN 0 ELSE Len(seq) - 1 + 1
      BY ONLY <3>2, FS_Interval
    <3> QED
      BY ONLY <3>1, <3>3
  <2> QED
    BY <2>1, FS_Subset
<1> HIDE DEF out, n
<1>4. PICK place \in [1..n -> I] :
        /\ \A k \in 1..n : out[k] = seq[place[k]]
        /\ \A j, k \in 1..n : j < k => place[j] < place[k]
  BY <1>2
<1>5. ASSUME NEW i \in 1..n, NEW j \in 1..n, out[i] = out[j]
      PROVE  i = j
  <2>1. place[i] = place[j]
    BY <1>1, <1>4, <1>5
  <2>2. i \in Int /\ j \in Int /\ place[i] \in Int
    BY <1>1, <1>2
  <2>3. ~(i < j) /\ ~(j < i)
    BY <1>4, <2>1, <2>2
  <2> QED
    BY <2>2, <2>3
<1>6. \A i, j \in DOMAIN out : out[i] = out[j] => i = j
  BY <1>2, <1>5
<1>7. Len(seq) \in Nat /\ Len(out) <= MaxRank
  BY <1>1, <1>2, <1>3, RankAssumption
<1> QED
  BY <1>2, <1>6, <1>7 DEF Hits, Listings, out

\* What a search returns, channel by channel, are listings of the table.
LEMMA FoundTyped ==
  ASSUME path \in DOMAIN Asked, NEW s \in Searches[path]
  PROVE  /\ Found(s) \in [Five -> Hits]
         /\ [Found(s) EXCEPT !.visual = <<>>] \in [Five -> Hits]
<1>1. /\ s.precise \in Hits /\ s.broad \in Hits /\ s.dense \in Hits /\ s.sparse \in Hits
      /\ s.byMaxSim \in Hits /\ s.byPatches \in Hits
  BY SearchesAssumption
<1>2. Bm25(s.precise, s.meaningful, s.broad) \in Hits
  BY <1>1 DEF Bm25
<1>3. Multivec(s.dense, s.sparse, s.byMaxSim) \in Hits
  BY <1>1, PickedHits DEF Multivec
<1>4. Visual(s.frames, patched, s.byPatches) \in Hits
  BY <1>1, PickedHits DEF Visual
<1>5. <<>> \in Hits
  BY RankAssumption DEF Hits, Listings
<1> DEFINE e(name) ==
             CASE name = "bm25" -> Bm25(s.precise, s.meaningful, s.broad)
               [] name = "dense" -> s.dense
               [] name = "sparse" -> s.sparse
               [] name = "multivec" -> Multivec(s.dense, s.sparse, s.byMaxSim)
               [] name = "visual" -> Visual(s.frames, patched, s.byPatches)
<1>6. \A name \in Five : e(name) \in Hits
  BY <1>1, <1>2, <1>3, <1>4 DEF Five, TextChannels
<1>7. Found(s) \in [Five -> Hits]
  <2>1. Found(s) = [name \in Five |-> e(name)]
    BY DEF Found, Five
  <2> HIDE DEF e
  <2> QED
    BY ONLY <1>6, <2>1
<1> QED
  BY <1>5, <1>7 DEF Five, TextChannels

-----------------------------------------------------------------------------
(***************************************************************************)
(* The way of a question: what is kept from stage to stage.                *)
(***************************************************************************)

\* Each path goes through its own stages, and calls go on in two of them; a graph's
\* question stays the current.
WayInv ==
  /\ path \in DOMAIN Asked
  /\ path = "answer" =>
       /\ stage \in {"search", "rerank", "generate", "generating", "cite", "done", "raised"}
       /\ todo # <<>>
  /\ path = "bakeoff" =>
       stage \in {"search", "generate", "generating", "judge", "judging", "done", "raised"}
  /\ path = "channels" => stage \in {"search", "score", "done"}
  /\ path = "visual" => stage \in {"substrate", "search", "score", "done", "raised", "skipped"}
  /\ call.phase # "idle" => stage \in {"generating", "judging"}

\* The fused list is the fusion of what was found, and the reranked one of its hits.
SearchInv ==
  /\ found \in [Five -> Hits]
  /\ fused = <<>> \/ \E N \in SUBSET Five, up \in SUBSET Stored :
       /\ \A name \in Five \ N : found[name] = <<>>
       /\ fused = Fuse([name \in N |-> found[name]], up, FuseTop[path])
  /\ reranked \in Seq(ToSet(fused))
  /\ path # "answer" \/ stage \in {"search", "rerank"} => reranked = <<>>

\* What was parsed has its fields.
ParsedInv ==
  /\ parsed \in Outputs
  /\ \A i \in DOMAIN parsed.citations : parsed.citations[i].claim \in Nat

\* A finished answer is what cite made.
CiteInv == path = "answer" /\ stage = "done" => result = Cite(parsed, Given)

\* The paths are the four.
LEMMA Paths == path \in DOMAIN Asked => path \in {"answer", "bakeoff", "channels", "visual"}
  BY AskedAssumption

\* No step leaves its path.
LEMMA WayStep == WayInv /\ [Next]_vars => WayInv'
<1> SUFFICES ASSUME WayInv, [Next]_vars  PROVE WayInv'
  OBVIOUS
<1>1. path \in {"answer", "bakeoff", "channels", "visual"}
  BY Paths DEF WayInv
<1>2. CASE CheckSubstrate
  BY <1>1, <1>2 DEF CheckSubstrate, WayInv, provider
<1>3. CASE Search
  BY <1>1, <1>3 DEF Search, WayInv, provider
<1>4. CASE RerankHits
  BY <1>1, <1>4 DEF RerankHits, WayInv, provider
<1>5. CASE Generate
  BY <1>1, <1>5 DEF Generate, Asks, WayInv
<1>6. CASE Judge
  BY <1>1, <1>6 DEF Judge, Asks, WayInv
<1>7. CASE ServerReplies
  <2>1. call.phase \in {"posting", "sleeping"}
    BY <1>7 DEF ServerReplies, Answered, Rejected, Transient, TryAgain, Posted
  <2>2. UNCHANGED <<path, stage, todo>>
    BY <1>7 DEF ServerReplies
  <2> QED
    BY <1>1, <2>1, <2>2 DEF WayInv
<1>8. CASE CallFails
  <2>1. stage \in {"generating", "judging"}
    BY <1>8 DEF CallFails, WayInv
  <2> QED
    BY <1>1, <1>8, <2>1 DEF CallFails, WayInv, TakeResult, NoCall
<1>9. CASE NoContent
  BY <1>1, <1>9 DEF NoContent, WayInv, TakeResult, NoCall
<1>10. CASE ReadReply
  BY <1>1, <1>10 DEF ReadReply, WayInv, TakeResult, NoCall
<1>11. CASE ReadJudgement
  BY <1>1, <1>11 DEF ReadJudgement, WayInv, TakeResult, NoCall
<1>12. CASE CiteAnswer
  BY <1>1, <1>12 DEF CiteAnswer, WayInv, provider
<1>13. CASE ScoreChannels \/ ScoreVisual
  BY <1>1, <1>13 DEF ScoreChannels, ScoreVisual, Scored, WayInv, provider
<1>14. CASE FrameUnreadable
  BY <1>1, <1>14 DEF FrameUnreadable, WayInv, provider
<1>15. CASE Finish
  BY <1>1, <1>15 DEF Finish, WayInv, provider
<1>16. CASE Ended \/ UNCHANGED vars
  BY <1>16 DEF Ended, vars, WayInv, provider
<1> QED
  BY <1>2, <1>3, <1>4, <1>5, <1>6, <1>7, <1>8, <1>9, <1>10, <1>11, <1>12, <1>13, <1>14, <1>15,
     <1>16 DEF Next

\* What a sequence of a set has is of the set.
LEMMA Elements ==
  ASSUME NEW S, NEW s \in Seq(S)
  PROVE  \A i \in DOMAIN s : s[i] \in S
  OBVIOUS

\* The hits of the fusion are rows of the table, none of them twice.
LEMMA FusedRows ==
  ASSUME WayInv, SearchInv
  PROVE  /\ fused \in Seq(ToSet(fused))
         /\ \A i \in DOMAIN fused : fused[i].chunk \in Stored
         /\ \A i, j \in DOMAIN fused : fused[i].chunk = fused[j].chunk => i = j
<1>1. CASE fused = <<>>
  BY <1>1
<1>2. CASE fused # <<>>
  <2>1. PICK N \in SUBSET Five, up \in SUBSET Stored :
          fused = Fuse([name \in N |-> found[name]], up, FuseTop[path])
    BY <1>2 DEF SearchInv
  <2> DEFINE channels == [name \in N |-> found[name]]
             k == FuseTop[path]
  <2>2. channels \in [N -> Hits]
    BY DEF SearchInv
  <2>3. k \in Nat
    BY Paths, KAssumption DEF WayInv, FuseTop
  <2>4. fused = Fuse(channels, up, k)
    BY <2>1
  <2> HIDE DEF channels, k
  <2>5. Fusion(fused, channels, k)
    BY ONLY N \in SUBSET Five, <2>2, <2>3, <2>4, FuseIs
  <2> QED
    BY ONLY <2>5 DEF Fusion
<1> QED
  BY <1>1, <1>2

\* The fusion stays that of what was found, until the next search.
LEMMA SearchStep == WayInv /\ SearchInv /\ [Next]_vars => SearchInv'
<1> SUFFICES ASSUME WayInv, SearchInv, [Next]_vars  PROVE SearchInv'
  OBVIOUS
<1>1. path \in {"answer", "bakeoff", "channels", "visual"}
  BY Paths DEF WayInv
<1>2. ASSUME UNCHANGED <<path, search, reranked>>,
             path = "answer" /\ stage' \in {"search", "rerank"} => stage \in {"search", "rerank"}
      PROVE  SearchInv'
  <2>1. /\ path' = path /\ found' = found /\ fused' = fused /\ reranked' = reranked
    BY <1>2 DEF search
  <2> QED
    BY <1>2, <2>1 DEF SearchInv
<1>3. CASE Search
  <2>1. PICK s \in Searches[path] :
          LET all == Found(s)
              text == [name \in TextChannels |-> all[name]]
              withVisual == path \in {"answer", "visual"}
          IN /\ found' = [all EXCEPT !.visual = IF withVisual THEN @ ELSE <<>>]
             /\ fused' = Fuse(IF withVisual THEN all ELSE text, s.up, FuseTop[path])
    BY <1>3 DEF Search
  <2> DEFINE all == Found(s)
             text == [name \in TextChannels |-> all[name]]
  <2>2. path \in DOMAIN Asked /\ s.up \in SUBSET Stored
    BY SearchesAssumption DEF WayInv
  <2>3. all \in [Five -> Hits] /\ [all EXCEPT !.visual = <<>>] \in [Five -> Hits]
    BY <2>2, FoundTyped
  <2> HIDE DEF all
  <2>4. reranked' = <<>> /\ path' = path
    BY <1>3 DEF Search, SearchInv
  <2>5. CASE path \in {"answer", "visual"}
    <3>1. found' = all /\ fused' = Fuse(all, s.up, FuseTop[path])
      BY <2>1, <2>3, <2>5 DEF all
    <3>2. all = [name \in Five |-> found'[name]]
      BY <2>3, <3>1
    <3>3. fused' = Fuse([name \in Five |-> found'[name]], s.up, FuseTop[path])
      BY ONLY <3>1, <3>2
    <3>4. /\ found' \in [Five -> Hits] /\ reranked' \in Seq(ToSet(fused'))
          /\ \E N \in SUBSET Five, up \in SUBSET Stored :
               /\ \A name \in Five \ N : found'[name] = <<>>
               /\ fused' = Fuse([name \in N |-> found'[name]], up, FuseTop[path])
      <4>1. \A name \in Five \ Five : found'[name] = <<>>
        OBVIOUS
      <4>2. found' \in [Five -> Hits]
        BY <2>3, <3>1
      <4>3. reranked' \in Seq(ToSet(fused'))
        BY <2>4
      <4> QED
        BY ONLY <2>2, <3>3, <4>1, <4>2, <4>3
    <3> QED
      BY <2>4, <3>4 DEF SearchInv
  <2>6. CASE path \notin {"answer", "visual"}
    <3>1. found' = [all EXCEPT !.visual = <<>>] /\ fused' = Fuse(text, s.up, FuseTop[path])
      BY <2>1, <2>3, <2>6 DEF all
    <3>2. text = [name \in TextChannels |-> found'[name]]
      BY <2>3, <3>1 DEF TextChannels, Five
    <3>3. fused' = Fuse([name \in TextChannels |-> found'[name]], s.up, FuseTop[path])
      BY ONLY <3>1, <3>2
    <3>4. /\ found' \in [Five -> Hits] /\ reranked' \in Seq(ToSet(fused'))
          /\ \E N \in SUBSET Five, up \in SUBSET Stored :
               /\ \A name \in Five \ N : found'[name] = <<>>
               /\ fused' = Fuse([name \in N |-> found'[name]], up, FuseTop[path])
      <4>1. TextChannels \in SUBSET Five /\ \A name \in Five \ TextChannels : found'[name] = <<>>
        BY <2>3, <3>1 DEF TextChannels, Five
      <4>2. found' \in [Five -> Hits]
        BY <2>3, <3>1
      <4>3. reranked' \in Seq(ToSet(fused'))
        BY <2>4
      <4> QED
        BY ONLY <2>2, <3>3, <4>1, <4>2, <4>3
    <3> QED
      BY <2>4, <3>4 DEF SearchInv
  <2> QED
    BY <2>5, <2>6
<1>4. CASE RerankHits
  <2>1. PICK confidence \in [ToSet(Chunks(fused)) -> Confidences] :
          reranked' = Rerank(fused, confidence, 8)
    BY <1>4 DEF RerankHits
  <2>2. /\ stage = "rerank" /\ stage' = "generate" /\ path' = path
        /\ found' = found /\ fused' = fused
    BY <1>4 DEF RerankHits, search
  <2>3. reranked' \in Seq(ToSet(fused))
    <3>1. /\ fused \in Seq(ToSet(fused))
          /\ \A i \in DOMAIN fused : fused[i].chunk \in Stored
          /\ \A i, j \in DOMAIN fused : fused[i].chunk = fused[j].chunk => i = j
      BY FusedRows
    <3>2. 8 \in Nat
      OBVIOUS
    <3> QED
      BY ONLY <2>1, <3>1, <3>2, RerankIs
  <2>4. path = "answer"
    BY <1>1, <2>2 DEF WayInv
  <2> QED
    BY <2>2, <2>3, <2>4 DEF SearchInv
<1>5. CASE CheckSubstrate \/ Generate \/ Judge \/ ServerReplies \/ CallFails \/ NoContent \/ ReadReply
             \/ ReadJudgement \/ CiteAnswer \/ ScoreChannels \/ ScoreVisual \/ FrameUnreadable
             \/ Finish \/ Ended \/ UNCHANGED vars
  <2>1. UNCHANGED <<path, search, reranked>>
    BY <1>5 DEF CheckSubstrate, Generate, Judge, Asks, ServerReplies, CallFails, NoContent, ReadReply,
                ReadJudgement, CiteAnswer, ScoreChannels, ScoreVisual, FrameUnreadable, Finish, Ended,
                vars
  <2>2. path = "answer" /\ stage' \in {"search", "rerank"} => stage \in {"search", "rerank"}
    <3> SUFFICES ASSUME path = "answer", stage \notin {"search", "rerank"}
                 PROVE  stage' \notin {"search", "rerank"}
      OBVIOUS
    <3>1. stage \in {"generate", "generating", "cite", "done", "raised"} /\ stage # "score"
      BY DEF WayInv
    <3> QED
      BY <1>5, <3>1 DEF CheckSubstrate, Generate, Judge, Asks, ServerReplies, CallFails, NoContent, ReadReply,
                ReadJudgement, CiteAnswer, ScoreChannels, ScoreVisual, FrameUnreadable, Finish, Ended,
                vars, WayInv
  <2> QED
    BY <1>2, <2>1, <2>2
<1> QED
  BY <1>3, <1>4, <1>5 DEF Next

\* A reply that could be read has its fields, and one that could not has none.
LEMMA ParsedStep == WayInv /\ ParsedInv /\ [Next]_vars => ParsedInv'
<1> SUFFICES ASSUME WayInv, ParsedInv, [Next]_vars  PROVE ParsedInv'
  OBVIOUS
<1>1. Failed \in Outputs /\ Failed.citations = <<>>
  BY DEF Failed, Outputs
<1>2. ASSUME NEW reply \in Replies \ {NullContent}, parsed' = ParseGenerationOutput(reply)
      PROVE  ParsedInv'
  <2> DEFINE read == IF reply.text = NotJson THEN reply.fenced ELSE reply.text
  <2>1. read \in {NotJson, NotObject} \cup Outputs
    BY ModelsAssumption
  <2>2. CASE read \in {NotJson, NotObject} \/ ~WellFormed(read)
    <3>1. parsed' = Failed
      BY <1>2, <2>2 DEF ParseGenerationOutput
    <3> QED
      BY <1>1, <3>1 DEF ParsedInv
  <2>3. CASE ~(read \in {NotJson, NotObject} \/ ~WellFormed(read))
    <3>1. parsed' = [read EXCEPT !.parse_ok = TRUE] /\ read \in Outputs /\ WellFormed(read)
      BY <1>2, <2>1, <2>3 DEF ParseGenerationOutput
    <3> HIDE DEF read
    <3>2. parsed' \in Outputs /\ parsed'.citations = read.citations
      BY <3>1 DEF Outputs
    <3>3. \A i \in DOMAIN read.citations : read.citations[i].claim \in Nat
      <4>1. \A i \in DOMAIN read.citations : read.citations[i].claim \in Int
        <5>1. read.citations \in Seq([video : Videos, start : Int, end : Int, claim : Int])
          BY <3>1 DEF Outputs
        <5>2. \A i \in DOMAIN read.citations :
                read.citations[i] \in [video : Videos, start : Int, end : Int, claim : Int]
          BY ONLY <5>1, Elements
        <5> QED
          BY ONLY <5>2
      <4>2. \A i \in DOMAIN read.citations : read.citations[i].claim >= 0
        BY <3>1 DEF WellFormed
      <4> QED
        BY ONLY <4>1, <4>2
    <3> QED
      BY <3>2, <3>3 DEF ParsedInv
  <2> QED
    BY <2>2, <2>3
<1>3. CASE ReadReply
  BY <1>2, <1>3 DEF ReadReply
<1>4. CASE CallFails
  <2>1. parsed' = Failed \/ parsed' = parsed
    BY <1>4 DEF CallFails
  <2> QED
    BY <1>1, <2>1 DEF ParsedInv
<1>5. CASE parsed' = parsed
  BY <1>5 DEF ParsedInv
<1>6. CASE ~ReadReply /\ ~CallFails
  <2>1. parsed' = parsed
    BY <1>6 DEF Next, CheckSubstrate, Search, RerankHits, Generate, Judge, Asks, ServerReplies, NoContent,
                ReadJudgement, CiteAnswer, ScoreChannels, ScoreVisual, FrameUnreadable, Finish, Ended,
                vars
  <2> QED
    BY <1>5, <2>1
<1> QED
  BY <1>3, <1>4, <1>6

\* A finished answer is final.
LEMMA CiteStep == WayInv /\ CiteInv /\ [Next]_vars => CiteInv'
<1> SUFFICES ASSUME WayInv, CiteInv, [Next]_vars, path' = "answer", stage' = "done"
             PROVE  result' = Cite(parsed', Given')
  BY DEF CiteInv
<1>1. path = "answer"
  BY StepsCall DEF WayInv
<1>2. CASE CiteAnswer
  <2>1. result' = Cite(parsed, Given) /\ parsed' = parsed /\ reranked' = reranked
    BY <1>2 DEF CiteAnswer
  <2> QED
    BY <1>1, <2>1 DEF Given
<1>3. CASE Finish
  BY <1>1, <1>3 DEF Finish, WayInv
<1>4. CASE Ended \/ UNCHANGED vars
  <2>1. UNCHANGED <<path, stage, parsed, reranked, fused, result>>
    BY <1>4 DEF Ended, vars, search
  <2> QED
    BY <1>1, <2>1 DEF CiteInv, Given
<1>5. CASE ServerReplies
  <2>1. call.phase \in {"posting", "sleeping"}
    BY <1>5 DEF ServerReplies, Answered, Rejected, Transient, TryAgain, Posted
  <2> QED
    BY <1>5, <2>1 DEF ServerReplies, WayInv
<1>6. CASE CheckSubstrate \/ Search \/ RerankHits \/ Generate \/ Judge \/ CallFails \/ NoContent
             \/ ReadReply \/ ReadJudgement \/ ScoreChannels \/ ScoreVisual \/ FrameUnreadable
  <2>1. stage' # "done"
    BY <1>1, <1>6 DEF CheckSubstrate, Search, RerankHits, Generate, Judge, Asks, CallFails, NoContent,
                ReadReply, ReadJudgement, ScoreChannels, ScoreVisual, Scored, FrameUnreadable
  <2> QED
    BY <2>1
<1> QED
  BY <1>2, <1>3, <1>4, <1>5, <1>6 DEF Next

\* The inductive invariant of a question's way.
QuestionInv == WayInv /\ SearchInv /\ ParsedInv /\ CiteInv

\* In every state.
LEMMA AlwaysQuestionInv == Spec => []QuestionInv
<1>1. Init => QuestionInv
  <2> SUFFICES ASSUME Init  PROVE QuestionInv
    OBVIOUS
  <2>1. path \in {"answer", "bakeoff", "channels", "visual"}
    BY Paths DEF Init
  <2>2. path = "answer" => Len(todo) = 1 /\ todo # <<>>
    <3> SUFFICES ASSUME path = "answer"  PROVE Len(todo) = 1 /\ todo # <<>>
      OBVIOUS
    <3>1. Len(todo) = 1
      BY AskedAssumption DEF Init
    <3>2. Len(<<>>) = 0
      OBVIOUS
    <3> QED
      BY <3>1, <3>2
  <2>3. WayInv
    BY <2>1, <2>2 DEF Init, WayInv, CallInit, NoCall
  <2>4. SearchInv
    <3>1. <<>> \in Hits
      BY RankAssumption DEF Hits, Listings
    <3>2. found \in [Five -> Hits]
      BY <3>1 DEF Init, Five
    <3> QED
      BY <3>2 DEF Init, SearchInv
  <2>5. ParsedInv
    BY DEF Init, ParsedInv, Failed, Outputs
  <2>6. CiteInv
    BY DEF Init, CiteInv
  <2> QED
    BY <2>3, <2>4, <2>5, <2>6 DEF QuestionInv
<1>2. QuestionInv /\ [Next]_vars => QuestionInv'
  BY WayStep, SearchStep, ParsedStep, CiteStep DEF QuestionInv
<1> QED
  BY <1>1, <1>2, PTL DEF Spec

\* The chunks of the hits of the fusion, or of the reranked ones, are rows of the table.
LEMMA GivenIsStored ==
  ASSUME WayInv, SearchInv
  PROVE  Chunks(reranked) \in Seq(Stored)
<1>1. fused \in Seq(ToSet(fused)) /\ \A i \in DOMAIN fused : fused[i].chunk \in Stored
  BY FusedRows
<1>2. \A h \in ToSet(fused) : h.chunk \in Stored
  BY <1>1 DEF ToSet
<1>3. reranked \in Seq(ToSet(fused))
  BY DEF SearchInv
<1> DEFINE V == ToSet(fused)
<1> HIDE DEF V
<1>4. reranked \in Seq(V) /\ \A h \in V : h.chunk \in Stored
  BY <1>2, <1>3 DEF V
<1>5. Len(reranked) \in Nat /\ \A i \in 1..Len(reranked) : reranked[i].chunk \in Stored
  BY ONLY <1>4
<1> QED
  BY ONLY <1>4, <1>5 DEF Chunks

\* What the graph answers is grounded in the chunks its generator was given: no
\* answer, however the search, the reranking and the calls go, shows a citation as
\* valid that they do not bear out, or loses one.
THEOREM AnswersAreGrounded == Spec => []CitedIsGrounded
<1>1. QuestionInv => CitedIsGrounded
  <2> SUFFICES ASSUME QuestionInv, path = "answer", stage = "done"
               PROVE  Grounded(parsed, Given, result)
    BY DEF CitedIsGrounded
  <2>1. result = Cite(parsed, Given) /\ Given = Chunks(reranked)
    BY DEF QuestionInv, CiteInv, Given
  <2>2. Chunks(reranked) \in Seq(Stored)
    BY GivenIsStored DEF QuestionInv
  <2>3. \A c \in Stored : c.start \in Int /\ c.end \in Int
    BY StoredAssumption
  <2>4. /\ parsed.parse_ok \in BOOLEAN /\ parsed.abstain \in BOOLEAN /\ parsed.claims \in Seq(Nat)
        /\ \A i \in DOMAIN parsed.citations :
             /\ parsed.citations[i].start \in Int /\ parsed.citations[i].end \in Int
             /\ parsed.citations[i].claim \in Nat
    <3>1. parsed \in Outputs /\ \A i \in DOMAIN parsed.citations : parsed.citations[i].claim \in Nat
      BY DEF QuestionInv, ParsedInv
    <3> DEFINE C == [video : Videos, start : Int, end : Int, claim : Int]
    <3>2. parsed.citations \in Seq(C)
      BY <3>1 DEF Outputs
    <3>3. \A c \in C : c.start \in Int /\ c.end \in Int
      OBVIOUS
    <3> HIDE DEF C
    <3>4. \A i \in DOMAIN parsed.citations : parsed.citations[i] \in C
      BY ONLY <3>2, Elements
    <3>5. parsed.parse_ok \in BOOLEAN /\ parsed.abstain \in BOOLEAN /\ parsed.claims \in Seq(Nat)
      BY <3>1 DEF Outputs
    <3> QED
      BY ONLY <3>1, <3>3, <3>4, <3>5
  <2>5. Grounded(parsed, Chunks(reranked), Cite(parsed, Chunks(reranked)))
    BY ONLY <2>2, <2>3, <2>4, CitationsAreGrounded
  <2> QED
    BY <2>1, <2>5
<1> QED
  BY <1>1, AlwaysQuestionInv, PTL

\* The fusion of a search is in order: see FusedInOrder.
LEMMA FusionInOrder == QuestionInv => FusedInOrder
<1> SUFFICES ASSUME QuestionInv, fused # <<>>
             PROVE  FusedInOrder
  BY DEF FusedInOrder
<1> USE DEF QuestionInv
<1> DEFINE all == {name \in DOMAIN found : found[name] # <<>>}
           every == UNION {ToSet(found[name]) : name \in all}
           Place(c, name) == CHOOSE i \in DOMAIN found[name] : found[name][i] = c
           Beats(c, d) ==
             /\ \A name \in all : d \in ToSet(found[name]) =>
                  c \in ToSet(found[name]) /\ Place(c, name) <= Place(d, name)
             /\ \E name \in all : c \in ToSet(found[name]) /\
                  (d \in ToSet(found[name]) => Place(c, name) < Place(d, name))
           kept == ToSet(Chunks(fused))
<1>1. PICK N \in SUBSET Five, up \in SUBSET Stored :
        /\ \A name \in Five \ N : found[name] = <<>>
        /\ fused = Fuse([name \in N |-> found[name]], up, FuseTop[path])
  BY DEF SearchInv
<1> DEFINE channels == [name \in N |-> found[name]]
           k == FuseTop[path]
<1>2. channels \in [N -> Hits] /\ found \in [Five -> Hits]
  BY DEF SearchInv
<1>3. k \in Nat
  BY Paths, KAssumption DEF WayInv, FuseTop
<1>4. Fusion(fused, channels, k)
  <2>1. fused = Fuse(channels, up, k)
    BY <1>1
  <2> HIDE DEF channels, k
  <2> QED
    BY ONLY N \in SUBSET Five, <1>2, <1>3, <2>1, FuseIs
<1>5. /\ \A name \in N : channels[name] = found[name]
      /\ all = {name \in N : found[name] # <<>>}
      /\ \A name \in N : \A c : c \in ToSet(found[name]) => name \in all
  <2>1. all = {name \in N : found[name] # <<>>}
    BY <1>1, <1>2
  <2>2. \A c : c \notin ToSet(<<>>)
    BY DEF ToSet
  <2> QED
    BY ONLY <2>1, <2>2
<1>6. every = AllFound(channels)
  BY <1>5 DEF AllFound
<1> HIDE DEF all, every, k
<1>7. \A c, name : name \in all /\ c \in ToSet(found[name]) <=> name \in N /\ c \in ToSet(channels[name])
  BY <1>5
<1>8. \A c : LET r == Ranks(channels, c) IN
        /\ DOMAIN r = {name \in all : c \in ToSet(found[name])}
        /\ \A name \in DOMAIN r : /\ r[name] = Place(c, name) /\ r[name] \in 1..MaxRank
                                  /\ found[name][r[name]] = c
  <2> SUFFICES ASSUME NEW c
               PROVE  LET r == Ranks(channels, c) IN
                      /\ DOMAIN r = {name \in all : c \in ToSet(found[name])}
                      /\ \A name \in DOMAIN r : /\ r[name] = Place(c, name) /\ r[name] \in 1..MaxRank
                                                /\ found[name][r[name]] = c
    OBVIOUS
  <2> DEFINE r == Ranks(channels, c)
  <2> HIDE DEF channels
  <2>1. /\ DOMAIN r = {name \in N : c \in ToSet(channels[name])}
        /\ \A name \in DOMAIN r :
             /\ r[name] = CHOOSE i \in DOMAIN channels[name] : channels[name][i] = c
             /\ r[name] \in DOMAIN channels[name] /\ channels[name][r[name]] = c
             /\ r[name] \in 1..MaxRank
    BY ONLY <1>2, RanksAre, ZenonT(20)
  <2> HIDE DEF r
  <2>2. DOMAIN r = {name \in all : c \in ToSet(found[name])}
    BY ONLY <1>7, <2>1
  <2>3. ASSUME NEW name \in DOMAIN r
        PROVE  r[name] = Place(c, name) /\ r[name] \in 1..MaxRank /\ found[name][r[name]] = c
    <3>1. channels[name] = found[name]
      BY <1>5, <2>1
    <3>2. /\ r[name] = CHOOSE i \in DOMAIN channels[name] : channels[name][i] = c
          /\ channels[name][r[name]] = c /\ r[name] \in 1..MaxRank
      BY <2>1
    <3> QED
      BY ONLY <3>1, <3>2
  <2> QED
    BY ONLY <2>2, <2>3 DEF r
<1> HIDE DEF channels, Place
<1>9. \A c, d : Beats(c, d) => Score(Ranks(channels, c)) > Score(Ranks(channels, d))
  <2> SUFFICES ASSUME NEW c, NEW d, Beats(c, d)
               PROVE  Score(Ranks(channels, c)) > Score(Ranks(channels, d))
    OBVIOUS
  <2> DEFINE r == Ranks(channels, c)
             s == Ranks(channels, d)
  <2>1. /\ DOMAIN r = {name \in all : c \in ToSet(found[name])}
        /\ \A name \in DOMAIN r : r[name] = Place(c, name) /\ r[name] \in 1..MaxRank
        /\ DOMAIN s = {name \in all : d \in ToSet(found[name])}
        /\ \A name \in DOMAIN s : s[name] = Place(d, name) /\ s[name] \in 1..MaxRank
    BY <1>8
  <2> HIDE DEF r, s
  <2>2. RankRecords(r) /\ RankRecords(s)
    <3>1. all \subseteq Five
      BY <1>5
    <3> QED
      BY <2>1, <3>1 DEF RankRecords
  <2>3. \A name \in DOMAIN s : name \in DOMAIN r /\ r[name] <= s[name]
    BY <2>1
  <2>4. \E name \in DOMAIN r : name \in DOMAIN s => r[name] < s[name]
    BY <2>1
  <2>5. Score(r) > Score(s)
    BY ONLY <2>2, <2>3, <2>4, BetterScoresMore
  <2> QED
    BY ONLY <2>5 DEF r, s
<1> HIDE DEF Beats
<1> DEFINE m == Cardinality(every)
           n == IF k < m THEN k ELSE m
<1>10. /\ m \in Nat /\ n \in Nat /\ DOMAIN fused = 1..n /\ Len(fused) = n /\ fused \in Seq(ToSet(fused))
       /\ \A i \in 1..n : /\ fused[i].chunk \in every
                          /\ fused[i].ranks = Ranks(channels, fused[i].chunk)
       /\ \A i, j \in 1..n : fused[i].chunk = fused[j].chunk => i = j
       /\ \A i \in 1..n, c \in every :
            Score(Ranks(channels, c)) > Score(fused[i].ranks) => \E j \in 1..(i - 1) : fused[j].chunk = c
  BY <1>4, <1>6 DEF Fusion
<1>11. Len(fused) = Smaller(k, Cardinality(every))
  BY <1>3, <1>10 DEF Smaller
<1> HIDE DEF n, m
<1>12. Cardinality(kept) = Len(fused)
  <2> DEFINE chunks == Chunks(fused)
  <2>1. chunks = [i \in 1..n |-> fused[i].chunk]
    BY <1>10 DEF Chunks
  <2>2. chunks \in Seq(every) /\ Len(chunks) = n /\ \A i, j \in DOMAIN chunks : chunks[i] = chunks[j] => i = j
    <3> HIDE DEF chunks
    <3> QED
      BY ONLY <1>10, <2>1
  <2> HIDE DEF chunks
  <2>3. Cardinality(ToSet(chunks)) = Len(chunks)
    BY ONLY <2>2, ElementsOf
  <2> QED
    BY <1>10, <2>2, <2>3 DEF chunks
<1>13. ASSUME NEW i \in DOMAIN fused
       PROVE  LET r == fused[i] IN
              /\ DOMAIN r.ranks = {name \in all : r.chunk \in ToSet(found[name])}
              /\ \A name \in DOMAIN r.ranks : found[name][r.ranks[name]] = r.chunk
              /\ \A c \in every : Beats(c, r.chunk) => \E j \in 1..(i - 1) : fused[j].chunk = c
  <2>1. i \in 1..n /\ fused[i].ranks = Ranks(channels, fused[i].chunk)
    BY <1>10
  <2>2. /\ DOMAIN fused[i].ranks = {name \in all : fused[i].chunk \in ToSet(found[name])}
        /\ \A name \in DOMAIN fused[i].ranks : found[name][fused[i].ranks[name]] = fused[i].chunk
    BY ONLY <1>8, <2>1
  <2>3. \A c \in every : Beats(c, fused[i].chunk) => \E j \in 1..(i - 1) : fused[j].chunk = c
    BY <1>9, <1>10, <2>1
  <2> QED
    BY ONLY <2>2, <2>3
<1>14. ToSet(reranked) \subseteq ToSet(fused)
  <2> DEFINE V == ToSet(fused)
  <2>1. reranked \in Seq(V)
    BY DEF SearchInv
  <2> HIDE DEF V
  <2>2. \A i \in DOMAIN reranked : reranked[i] \in V
    BY ONLY <2>1
  <2>3. ToSet(reranked) \subseteq V
    BY <2>2 DEF ToSet
  <2> QED
    BY <2>3 DEF V
<1> QED
  BY <1>11, <1>12, <1>13, <1>14 DEF FusedInOrder, all, every, k, Beats, Place

\* The fused list keeps each found chunk once, with its places in the channels, in
\* the order of the scores, and cuts off only what is not better: for every number
\* of chunks, every ranking and every way the rounding of the scores goes.
THEOREM FusionKeepsOrder == Spec => []FusedInOrder
  BY FusionInOrder, AlwaysQuestionInv, PTL

\* Among some of the first m numbers, one is the greatest.
LEMMA MaxIsOfSet ==
  ASSUME NEW m \in Nat, NEW s \in SUBSET (1..m), s # {}
  PROVE  Max(s) \in s /\ \A x \in s : x <= Max(s)
<1> DEFINE Has(k) == \A t \in SUBSET (1..k) : t # {} => \E x \in t : \A y \in t : x >= y
           T == {k \in Nat : Has(k)}
<1>1. 0 \in T
  <2>1. 1..0 = {}
    OBVIOUS
  <2> QED
    BY <2>1
<1>2. ASSUME NEW k \in Nat, k \in T  PROVE k + 1 \in T
  <2> SUFFICES ASSUME NEW t \in SUBSET (1..(k + 1)), t # {}
               PROVE  \E x \in t : \A y \in t : x >= y
    OBVIOUS
  <2>1. CASE k + 1 \in t
    BY <2>1
  <2>2. CASE k + 1 \notin t
    <3>1. t \in SUBSET (1..k)
      BY <2>2
    <3> QED
      BY <1>2, <3>1
  <2> QED
    BY <2>1, <2>2
<1>3. Has(m)
  <2>1. Nat \subseteq T
    <3> HIDE DEF T
    <3> QED
      BY ONLY <1>1, <1>2, NatSetInduction
  <2> QED
    BY <2>1
<1>4. \E x \in s : \A y \in s : x >= y
  BY <1>3
<1>5. Max(s) = CHOOSE x \in s : \A y \in s : x >= y
  BY DEF Max
<1>6. Max(s) \in s /\ \A y \in s : Max(s) >= y
  BY <1>4, <1>5
<1> QED
  BY <1>6

\* The numbers and the words of m assessments.
Assessments(given, m, num, word) ==
  /\ m \in Nat /\ DOMAIN given = 1..m /\ num \in [1..m -> Int]
  /\ \A k \in 1..m : given[k] = <<num[k], word[k]>>

\* Assessments have numbers and words.
LEMMA AssessmentsAre ==
  ASSUME NEW given \in Seq(Int \X STRING)
  PROVE  \E num, word : Assessments(given, Len(given), num, word)
<1> DEFINE A == Int \X STRING
           m == Len(given)
           num == [k \in 1..m |-> given[k][1]]
           word == [k \in 1..m |-> given[k][2]]
<1>1. \A a \in A : a[1] \in Int /\ a = <<a[1], a[2]>>
  OBVIOUS
<1> HIDE DEF A
<1>2. given \in Seq(A)
  BY DEF A
<1>3. m \in Nat /\ DOMAIN given = 1..m /\ \A k \in 1..m : given[k] \in A
  BY ONLY <1>2, Elements
<1> HIDE DEF m
<1>4. num \in [1..m -> Int] /\ \A k \in 1..m : given[k] = <<num[k], word[k]>>
  BY ONLY <1>1, <1>3
<1>5. Assessments(given, m, num, word)
  BY ONLY <1>3, <1>4 DEF Assessments
<1> QED
  BY ONLY <1>5 DEF m

\* The credits after each of the assessments.
Reads(f, num, word, m, n) ==
  /\ f[0] = [i \in 1..n |-> FALSE]
  /\ \A k \in 1..m :
       f[k] = IF num[k] \in 0..(n - 1) THEN [f[k - 1] EXCEPT ![num[k] + 1] = word[k] = "true"]
              ELSE f[k - 1]

\* The credits go through the assessments one after the other.
LEMMA CreditsSteps ==
  ASSUME NEW given, NEW m, NEW num, NEW word, Assessments(given, m, num, word), NEW n \in Nat
  PROVE  \E f \in [0..m -> [1..n -> BOOLEAN]] : f[m] = Credits(given, n) /\ Reads(f, num, word, m, n)
<1> DEFINE V == [1..n -> BOOLEAN]
           base == [i \in 1..n |-> FALSE]
           Read(credits, a) ==
             IF a[1] \in 0..(n - 1) THEN [credits EXCEPT ![a[1] + 1] = a[2] = "true"] ELSE credits
           S == DOMAIN given
           h == [p \in S \X V |-> Read(p[2], given[p[1]])]
           c == [s \in SUBSET S |-> Max(s)]
           Eq(it) == it = [s \in SUBSET S |-> IF s = {} THEN base
                                              ELSE Read(it[s \ {Max(s)}], given[Max(s)])]
           it == CHOOSE g : Eq(g)
<1>1. Credits(given, n) = it[S]
  BY DEF Credits, FoldLeft, MapThenFoldSet
<1>2. m \in Nat /\ S = 1..m /\ base \in V
  BY DEF Assessments
<1>3. ASSUME NEW v \in V, NEW k \in S  PROVE Read(v, given[k]) \in V
  BY <1>2
<1> HIDE DEF Read, V, base
<1>a. h \in [S \X V -> V]
  BY <1>3
<1>4. \A k \in S, v \in V : h[<<k, v>>] = Read(v, given[k])
  OBVIOUS
<1>5. IsFiniteSet(S)
  BY ONLY <1>2, FS_Interval, \A x \in Nat : x \in Int, 1 \in Int
<1>6. \A s \in SUBSET S : s # {} => Max(s) \in s
  <2> HIDE DEF S
  <2> QED
    BY ONLY <1>2, MaxIsOfSet
<1>7. Chooses(c, S)
  BY <1>6 DEF Chooses
<1>8. PICK g \in [SUBSET S -> V] : FoldsBy(g, S, c, base, h)
  <2> HIDE DEF c, h, S, it, Eq
  <2> QED
    BY ONLY <1>2, <1>a, <1>5, <1>7, FoldExists
<1>9. Eq(g)
  <2>1. ASSUME NEW s \in SUBSET S, s # {}
        PROVE  g[s] = Read(g[s \ {Max(s)}], given[Max(s)])
    <3>1. c[s] = Max(s) /\ Max(s) \in S /\ s \ {Max(s)} \in SUBSET S
      BY <1>6, <2>1
    <3>2. g[s \ {Max(s)}] \in V
      BY <3>1
    <3> HIDE DEF h, c
    <3> QED
      BY <1>4, <1>8, <2>1, <3>1, <3>2 DEF FoldsBy
  <2>2. g[{}] = base
    BY <1>8 DEF FoldsBy
  <2>3. g = [s \in SUBSET S |-> g[s]]
    OBVIOUS
  <2> QED
    BY <2>1, <2>2, <2>3
<1>10. Eq(it)
  <2> HIDE DEF Eq
  <2> QED
    BY <1>9
<1> HIDE DEF it
<1>11. it[{}] = base /\ \A s \in SUBSET S : s # {} => it[s] = Read(it[s \ {Max(s)}], given[Max(s)])
  <2>1. \A s \in SUBSET S : it[s] = IF s = {} THEN base ELSE Read(it[s \ {Max(s)}], given[Max(s)])
    BY <1>10
  <2> QED
    BY <2>1
<1>12. TakesMax(it, m, V, base, h)
  <2> HIDE DEF h
  <2> QED
    BY <1>2, <1>4, <1>6, <1>11 DEF TakesMax
<1> HIDE DEF h
<1>14. PICK f \in [0..m -> V] : f[m] = it[1..m] /\ GoesUp(f, m, base, h)
  <2> HIDE DEF S, c, Eq
  <2> QED
    BY ONLY <1>2, <1>a, <1>12, FoldGoesUp
<1>15. \A k \in 1..m : f[k] = Read(f[k - 1], given[k])
  <2> SUFFICES ASSUME NEW k \in 1..m  PROVE f[k] = Read(f[k - 1], given[k])
    OBVIOUS
  <2>1. k - 1 \in 0..m /\ k \in S
    BY ONLY <1>2
  <2> QED
    BY <1>4, <1>14, <2>1 DEF GoesUp
<1>16. f[m] = Credits(given, n)
  BY <1>1, <1>2, <1>14
<1> QED
  <2>1. \A k \in 1..m : given[k][1] = num[k] /\ given[k][2] = word[k]
    BY DEF Assessments
  <2>2. \A k \in 1..m :
          f[k] = IF num[k] \in 0..(n - 1) THEN [f[k - 1] EXCEPT ![num[k] + 1] = word[k] = "true"]
                 ELSE f[k - 1]
    BY ONLY <1>15, <2>1 DEF Read
  <2>3. f \in [0..m -> [1..n -> BOOLEAN]] /\ f[0] = [i \in 1..n |-> FALSE]
    BY ONLY <1>14, f \in [0..m -> V] DEF V, base, GoesUp
  <2> QED
    BY ONLY <1>16, <2>2, <2>3 DEF Reads

\* After which of the assessments the credit is there.
CreditedAt(C, given, num, word, m, n, i) ==
  /\ 0 \notin C /\ (Credits(given, n)[i] = TRUE <=> m \in C)
  /\ \A k \in 1..m : k \in C <=> IF num[k] = i - 1 THEN word[k] = "true" ELSE k - 1 \in C

\* The truth value of a credit, as each assessment is read: an assessment of
\* number i - 1 sets it, any other keeps it.
LEMMA CreditSteps ==
  ASSUME NEW given, NEW m, NEW num, NEW word, Assessments(given, m, num, word), NEW n \in Nat,
         NEW i \in 1..n
  PROVE  /\ Credits(given, n) \in [1..n -> BOOLEAN]
         /\ \E C \in SUBSET (0..m) : CreditedAt(C, given, num, word, m, n, i)
<1>1. PICK f \in [0..m -> [1..n -> BOOLEAN]] :
       f[m] = Credits(given, n) /\ Reads(f, num, word, m, n)
  BY ONLY Assessments(given, m, num, word), n \in Nat, CreditsSteps
<1>2. m \in Nat /\ m \in 0..m /\ 0 \in 0..m /\ \A k \in 1..m : num[k] \in Int /\ k - 1 \in 0..m /\ k \in 0..m
  BY DEF Assessments
<1>3. Credits(given, n) \in [1..n -> BOOLEAN]
  BY ONLY <1>1, <1>2, f \in [0..m -> [1..n -> BOOLEAN]]
<1> DEFINE C == {k \in 0..m : f[k][i] = TRUE}
<1>4. 0 \notin C /\ (Credits(given, n)[i] = TRUE <=> m \in C)
  BY <1>1, <1>2 DEF Reads
<1>5. ASSUME NEW k \in 1..m
      PROVE  f[k][i] = TRUE <=> IF num[k] = i - 1 THEN word[k] = "true" ELSE f[k - 1][i] = TRUE
  <2>1. num[k] \in Int /\ f[k - 1] \in [1..n -> BOOLEAN]
    BY <1>2
  <2>2. CASE num[k] = i - 1
    <3>1. num[k] \in 0..(n - 1) /\ num[k] + 1 = i
      BY <2>2
    <3>2. f[k] = [f[k - 1] EXCEPT ![i] = word[k] = "true"]
      BY <1>1, <3>1 DEF Reads
    <3>3. f[k][i] = (word[k] = "true")
      BY ONLY <2>1, <3>2, i \in 1..n
    <3> QED
      BY ONLY <2>2, <3>3, Zenon
  <2>3. CASE num[k] # i - 1
    <3>1. num[k] + 1 # i
      BY <2>1, <2>3
    <3>2. f[k][i] = f[k - 1][i]
      <4>1. CASE num[k] \in 0..(n - 1)
        <5>1. f[k] = [f[k - 1] EXCEPT ![num[k] + 1] = word[k] = "true"]
          BY <1>1, <4>1 DEF Reads
        <5> QED
          BY ONLY <2>1, <3>1, <5>1, i \in 1..n
      <4>2. CASE num[k] \notin 0..(n - 1)
        BY <1>1, <4>2 DEF Reads
      <4> QED
        BY ONLY <4>1, <4>2
    <3> QED
      BY ONLY <2>3, <3>2
  <2> QED
    BY ONLY <2>2, <2>3
<1>6. \A k \in 1..m : k \in C <=> IF num[k] = i - 1 THEN word[k] = "true" ELSE k - 1 \in C
  BY ONLY <1>2, <1>5
<1>7. C \in SUBSET (0..m)
  OBVIOUS
<1> HIDE DEF C
<1> QED
  BY ONLY <1>3, <1>4, <1>6, <1>7 DEF CreditedAt

\* What the last word on a claim or citation makes of its credit.
LastWordIs(credit, num, word, m, i) ==
  /\ credit \in BOOLEAN
  /\ credit = TRUE <=> \E k \in 1..m : /\ num[k] = i - 1 /\ word[k] = "true"
                                      /\ \A l \in (k + 1)..m : num[l] # i - 1

\* A credit is the last word on its claim or citation.
LEMMA CreditsAreLastWords ==
  ASSUME NEW given, NEW m, NEW num, NEW word, Assessments(given, m, num, word), NEW n \in Nat,
         NEW i \in 1..n
  PROVE  LastWordIs(Credits(given, n)[i], num, word, m, i)
<1>1. PICK C \in SUBSET (0..m) : CreditedAt(C, given, num, word, m, n, i)
  BY ONLY Assessments(given, m, num, word), n \in Nat, i \in 1..n, CreditSteps
<1>2. m \in Nat /\ \A k \in 1..m : num[k] \in Int
  BY DEF Assessments
<1>3. Credits(given, n)[i] \in BOOLEAN
  <2>1. Credits(given, n) \in [1..n -> BOOLEAN]
    BY ONLY Assessments(given, m, num, word), n \in Nat, i \in 1..n, CreditSteps
  <2> QED
    BY ONLY <2>1, i \in 1..n
<1> DEFINE Word(j) == \E k \in 1..j : /\ num[k] = i - 1 /\ word[k] = "true"
                                      /\ \A l \in (k + 1)..j : num[l] # i - 1
           T == {j \in 0..m : j \in C <=> Word(j)}
<1>4. 0 \in T
  BY ONLY <1>1, <1>2 DEF CreditedAt
<1>5. ASSUME NEW j \in 0..(m - 1), j \in T  PROVE j + 1 \in T
  <2>1. j + 1 \in 1..m /\ (j + 1) - 1 = j /\ j \in Nat /\ j + 1 \in 0..m
    BY <1>2
  <2>2. /\ j \in C <=> Word(j)
        /\ j + 1 \in C <=> IF num[j + 1] = i - 1 THEN word[j + 1] = "true" ELSE j \in C
    BY <1>1, <1>5, <2>1 DEF CreditedAt
  <2>3. CASE num[j + 1] = i - 1
    <3>1. ASSUME word[j + 1] = "true"  PROVE Word(j + 1)
      <4>1. j + 1 \in 1..(j + 1) /\ \A l \in (j + 1 + 1)..(j + 1) : num[l] # i - 1
        BY ONLY <2>1
      <4> QED
        BY ONLY <2>3, <3>1, <4>1
    <3>2. ASSUME Word(j + 1)  PROVE word[j + 1] = "true"
      <4>1. PICK k \in 1..(j + 1) : /\ num[k] = i - 1 /\ word[k] = "true"
                                    /\ \A l \in (k + 1)..(j + 1) : num[l] # i - 1
        BY <3>2
      <4>2. k = j + 1
        BY ONLY <2>1, <2>3, <4>1, k \in 1..(j + 1)
      <4> QED
        BY ONLY <4>1, <4>2
    <3> QED
      BY <2>1, <2>2, <2>3, <3>1, <3>2
  <2>4. CASE num[j + 1] # i - 1
    <3>1. ASSUME Word(j)  PROVE Word(j + 1)
      <4>1. PICK k \in 1..j : /\ num[k] = i - 1 /\ word[k] = "true"
                              /\ \A l \in (k + 1)..j : num[l] # i - 1
        BY <3>1
      <4>2. k \in 1..(j + 1) /\ \A l \in (k + 1)..(j + 1) : num[l] # i - 1
        BY ONLY <2>1, <2>4, <4>1, k \in 1..j
      <4> QED
        BY ONLY <4>1, <4>2
    <3>2. ASSUME Word(j + 1)  PROVE Word(j)
      <4>1. PICK k \in 1..(j + 1) : /\ num[k] = i - 1 /\ word[k] = "true"
                                    /\ \A l \in (k + 1)..(j + 1) : num[l] # i - 1
        BY <3>2
      <4>2. k \in 1..j /\ \A l \in (k + 1)..j : num[l] # i - 1
        BY ONLY <2>1, <2>4, <4>1, k \in 1..(j + 1)
      <4> QED
        BY ONLY <4>1, <4>2
    <3> HIDE DEF Word
    <3> QED
      BY <2>1, <2>2, <2>4, <3>1, <3>2
  <2> QED
    BY <2>3, <2>4
<1>6. 0..m \subseteq T
  <2> HIDE DEF T
  <2> QED
    BY ONLY <1>2, <1>4, <1>5, UpTo
<1>7. m \in T
  BY ONLY <1>2, <1>6
<1> QED
  BY ONLY <1>1, <1>3, <1>7 DEF CreditedAt, LastWordIs

\* Quotients, to the nearest.
LEMMA RoundedIs ==
  ASSUME NEW n \in Nat
  PROVE  Rounded(95 * n + 50) \in Int /\ 95 * n <= 100 * Rounded(95 * n + 50)
<1> DEFINE x == 95 * n + 50
<1>1. x \in Nat /\ 95 * n = x - 50
  OBVIOUS
<1> HIDE DEF x
<1>2. PICK q, r : q = x \div 100 /\ r = x % 100
  OBVIOUS
<1>3. q \in Int /\ r \in 0..99 /\ x = 100 * q + r
  BY <1>1, <1>2
<1>4. Rounded(x) = IF r < 50 \/ (r = 50 /\ q % 2 = 0) THEN q ELSE q + 1
  BY <1>2 DEF Rounded
<1>5. Rounded(x) \in Int /\ x - 50 <= 100 * Rounded(x)
  <2>1. CASE r < 50 \/ (r = 50 /\ q % 2 = 0)
    <3>1. Rounded(x) = q /\ r <= 50
      BY <1>3, <1>4, <2>1
    <3> QED
      BY ONLY <1>3, <3>1
  <2>2. CASE ~(r < 50 \/ (r = 50 /\ q % 2 = 0))
    <3>1. Rounded(x) = q + 1
      BY <1>4, <2>2
    <3> QED
      BY ONLY <1>3, <3>1
  <2> QED
    BY <2>1, <2>2
<1> QED
  BY ONLY <1>1, <1>5 DEF x

\* The least and the greatest of two numbers.
LEMMA MinMaxOfTwo ==
  ASSUME NEW a \in Int, NEW b \in Int
  PROVE  /\ Min({a, b}) = (IF a <= b THEN a ELSE b)
         /\ Max({a, b}) = (IF a >= b THEN a ELSE b)
<1> DEFINE least == IF a <= b THEN a ELSE b
           most == IF a >= b THEN a ELSE b
<1>1. least \in {a, b} /\ (\A y \in {a, b} : least <= y)
      /\ \A x \in {a, b} : (\A y \in {a, b} : x <= y) => x = least
  OBVIOUS
<1>2. most \in {a, b} /\ (\A y \in {a, b} : most >= y)
      /\ \A x \in {a, b} : (\A y \in {a, b} : x >= y) => x = most
  OBVIOUS
<1> HIDE DEF least, most
<1>3. Min({a, b}) = least
  BY ONLY <1>1 DEF Min
<1>4. Max({a, b}) = most
  BY ONLY <1>2 DEF Max
<1> QED
  BY ONLY <1>3, <1>4 DEF least, most

\* At most one in twenty is past the index of the p95.
LEMMA P95RankIs ==
  ASSUME NEW n \in Nat \ {0}
  PROVE  P95Rank(n) \in 1..n /\ 20 * (n - P95Rank(n)) <= n
<1> DEFINE r == Rounded(95 * n + 50)
<1>1. r \in Int /\ 95 * n <= 100 * r
  BY RoundedIs
<1> HIDE DEF r
<1>2. Max({1, r}) = IF 1 >= r THEN 1 ELSE r
  BY ONLY <1>1, MinMaxOfTwo, 1 \in Int
<1> DEFINE t == Max({1, r})
<1>3. t \in Int /\ t >= 1 /\ 95 * n <= 100 * t
  BY <1>1, <1>2
<1> HIDE DEF t
<1>4. Min({n, t}) = IF n <= t THEN n ELSE t
  BY <1>3, MinMaxOfTwo
<1>5. P95Rank(n) = Min({n, t})
  BY DEF P95Rank, r, t
<1> QED
  BY ONLY <1>3, <1>4, <1>5, n \in Nat \ {0}

\* The numbers up to m are finitely many, and so are those of them past k.
LEMMA Intervals ==
  ASSUME NEW m \in Nat
  PROVE  /\ IsFiniteSet(1..m) /\ Cardinality(1..m) = m
         /\ \A k \in 1..m : IsFiniteSet((k + 1)..m) /\ Cardinality((k + 1)..m) = m - k
<1>1. ASSUME NEW k \in 0..m
      PROVE  IsFiniteSet((k + 1)..m) /\ Cardinality((k + 1)..m) = m - k
  <2>1. k + 1 \in Int /\ m \in Int
    OBVIOUS
  <2>2. IsFiniteSet((k + 1)..m) /\ Cardinality((k + 1)..m) = IF k + 1 > m THEN 0 ELSE m - (k + 1) + 1
    BY ONLY <2>1, FS_Interval
  <2> QED
    BY <2>2
<1>2. IsFiniteSet((0 + 1)..m) /\ Cardinality((0 + 1)..m) = m - 0
  BY ONLY <1>1, m \in Nat
<1> QED
  BY <1>1, <1>2

\* The p95 is one of the latencies, and at most one in twenty is greater.
LEMMA P95Is ==
  ASSUME NEW n \in Nat \ {0}, NEW seq \in [1..n -> Int], Len(seq) = n
  PROVE  /\ \E i \in 1..n : P95(seq) = seq[i]
         /\ LET slow == {i \in 1..n : seq[i] > P95(seq)}
            IN IsFiniteSet(slow) /\ 20 * Cardinality(slow) <= n
<1> DEFINE D == DOMAIN seq
           R == {p \in D \X D :
                   \/ seq[p[1]] < seq[p[2]]
                   \/ ~(seq[p[2]] < seq[p[1]]) /\ p[1] < p[2]}
           place == Ordered(D, R)
           k == P95Rank(n)
<1>1. D = 1..n
  OBVIOUS
<1>2. k \in 1..n /\ 20 * (n - k) <= n
  BY P95RankIs
<1>3. IsFiniteSet(1..n) /\ Cardinality(1..n) = n
  BY Intervals
<1>4. \A i, j \in 1..n : <<i, j>> \in R <=> seq[i] < seq[j] \/ (seq[i] = seq[j] /\ i < j)
  OBVIOUS
<1>a. \A i \in 1..n : seq[i] \in Int
  OBVIOUS
<1>5. P95(seq) = seq[place[k]]
  <2>1. Sorted(seq, <) = [i \in D |-> seq[place[i]]]
    BY DEF Sorted
  <2>2. P95(seq) = Sorted(seq, <)[k]
    BY DEF P95
  <2> HIDE DEF place, k
  <2> QED
    BY ONLY <1>1, <1>2, <2>1, <2>2
<1> HIDE DEF R, D, k
<1>6. Orders(R, D)
  <2>1. \A i \in D : seq[i] \in Int /\ i \in Int /\ i \in 1..n
    BY <1>1
  <2>2. \A i \in D : <<i, i>> \notin R
    BY <1>4, <2>1
  <2>3. \A i, j \in D : i = j \/ <<i, j>> \in R \/ <<j, i>> \in R
    <3> SUFFICES ASSUME NEW i \in D, NEW j \in D, i # j
                 PROVE  <<i, j>> \in R \/ <<j, i>> \in R
      OBVIOUS
    <3>1. i \in 1..n /\ j \in 1..n /\ seq[i] \in Int /\ seq[j] \in Int
      BY <2>1
    <3>2. \/ seq[i] < seq[j] \/ (seq[i] = seq[j] /\ i < j)
          \/ seq[j] < seq[i] \/ (seq[j] = seq[i] /\ j < i)
      BY ONLY <3>1, i # j
    <3> QED
      BY ONLY <1>4, <3>1, <3>2
  <2>4. \A i, j, l \in D : <<i, j>> \in R /\ <<j, l>> \in R => <<i, l>> \in R
    BY <1>4, <2>1
  <2> QED
    BY ONLY <2>2, <2>3, <2>4 DEF Orders
<1>7. Sorts(Ordered(D, R), D, R)
  BY ONLY <1>1, <1>3, <1>6, OrderedSorts
<1>8. /\ place \in [1..n -> 1..n]
      /\ \A x \in 1..n : \E i \in 1..n : place[i] = x
      /\ \A j, i \in 1..n : j < i => <<place[j], place[i]>> \in R
  BY ONLY <1>1, <1>3, <1>7 DEF Sorts
<1> HIDE DEF place
<1>9. \A j, i \in 1..n : j < i => seq[place[j]] <= seq[place[i]]
  <2> SUFFICES ASSUME NEW j \in 1..n, NEW i \in 1..n, j < i
               PROVE  seq[place[j]] <= seq[place[i]]
    OBVIOUS
  <2>1. place[j] \in 1..n /\ place[i] \in 1..n /\ <<place[j], place[i]>> \in R
    BY <1>8
  <2>2. seq[place[j]] \in Int /\ seq[place[i]] \in Int
    BY <2>1
  <2>3. seq[place[j]] < seq[place[i]] \/ seq[place[j]] = seq[place[i]]
    BY ONLY <1>4, <2>1
  <2> QED
    BY ONLY <2>2, <2>3
<1> DEFINE slow == {i \in 1..n : seq[i] > P95(seq)}
           past == {place[i] : i \in (k + 1)..n}
           g == [i \in (k + 1)..n |-> place[i]]
<1>10. slow \subseteq past
  <2> SUFFICES ASSUME NEW x \in slow  PROVE x \in past
    OBVIOUS
  <2>1. PICK i \in 1..n : place[i] = x
    BY <1>8
  <2>2. seq[place[i]] > seq[place[k]] /\ seq[place[i]] \in Int /\ seq[place[k]] \in Int
    BY <1>2, <1>5, <1>8, <2>1
  <2>3. ~(i < k) /\ i # k
    BY <1>2, <1>9, <2>2
  <2>4. i \in (k + 1)..n
    BY <1>2, <2>3
  <2> QED
    BY <2>1, <2>4
<1>11. IsFiniteSet(past) /\ Cardinality(past) <= n - k
  <2>1. IsFiniteSet((k + 1)..n) /\ Cardinality((k + 1)..n) = n - k
    BY <1>2, Intervals
  <2>2. g \in Surjection((k + 1)..n, past)
    BY DEF Surjection
  <2> HIDE DEF g, past
  <2> QED
    BY ONLY <2>1, <2>2, FS_Surjection
<1>12. IsFiniteSet(slow) /\ Cardinality(slow) <= Cardinality(past) /\ Cardinality(slow) \in Nat
       /\ Cardinality(past) \in Nat
  <2> HIDE DEF slow, past
  <2> QED
    BY ONLY <1>10, <1>11, FS_Subset, FS_CardinalityType
<1>13. 20 * Cardinality(slow) <= n
  <2> HIDE DEF slow, past
  <2> QED
    BY ONLY <1>2, <1>11, <1>12, n \in Nat \ {0}
<1>14. \E i \in 1..n : P95(seq) = seq[i]
  BY <1>2, <1>5, <1>8
<1> QED
  BY <1>12, <1>13, <1>14

\* The records of the examples: what is known of each.
Fields == {"question", "parse_ok", "abstain", "latency", "judgeable", "judged", "claims", "citations"}
Records(rs, n) ==
  /\ n \in Nat /\ Len(rs) = n /\ DOMAIN rs = 1..n /\ rs \in Seq(ToSet(rs))
  /\ \A i \in 1..n :
       /\ DOMAIN rs[i] = Fields /\ rs[i].latency \in Nat
       /\ rs[i].parse_ok \in BOOLEAN /\ rs[i].abstain \in BOOLEAN
       /\ rs[i].judgeable \in BOOLEAN /\ rs[i].judged \in BOOLEAN
       /\ rs[i].judged => rs[i].judgeable
       /\ rs[i].claims # NoFraction <=> rs[i].judged

\* As many fractions as were measured.
LEMMA ColumnIs ==
  ASSUME NEW rs, NEW n, Records(rs, n)
  PROVE  /\ Len(Column(rs, "claims")) = Cardinality({i \in 1..n : rs[i].judged})
         /\ Column(rs, "claims") # <<>> => Len(Column(rs, "claims")) # 0
<1> DEFINE measured == {i \in DOMAIN rs : rs[i]["claims"] # NoFraction}
           values == [i \in DOMAIN rs |-> rs[i]["claims"]]
<1>1. n \in Nat /\ DOMAIN rs = 1..n
  BY DEF Records
<1>2. measured = {i \in 1..n : rs[i].judged}
  BY DEF Records
<1>3. values \in Seq(ToSet(values)) /\ measured \in SUBSET (DOMAIN values)
  <2>1. \A i \in 1..n : values[i] \in ToSet(values)
    BY <1>1 DEF ToSet
  <2>2. DOMAIN values = 1..n /\ measured \subseteq 1..n /\ values = [i \in 1..n |-> values[i]]
    BY <1>1
  <2> HIDE DEF values, measured
  <2> QED
    BY ONLY <1>1, <2>1, <2>2
<1>4. Column(rs, "claims") = Picked(values, measured)
  BY DEF Column
<1> HIDE DEF values, measured
<1> DEFINE out == Picked(values, measured)
<1>5. out \in Seq(ToSet(values)) /\ Len(out) = Cardinality(measured)
  BY ONLY <1>3, PickedIs
<1> HIDE DEF out
<1>6. out # <<>> => Len(out) # 0
  BY ONLY <1>5
<1> QED
  BY ONLY <1>2, <1>4, <1>5, <1>6 DEF out

\* Some of n, and the others of them.
LEMMA OthersCount ==
  ASSUME NEW n \in Nat, NEW S \in SUBSET (1..n)
  PROVE  /\ IsFiniteSet(S) /\ Cardinality(S) \in Nat
         /\ IsFiniteSet((1..n) \ S) /\ Cardinality((1..n) \ S) = n - Cardinality(S)
         /\ Cardinality(S) = 0 <=> S = {}
<1>1. IsFiniteSet(1..n) /\ Cardinality(1..n) = n
  BY Intervals
<1> DEFINE N == 1..n
<1> HIDE DEF N
<1>2. IsFiniteSet(N) /\ Cardinality(N) = n /\ S \subseteq N
  BY <1>1 DEF N
<1>3. IsFiniteSet(S)
  BY ONLY <1>2, FS_Subset
<1>4. IsFiniteSet(N \ S) /\ Cardinality(N \ S) = n - Cardinality(N \cap S)
  BY ONLY <1>2, FS_Difference
<1>5. N \cap S = S
  BY ONLY <1>2
<1>6. Cardinality(S) \in Nat /\ (Cardinality(S) = 0 <=> S = {})
  BY ONLY <1>3, FS_CardinalityType, FS_EmptySet
<1> QED
  BY ONLY <1>3, <1>4, <1>5, <1>6 DEF N

\* The summary of a generator, from its records.
LEMMA SummaryIs ==
  ASSUME NEW rs, NEW n, Records(rs, n), NEW fs, NEW m, Records(fs, m)
  PROVE  LET s == GeneratorSummary(rs, fs)
             judgeable == {i \in 1..n : rs[i].judgeable}
             judged == {i \in 1..n : rs[i].judged}
             unread == {i \in 1..n : ~rs[i].parse_ok}
             answered == {i \in 1..m : ~fs[i].abstain}
             slow == {i \in 1..n : rs[i].latency > s.p95}
         IN /\ judged \subseteq judgeable
            /\ s.judge_failures = Cardinality(judgeable \ judged)
            /\ {i \in 1..n : rs[i].claims # NoFraction} = judged
            /\ s.grounded # NoFraction => s.grounded[2] = Cardinality(judged)
            /\ n # 0 => /\ 20 * Cardinality(slow) <= n
                        /\ \E i \in 1..n : rs[i].latency = s.p95
            /\ CheckMinimums(s, P95Max) =>
                 /\ judged # {} /\ s.p95 <= P95Max
                 /\ 50 * Cardinality(unread) <= n
                 /\ 10 * Cardinality(answered) <= m
<1> DEFINE s == GeneratorSummary(rs, fs)
           judgeable == {i \in 1..n : rs[i].judgeable}
           judged == {i \in 1..n : rs[i].judged}
           read == {i \in 1..n : rs[i].parse_ok}
           unread == {i \in 1..n : ~rs[i].parse_ok}
           refused == {i \in 1..m : fs[i].abstain}
           answered == {i \in 1..m : ~fs[i].abstain}
           slow == {i \in 1..n : rs[i].latency > s.p95}
           latencies == [i \in DOMAIN rs |-> rs[i].latency]
           column == Column(rs, "claims")
<1>1. n \in Nat /\ m \in Nat /\ DOMAIN rs = 1..n /\ DOMAIN fs = 1..m /\ Len(rs) = n /\ Len(fs) = m
  BY DEF Records
<1>2. judged \subseteq judgeable /\ {i \in 1..n : rs[i].claims # NoFraction} = judged
  BY DEF Records
<1>3. /\ s.n = n /\ s.negatives = m
      /\ s.parsed = Cardinality(read) /\ s.refusals = Cardinality(refused)
      /\ s.p95 = (IF rs = <<>> THEN 0 ELSE P95(latencies))
      /\ s.grounded = Mean(column)
      /\ s.judge_failures = Cardinality(judgeable \ judged)
  <2>1. {i \in DOMAIN rs : rs[i].judgeable /\ ~rs[i].judged} = judgeable \ judged
    BY <1>1
  <2>2. Count(rs, "parse_ok") = Cardinality(read) /\ Count(fs, "abstain") = Cardinality(refused)
    <3>1. {i \in DOMAIN rs : rs[i]["parse_ok"]} = read
      BY <1>1
    <3>2. {i \in DOMAIN fs : fs[i]["abstain"]} = refused
      BY <1>1
    <3> HIDE DEF read, refused
    <3> QED
      BY <3>1, <3>2 DEF Count
  <2> HIDE DEF judgeable, judged, read, refused, latencies, column
  <2>3. s = [n |-> n,
             parsed |-> Cardinality(read),
             refused |-> Count(rs, "abstain"),
             p95 |-> IF rs = <<>> THEN 0 ELSE P95(latencies),
             grounded |-> Mean(column),
             accurate |-> Mean(Column(rs, "citations")),
             judge_failures |-> Cardinality(judgeable \ judged),
             negatives |-> m,
             refusals |-> Cardinality(refused)]
    BY <1>1, <2>1, <2>2 DEF GeneratorSummary, latencies, column
  <2> HIDE DEF s
  <2> QED
    BY ONLY <2>3
<1>4. Len(column) = Cardinality(judged) /\ (column # <<>> => Len(column) # 0)
  BY ColumnIs
<1>5. n # 0 => /\ 20 * Cardinality(slow) <= n
               /\ \E i \in 1..n : rs[i].latency = s.p95
  <2> SUFFICES ASSUME n # 0
               PROVE  20 * Cardinality(slow) <= n /\ \E i \in 1..n : rs[i].latency = s.p95
    OBVIOUS
  <2>1. rs # <<>>
    <3>1. Len(<<>>) = 0
      OBVIOUS
    <3> QED
      BY <1>1, <3>1
  <2>2. s.p95 = P95(latencies)
    BY <1>3, <2>1
  <2>3. latencies \in [1..n -> Int] /\ \A i \in 1..n : latencies[i] = rs[i].latency
    BY <1>1 DEF Records
  <2> HIDE DEF latencies
  <2>4. Len(latencies) = n
    BY ONLY <1>1, <2>3
  <2> DEFINE above == {i \in 1..n : latencies[i] > P95(latencies)}
  <2>5. (\E i \in 1..n : P95(latencies) = latencies[i]) /\ 20 * Cardinality(above) <= n
    <3>1. n \in Nat \ {0}
      BY <1>1
    <3> QED
      BY ONLY <2>3, <2>4, <3>1, P95Is
  <2>6. above = slow
    BY <2>2, <2>3
  <2> QED
    BY <2>2, <2>3, <2>5, <2>6
<1>6. s.grounded # NoFraction => s.grounded[2] = Cardinality(judged) /\ judged # {}
  <2> HIDE DEF s, column
  <2> SUFFICES ASSUME s.grounded # NoFraction
               PROVE  s.grounded[2] = Cardinality(judged) /\ judged # {}
    OBVIOUS
  <2>1. column # <<>> /\ s.grounded[2] = Len(column)
    <3>1. column # <<>>
      BY <1>3 DEF Mean
    <3>2. \E v : Mean(column) = <<v, Len(column)>>
      BY <3>1 DEF Mean
    <3>3. PICK v : s.grounded = <<v, Len(column)>>
      BY <1>3, <3>2
    <3> QED
      BY <3>1, <3>3
  <2>2. Len(column) # 0
    BY <1>4, <2>1
  <2> QED
    BY <1>1, <1>4, <2>1, <2>2, OthersCount
<1>7. ASSUME CheckMinimums(s, P95Max)
      PROVE  /\ judged # {} /\ s.p95 <= P95Max
             /\ 50 * Cardinality(unread) <= n
             /\ 10 * Cardinality(answered) <= m
  <2>1. /\ s.grounded # NoFraction /\ s.p95 <= P95Max
        /\ 100 * s.parsed >= 98 * s.n /\ 100 * s.refusals >= 90 * s.negatives
    BY <1>7 DEF CheckMinimums
  <2>2. unread = (1..n) \ read /\ answered = (1..m) \ refused
    OBVIOUS
  <2> HIDE DEF unread, answered
  <2>3. Cardinality(unread) = n - Cardinality(read) /\ Cardinality(read) \in Nat
    BY <1>1, <2>2, OthersCount
  <2>4. Cardinality(answered) = m - Cardinality(refused) /\ Cardinality(refused) \in Nat
    BY <1>1, <2>2, OthersCount
  <2> HIDE DEF s, judged, read, refused
  <2>5. 50 * Cardinality(unread) <= n /\ 10 * Cardinality(answered) <= m
    BY ONLY <1>1, <1>3, <2>1, <2>3, <2>4
  <2> QED
    BY <1>6, <2>1, <2>5
<1> QED
  BY <1>2, <1>3, <1>5, <1>6, <1>7

\* A list and one more.
LEMMA Appended ==
  ASSUME NEW rs, NEW n \in Nat, rs \in Seq(ToSet(rs)), Len(rs) = n, NEW r
  PROVE  LET out == Append(rs, r)
         IN /\ Len(out) = n + 1 /\ DOMAIN out = 1..(n + 1) /\ out \in Seq(ToSet(out))
            /\ out[n + 1] = r /\ \A i \in 1..n : out[i] = rs[i]
<1> DEFINE S == ToSet(rs)
           out == Append(rs, r)
<1>1. rs \in Seq(S \cup {r})
  <2> HIDE DEF S
  <2>1. rs \in Seq(S)
    BY DEF S
  <2>2. \A i \in DOMAIN rs : rs[i] \in S
    BY <2>1, Elements
  <2> QED
    BY ONLY <2>1, <2>2
<1> HIDE DEF S
<1>2. /\ out \in Seq(S \cup {r}) /\ Len(out) = n + 1 /\ DOMAIN out = 1..(n + 1)
      /\ out[n + 1] = r /\ \A i \in 1..n : out[i] = rs[i]
  BY ONLY <1>1, Len(rs) = n, n \in Nat
<1> HIDE DEF out
<1>3. \A i \in DOMAIN out : out[i] \in ToSet(out)
  BY DEF ToSet
<1>4. out \in Seq(ToSet(out))
  BY ONLY <1>2, <1>3
<1> QED
  BY ONLY <1>2, <1>4 DEF out

\* A list without its first element.
LEMMA TailIs ==
  ASSUME NEW V, NEW list \in Seq(V), list # <<>>
  PROVE  /\ Tail(list) \in Seq(V) /\ Len(list) \in Nat \ {0} /\ Len(Tail(list)) = Len(list) - 1
         /\ Head(list) = list[1] /\ Head(list) \in V
         /\ \A i \in 1..(Len(list) - 1) : Tail(list)[i] = list[i + 1]
<1>1. Len(list) \in Nat \ {0}
  OBVIOUS
<1> QED
  BY <1>1

\* A record of one more example, which is not judged yet.
Added(more, rs, n, q, r, out) ==
  /\ Records(more, n + 1) /\ more[n + 1].question = q
  /\ r.judgeable \in BOOLEAN /\ ~more[n + 1].judged
  /\ more[n + 1].judgeable = r.judgeable
  /\ r.judgeable => out.claims # <<>>
  /\ \A i \in 1..n : more[i] = rs[i]

\* A record appended is one.
LEMMA RecordAdded ==
  ASSUME NEW rs, NEW n, Records(rs, n), NEW q, NEW out \in Outputs, NEW latency \in Nat,
         NEW r, r = Record(q, out, latency), NEW more, more = Append(rs, r)
  PROVE  Added(more, rs, n, q, r, out)
<1>1. out.parse_ok \in BOOLEAN /\ out.abstain \in BOOLEAN
  BY DEF Outputs
<1>2. /\ DOMAIN r = Fields /\ r.latency \in Nat /\ r.question = q
      /\ r.parse_ok \in BOOLEAN /\ r.abstain \in BOOLEAN
      /\ r.judgeable \in BOOLEAN /\ r.judged = FALSE /\ r.claims = NoFraction
      /\ r.judgeable => out.claims # <<>>
  BY <1>1 DEF Record, Fields, Judgeable
<1>3. /\ n \in Nat /\ Len(more) = n + 1 /\ DOMAIN more = 1..(n + 1) /\ more \in Seq(ToSet(more))
      /\ more[n + 1] = r /\ \A i \in 1..n : more[i] = rs[i]
  <2>1. rs \in Seq(ToSet(rs)) /\ Len(rs) = n /\ n \in Nat
    BY DEF Records
  <2> QED
    BY ONLY <2>1, Appended, more = Append(rs, r)
<1>4. Records(more, n + 1)
  <2> SUFFICES ASSUME NEW i \in 1..(n + 1)
               PROVE  /\ DOMAIN more[i] = Fields /\ more[i].latency \in Nat
                      /\ more[i].parse_ok \in BOOLEAN /\ more[i].abstain \in BOOLEAN
                      /\ more[i].judgeable \in BOOLEAN /\ more[i].judged \in BOOLEAN
                      /\ more[i].judged => more[i].judgeable
                      /\ more[i].claims # NoFraction <=> more[i].judged
    BY <1>3 DEF Records
  <2>1. CASE i = n + 1
    BY <1>2, <1>3, <2>1
  <2>2. CASE i # n + 1
    <3>1. i \in 1..n /\ more[i] = rs[i]
      BY <1>3, <2>2
    <3> QED
      BY <3>1 DEF Records
  <2> QED
    BY <2>1, <2>2
<1> QED
  BY <1>2, <1>3, <1>4 DEF Added

\* One credit for each claim.
LEMMA CreditsTyped ==
  ASSUME NEW given \in Seq(Int \X STRING), NEW n \in Nat \ {0}
  PROVE  Credits(given, n) \in [1..n -> BOOLEAN]
<1>1. PICK num, word : Assessments(given, Len(given), num, word)
  BY AssessmentsAre
<1>2. 1 \in 1..n /\ n \in Nat
  OBVIOUS
<1> QED
  BY ONLY <1>1, <1>2, CreditSteps

\* A judgement that could be read measures every claim, and another none.
Readable(j) == j.ok \in BOOLEAN /\ (Frac(j.claims) # NoFraction <=> j.ok)

\* Every judgement of the parser is one of these.
LEMMA JudgementScored ==
  ASSUME NEW reply, reply.object \in BOOLEAN, reply.object => reply.claims \in Seq(Int \X STRING),
         NEW out, Len(out.claims) \in Nat \ {0}
  PROVE  Readable(ParseJudgeOutput(reply, out))
<1> DEFINE j == ParseJudgeOutput(reply, out)
<1> SUFFICES j.ok \in BOOLEAN /\ (Frac(j.claims) # NoFraction <=> j.ok)
  BY DEF Readable
<1>1. CASE ~reply.object
  <2>1. j.ok = FALSE /\ j.claims = <<>>
    BY <1>1 DEF ParseJudgeOutput
  <2> QED
    BY <2>1 DEF Frac, NoFraction
<1>2. CASE reply.object
  <2>1. j.ok = TRUE /\ j.claims = Credits(reply.claims, Len(out.claims))
    BY <1>2 DEF ParseJudgeOutput
  <2>2. j.claims # <<>>
    <3> DEFINE credits == Credits(reply.claims, Len(out.claims))
    <3>1. credits \in [1..Len(out.claims) -> BOOLEAN]
      BY <1>2, CreditsTyped
    <3>2. j.claims = credits
      BY <2>1
    <3> HIDE DEF credits
    <3>3. 1 \in DOMAIN credits
      BY <3>1
    <3> QED
      BY <3>2, <3>3
  <2>3. Frac(j.claims) # NoFraction
    BY <2>2 DEF Frac, NoFraction
  <2> QED
    BY <2>1, <2>3
<1> QED
  BY <1>1, <1>2

\* The last record is judged, and the questions stay.
Mark(rs, j) == [rs EXCEPT ![Len(rs)] = Judged(@, j)]
LastIsJudged(more, rs, n) ==
  Records(more, n) /\ \A i \in 1..n : more[i].question = rs[i].question

\* A judgement keeps the records.
LEMMA LastJudged ==
  ASSUME NEW rs, NEW n, Records(rs, n), n # 0, rs[n].judgeable,
         NEW j, Readable(j)
  PROVE  LastIsJudged(Mark(rs, j), rs, n)
<1> DEFINE r == Judged(rs[n], j)
           more == Mark(rs, j)
<1>1. /\ n \in Nat /\ n \in 1..n /\ Len(rs) = n /\ DOMAIN rs = 1..n /\ rs \in Seq(ToSet(rs))
      /\ rs = [i \in 1..n |-> rs[i]]
  <2>1. n \in Nat /\ Len(rs) = n /\ DOMAIN rs = 1..n /\ rs \in Seq(ToSet(rs))
    BY DEF Records
  <2> QED
    BY <2>1
<1>2. j.ok \in BOOLEAN /\ (Frac(j.claims) # NoFraction <=> j.ok)
  BY DEF Readable
<1>3. /\ DOMAIN r = Fields /\ r.latency \in Nat /\ r.question = rs[n].question
      /\ r.parse_ok \in BOOLEAN /\ r.abstain \in BOOLEAN
      /\ r.judgeable = TRUE /\ r.judged = j.ok /\ r.claims = Frac(j.claims)
  <2>1. /\ DOMAIN rs[n] = Fields /\ rs[n].latency \in Nat
        /\ rs[n].parse_ok \in BOOLEAN /\ rs[n].abstain \in BOOLEAN
        /\ rs[n].judgeable = TRUE
    BY <1>1 DEF Records
  <2> QED
    BY <2>1 DEF Judged, Fields
<1> HIDE DEF r
<1>4. /\ DOMAIN more = 1..n /\ Len(more) = n /\ more[n] = r
      /\ \A i \in 1..n : i # n => more[i] = rs[i]
  <2>1. more = [i \in 1..n |-> IF i = n THEN r ELSE rs[i]]
    BY <1>1 DEF r, Mark
  <2> HIDE DEF more
  <2> QED
    BY ONLY <1>1, <2>1
<1>5. more \in Seq(ToSet(more))
  <2>1. \A i \in 1..n : more[i] \in ToSet(more)
    BY <1>4 DEF ToSet
  <2>2. more = [i \in 1..n |-> more[i]]
    <3>1. more = [i \in DOMAIN more |-> more[i]]
      BY DEF Mark
    <3> QED
      BY ONLY <1>4, <3>1
  <2> QED
    BY ONLY <1>1, <2>1, <2>2
<1> HIDE DEF more
<1>6. Records(more, n)
  <2> SUFFICES ASSUME NEW i \in 1..n
               PROVE  /\ DOMAIN more[i] = Fields /\ more[i].latency \in Nat
                      /\ more[i].parse_ok \in BOOLEAN /\ more[i].abstain \in BOOLEAN
                      /\ more[i].judgeable \in BOOLEAN /\ more[i].judged \in BOOLEAN
                      /\ more[i].judged => more[i].judgeable
                      /\ more[i].claims # NoFraction <=> more[i].judged
    BY <1>1, <1>4, <1>5 DEF Records
  <2>1. CASE i = n
    BY <1>2, <1>3, <1>4, <2>1
  <2>2. CASE i # n
    BY <1>4, <2>2 DEF Records
  <2> QED
    BY <2>1, <2>2
<1>7. \A i \in 1..n : more[i].question = rs[i].question
  BY <1>3, <1>4
<1> QED
  BY <1>6, <1>7 DEF LastIsJudged, more

-----------------------------------------------------------------------------
(***************************************************************************)
(* A generator's run: its records are those of the questions before the    *)
(* current one, the gold ones first.                                       *)
(***************************************************************************)

Exam == Asked["bakeoff"]

\* The t questions left are the last ones; and one less is left.
Left(td, t) == t \in Nat /\ \A i \in 1..t : td[i] = Exam[Len(Exam) - t + i]
Shorter(td2, td, t) == \A i \in 1..(t - 1) : td2[i] = td[i + 1]

\* n gold questions and m negatives have a record and t questions are left; one
\* question is both while its answer is with the judge.
OnTrack(rs, n, fs, m, td, t, owed) ==
  /\ n \in Nat /\ m \in Nat /\ Left(td, t)
  /\ n + m + t = Len(Exam) + owed
  /\ \A i \in 1..n : rs[i].question = Exam[i] /\ Exam[i].kind = "gold"
  /\ \A i \in 1..m : fs[i].question = Exam[n + i] /\ Exam[n + i].kind = "negative"

Owed(st) == IF st \in {"judge", "judging"} THEN 1 ELSE 0

\* The records are of the questions, and the answer before the judge is the last.
RecordsInv ==
  path = "bakeoff" =>
    /\ Records(rows, Len(rows)) /\ Records(refusals, Len(refusals))
    /\ todo \in Seq(Questions)
    /\ stage # "raised" =>
         /\ OnTrack(rows, Len(rows), refusals, Len(refusals), todo, Len(todo), Owed(stage))
         /\ stage \in {"generate", "generating", "judge", "judging"} => Len(todo) # 0
         /\ stage = "done" => Len(todo) = 0
         /\ stage \in {"judge", "judging"} =>
              /\ Len(refusals) = 0 /\ Len(rows) # 0
              /\ rows[Len(rows)].judgeable /\ Len(parsed.claims) # 0

\* The last judgement is what was made of a judge's reply.
JudgementInv ==
  \/ judgement = NoJudgement
  \/ \E reply \in JudgeReplies, out \in Outputs : judgement = ParseJudgeOutput(reply, out)

\* A run that is done has its summary, and no other.
ResultInv ==
  path = "bakeoff" =>
    result = IF stage = "done"
             THEN [scores |-> GeneratorSummary(rows, refusals),
                   meets |-> CheckMinimums(GeneratorSummary(rows, refusals), P95Max)]
             ELSE NotYet

\* The questions of a run, gold before negatives.
LEMMA QuestionsOfRun ==
  ASSUME "bakeoff" \in DOMAIN Asked
  PROVE  /\ Exam \in Seq(Questions) /\ Len(Exam) \in Nat
         /\ \E g \in 0..Len(Exam) : \A i \in 1..Len(Exam) : Exam[i].kind = IF i <= g THEN "gold" ELSE "negative"
<1>1. Exam \in Seq(Questions)
  BY AskedAssumption DEF Exam
<1>2. PICK g \in 0..Len(Exam) : \A i \in DOMAIN Exam : Exam[i].kind = IF i <= g THEN "gold" ELSE "negative"
  BY AskedAssumption DEF Exam
<1>3. Len(Exam) \in Nat /\ DOMAIN Exam = 1..Len(Exam)
  BY ONLY <1>1
<1> QED
  BY <1>1, <1>2, <1>3

\* The current question is the first without a record, and is gold only while there
\* are no negatives.
LEMMA CurrentQuestion ==
  ASSUME "bakeoff" \in DOMAIN Asked, NEW rs, NEW n, NEW fs, NEW m, NEW td, NEW t,
         OnTrack(rs, n, fs, m, td, t, 0), t # 0
  PROVE  /\ td[1] = Exam[n + m + 1]
         /\ td[1].kind \in {"gold", "negative"}
         /\ td[1].kind = "gold" => m = 0
<1>1. n \in Nat /\ m \in Nat /\ t \in Nat /\ n + m + t = Len(Exam)
  <2>1. Len(Exam) \in Nat
    BY QuestionsOfRun
  <2> QED
    BY <2>1 DEF OnTrack, Left
<1>2. td[1] = Exam[n + m + 1]
  <2>1. 1 \in 1..t /\ Len(Exam) - t + 1 = n + m + 1
    BY <1>1
  <2>2. td[1] = Exam[Len(Exam) - t + 1]
    BY <2>1 DEF OnTrack, Left
  <2> QED
    BY <2>1, <2>2
<1>3. PICK g \in 0..Len(Exam) : \A i \in 1..Len(Exam) : Exam[i].kind = IF i <= g THEN "gold" ELSE "negative"
  BY QuestionsOfRun
<1>4. n + m + 1 \in 1..Len(Exam)
  BY <1>1
<1>5. Exam[n + m + 1].kind \in {"gold", "negative"}
  BY <1>3, <1>4
<1>6. ASSUME m # 0  PROVE Exam[n + m + 1].kind # "gold"
  <2>1. 1 \in 1..m /\ n + 1 \in 1..Len(Exam)
    BY <1>1, <1>6
  <2>2. Exam[n + 1].kind = "negative"
    BY <2>1 DEF OnTrack
  <2>3. n + 1 > g /\ g \in Int
    BY <1>3, <2>1, <2>2
  <2>4. n + m + 1 > g
    BY <1>1, <2>3
  <2>5. Exam[n + m + 1].kind = "negative"
    BY <1>1, <1>3, <1>4, <2>3, <2>4
  <2> QED
    BY <2>5
<1> QED
  BY <1>2, <1>5, <1>6

\* A question less is left.
LEMMA OneLess ==
  ASSUME NEW rs, NEW n, NEW fs, NEW m, NEW td, NEW t, NEW owed \in {0, 1},
         OnTrack(rs, n, fs, m, td, t, owed), t # 0, Len(Exam) \in Nat,
         NEW td2, Shorter(td2, td, t)
  PROVE  Left(td2, t - 1)
<1>1. t \in Nat /\ t - 1 \in Nat /\ \A i \in 1..t : td[i] = Exam[Len(Exam) - t + i]
  BY DEF OnTrack, Left
<1> SUFFICES ASSUME NEW i \in 1..(t - 1)  PROVE td2[i] = Exam[Len(Exam) - (t - 1) + i]
  BY <1>1 DEF Left
<1>2. i + 1 \in 1..t /\ Len(Exam) - t + (i + 1) = Len(Exam) - (t - 1) + i
  BY <1>1
<1>3. td2[i] = td[i + 1]
  BY DEF Shorter
<1> QED
  BY <1>1, <1>2, <1>3

\* The reply to a gold question.
LEMMA GoldOnTrack ==
  ASSUME "bakeoff" \in DOMAIN Asked, NEW rs, NEW n, NEW fs, NEW m, NEW td, NEW t,
         OnTrack(rs, n, fs, m, td, t, 0), t # 0, td[1].kind = "gold",
         NEW more, more[n + 1].question = td[1], \A i \in 1..n : more[i] = rs[i],
         NEW td2, Shorter(td2, td, t)
  PROVE  /\ m = 0
         /\ OnTrack(more, n + 1, fs, m, td, t, 1)
         /\ OnTrack(more, n + 1, fs, m, td2, t - 1, 0)
<1>1. m = 0 /\ td[1] = Exam[n + m + 1]
  BY CurrentQuestion
<1>2. n \in Nat /\ t \in Nat /\ n + m + t = Len(Exam) /\ Len(Exam) \in Nat
  BY QuestionsOfRun DEF OnTrack, Left
<1>3. \A i \in 1..(n + 1) : more[i].question = Exam[i] /\ Exam[i].kind = "gold"
  <2> SUFFICES ASSUME NEW i \in 1..(n + 1)
               PROVE  more[i].question = Exam[i] /\ Exam[i].kind = "gold"
    OBVIOUS
  <2>1. CASE i = n + 1
    BY <1>1, <1>2, <2>1
  <2>2. CASE i # n + 1
    <3>1. i \in 1..n
      BY <1>2, <2>2
    <3> QED
      BY <3>1 DEF OnTrack
  <2> QED
    BY <2>1, <2>2
<1>4. \A i \in 1..m : fs[i].question = Exam[n + 1 + i] /\ Exam[n + 1 + i].kind = "negative"
  BY ONLY <1>1
<1>5. OnTrack(more, n + 1, fs, m, td, t, 1)
  <2>1. n + 1 \in Nat /\ m \in Nat /\ n + 1 + m + t = Len(Exam) + 1
    BY ONLY <1>1, <1>2
  <2>2. Left(td, t)
    BY DEF OnTrack
  <2> QED
    BY ONLY <1>3, <1>4, <2>1, <2>2 DEF OnTrack
<1>6. OnTrack(more, n + 1, fs, m, td2, t - 1, 0)
  <2>1. n + 1 \in Nat /\ m \in Nat /\ n + 1 + m + (t - 1) = Len(Exam) + 0
    BY ONLY <1>1, <1>2, t # 0
  <2>2. 0 \in {0, 1}
    OBVIOUS
  <2>3. Left(td2, t - 1)
    BY <1>2, <2>2, OneLess
  <2> QED
    BY ONLY <1>3, <1>4, <2>1, <2>3 DEF OnTrack
<1> QED
  BY <1>1, <1>5, <1>6

\* The reply to a negative.
LEMMA NegativeOnTrack ==
  ASSUME "bakeoff" \in DOMAIN Asked, NEW rs, NEW n, NEW fs, NEW m, NEW td, NEW t,
         OnTrack(rs, n, fs, m, td, t, 0), t # 0, td[1].kind = "negative",
         NEW more, more[m + 1].question = td[1], \A i \in 1..m : more[i] = fs[i],
         NEW td2, Shorter(td2, td, t)
  PROVE  OnTrack(rs, n, more, m + 1, td2, t - 1, 0)
<1>1. td[1] = Exam[n + m + 1]
  BY CurrentQuestion
<1>2. n \in Nat /\ m \in Nat /\ t \in Nat /\ n + m + t = Len(Exam) /\ Len(Exam) \in Nat
  BY QuestionsOfRun DEF OnTrack, Left
<1>3. \A i \in 1..(m + 1) : more[i].question = Exam[n + i] /\ Exam[n + i].kind = "negative"
  <2> SUFFICES ASSUME NEW i \in 1..(m + 1)
               PROVE  more[i].question = Exam[n + i] /\ Exam[n + i].kind = "negative"
    OBVIOUS
  <2>1. CASE i = m + 1
    <3>1. n + i = n + m + 1
      BY <1>2, <2>1
    <3> QED
      BY <1>1, <2>1, <3>1
  <2>2. CASE i # m + 1
    <3>1. i \in 1..m
      BY <1>2, <2>2
    <3> QED
      BY <3>1 DEF OnTrack
  <2> QED
    BY <2>1, <2>2
<1>4. m + 1 \in Nat /\ 0 \in {0, 1} /\ n + (m + 1) + (t - 1) = Len(Exam) + 0
  BY ONLY <1>2, t # 0
<1>5. Left(td2, t - 1)
  BY <1>2, <1>4, OneLess
<1>6. \A i \in 1..n : rs[i].question = Exam[i] /\ Exam[i].kind = "gold"
  BY DEF OnTrack
<1> QED
  BY ONLY <1>2, <1>3, <1>4, <1>5, <1>6 DEF OnTrack

\* The judge's reply.
LEMMA JudgedOnTrack ==
  ASSUME "bakeoff" \in DOMAIN Asked, NEW rs, NEW n, NEW fs, NEW m, NEW td, NEW t,
         OnTrack(rs, n, fs, m, td, t, 1), t # 0,
         NEW more, \A i \in 1..n : more[i].question = rs[i].question,
         NEW td2, Shorter(td2, td, t)
  PROVE  OnTrack(more, n, fs, m, td2, t - 1, 0)
<1>1. n \in Nat /\ m \in Nat /\ t \in Nat /\ n + m + t = Len(Exam) + 1 /\ Len(Exam) \in Nat
  BY QuestionsOfRun DEF OnTrack, Left
<1>2. 1 \in {0, 1} /\ n + m + (t - 1) = Len(Exam) + 0
  BY ONLY <1>1, t # 0
<1>3. Left(td2, t - 1)
  BY <1>1, <1>2, OneLess
<1>4. /\ \A i \in 1..n : more[i].question = Exam[i] /\ Exam[i].kind = "gold"
      /\ \A i \in 1..m : fs[i].question = Exam[n + i] /\ Exam[n + i].kind = "negative"
  BY DEF OnTrack
<1> QED
  BY ONLY <1>1, <1>2, <1>3, <1>4 DEF OnTrack

\* A generator's reply adds the record of its question.
LEMMA ReplyKeepsRecords ==
  ASSUME WayInv, CallInv, ParsedInv', RecordsInv, ReadReply, path = "bakeoff"
  PROVE  RecordsInv'
<1> DEFINE n == Len(rows)
           m == Len(refusals)
           t == Len(todo)
           r == Record(Question, parsed', call.latency)
<1>1. /\ Records(rows, n) /\ Records(refusals, m) /\ todo \in Seq(Questions)
      /\ stage = "generating" /\ OnTrack(rows, n, refusals, m, todo, t, 0) /\ t # 0
  <2>1. stage = "generating"
    BY DEF ReadReply
  <2> QED
    BY <2>1 DEF RecordsInv, Owed
<1>2. "bakeoff" \in DOMAIN Asked /\ path' = "bakeoff"
  BY DEF WayInv, ReadReply
<1>3. /\ rows' = IF Question.kind = "gold" THEN Append(rows, r) ELSE rows
      /\ refusals' = IF Question.kind = "negative" THEN Append(refusals, r) ELSE refusals
      /\ todo' = IF Question.kind = "negative" \/ (Question.kind = "gold" /\ ~r.judgeable)
                 THEN Tail(todo) ELSE todo
      /\ stage' = IF Question.kind = "gold" /\ r.judgeable THEN "judge" ELSE "search"
  BY DEF ReadReply
<1>4. /\ Tail(todo) \in Seq(Questions) /\ Len(Tail(todo)) = t - 1 /\ Question = todo[1]
      /\ Shorter(Tail(todo), todo, t)
  <2>1. todo # <<>>
    <3>1. Len(<<>>) = 0
      OBVIOUS
    <3> QED
      BY <1>1, <3>1
  <2> QED
    BY <1>1, <2>1, TailIs DEF Question, Shorter
<1>5. parsed' \in Outputs /\ call.latency \in Nat
  BY DEF ParsedInv, CallInv
<1> HIDE DEF r, n, m, t
<1>6. CASE Question.kind = "gold"
  <2> DEFINE more == Append(rows, r)
  <2>0. Added(more, rows, n, todo[1], r, parsed')
    BY <1>1, <1>4, <1>5, RecordAdded DEF r
  <2>1. /\ Records(more, n + 1) /\ more[n + 1].question = todo[1]
        /\ r.judgeable \in BOOLEAN /\ ~more[n + 1].judged
        /\ more[n + 1].judgeable = r.judgeable
        /\ r.judgeable => parsed'.claims # <<>>
        /\ \A i \in 1..n : more[i] = rows[i]
    BY <2>0 DEF Added
  <2>2. rows' = more /\ refusals' = refusals
    BY <1>3, <1>6
  <2> HIDE DEF more
  <2>3. Len(rows') = n + 1 /\ Len(refusals') = m
    BY <1>1, <2>1, <2>2 DEF Records
  <2>4. /\ m = 0
        /\ OnTrack(more, n + 1, refusals, m, todo, t, 1)
        /\ OnTrack(more, n + 1, refusals, m, Tail(todo), t - 1, 0)
    BY <1>1, <1>2, <1>4, <1>6, <2>1, GoldOnTrack
  <2>5. CASE r.judgeable
    <3>1. todo' = todo /\ stage' = "judge" /\ Owed(stage') = 1
      BY <1>3, <1>6, <2>5 DEF Owed
    <3>2. Len(parsed'.claims) # 0
      <4>1. parsed'.claims # <<>> /\ parsed'.claims \in Seq(Nat)
        BY <1>5, <2>1, <2>5 DEF Outputs
      <4> QED
        BY ONLY <4>1
    <3>3. n + 1 # 0
      BY <1>1 DEF Records
    <3> QED
      BY <1>1, <1>2, <2>1, <2>2, <2>3, <2>4, <2>5, <3>1, <3>2, <3>3 DEF RecordsInv, t
  <2>6. CASE ~r.judgeable
    <3>1. todo' = Tail(todo) /\ stage' = "search" /\ Owed(stage') = 0
      BY <1>3, <1>6, <2>6 DEF Owed
    <3> QED
      BY <1>1, <1>2, <1>4, <2>1, <2>2, <2>3, <2>4, <3>1 DEF RecordsInv
  <2> QED
    BY <2>5, <2>6
<1>7. CASE Question.kind = "negative"
  <2> DEFINE more == Append(refusals, r)
  <2>0. Added(more, refusals, m, todo[1], r, parsed')
    BY <1>1, <1>4, <1>5, RecordAdded DEF r
  <2>1. /\ Records(more, m + 1) /\ more[m + 1].question = todo[1]
        /\ \A i \in 1..m : more[i] = refusals[i]
    BY <2>0 DEF Added
  <2>2. /\ rows' = rows /\ refusals' = more /\ todo' = Tail(todo) /\ stage' = "search"
        /\ Owed(stage') = 0
    BY <1>3, <1>7 DEF Owed
  <2> HIDE DEF more
  <2>3. Len(rows') = n /\ Len(refusals') = m + 1
    BY <1>1, <2>1, <2>2 DEF Records
  <2>4. OnTrack(rows, n, more, m + 1, Tail(todo), t - 1, 0)
    BY <1>1, <1>2, <1>4, <1>7, <2>1, NegativeOnTrack
  <2> QED
    BY <1>1, <1>2, <1>4, <2>1, <2>2, <2>3, <2>4 DEF RecordsInv
<1>8. Question.kind \in {"gold", "negative"}
  BY <1>1, <1>2, <1>4, CurrentQuestion
<1> QED
  BY <1>6, <1>7, <1>8

\* The judge's reply marks the last record, and the next question has its turn.
LEMMA JudgementKeepsRecords ==
  ASSUME WayInv, ParsedInv, RecordsInv, ReadJudgement, path = "bakeoff"
  PROVE  RecordsInv'
<1> DEFINE n == Len(rows)
           m == Len(refusals)
           t == Len(todo)
<1>1. /\ Records(rows, n) /\ Records(refusals, m) /\ todo \in Seq(Questions)
      /\ stage = "judging" /\ OnTrack(rows, n, refusals, m, todo, t, 1) /\ t # 0
      /\ n # 0 /\ rows[n].judgeable /\ Len(parsed.claims) # 0
  <2>1. stage = "judging"
    BY DEF ReadJudgement
  <2> QED
    BY <2>1 DEF RecordsInv, Owed
<1>2. /\ "bakeoff" \in DOMAIN Asked /\ path' = "bakeoff" /\ refusals' = refusals
      /\ todo' = Tail(todo) /\ stage' = "search" /\ Owed(stage') = 0
  BY DEF WayInv, ReadJudgement, Owed
<1>3. PICK reply \in JudgeReplies :
         /\ judgement' = ParseJudgeOutput(reply, parsed)
         /\ rows' = [rows EXCEPT ![Len(rows)] = Judged(@, judgement')]
  BY DEF ReadJudgement
<1>4. /\ reply.object \in BOOLEAN
      /\ reply.object => reply.claims \in Seq(Int \X STRING)
  BY ModelsAssumption
<1>5. Len(parsed.claims) \in Nat \ {0}
  <2>1. parsed.claims \in Seq(Nat)
    BY DEF ParsedInv, Outputs
  <2> QED
    BY <1>1, <2>1
<1>6. /\ Tail(todo) \in Seq(Questions) /\ Len(Tail(todo)) = t - 1
      /\ Shorter(Tail(todo), todo, t)
  <2>1. todo # <<>>
    <3>1. Len(<<>>) = 0
      OBVIOUS
    <3> QED
      BY <1>1, <3>1
  <2> QED
    BY <1>1, <2>1, TailIs DEF Shorter
<1>7. Records(rows', n) /\ \A i \in 1..n : rows'[i].question = rows[i].question
  <2>1. rows' = Mark(rows, judgement')
    BY <1>3 DEF Mark
  <2>2. Readable(judgement')
    BY <1>3, <1>4, <1>5, JudgementScored
  <2>3. LastIsJudged(rows', rows, n)
    <3> HIDE DEF n
    <3> QED
      BY <1>1, <2>1, <2>2, LastJudged
  <2> QED
    BY <2>3 DEF LastIsJudged
<1> HIDE DEF n, m, t
<1>8. Len(rows') = n /\ Len(refusals') = m
  BY <1>2, <1>7 DEF Records, m
<1>9. OnTrack(rows', n, refusals, m, Tail(todo), t - 1, 0)
  BY <1>1, <1>2, <1>6, <1>7, JudgedOnTrack
<1> QED
  BY <1>1, <1>2, <1>6, <1>7, <1>8, <1>9 DEF RecordsInv

\* No step leaves the track.
LEMMA RecordsStep ==
  WayInv /\ CallInv /\ ParsedInv /\ ParsedInv' /\ RecordsInv /\ [Next]_vars => RecordsInv'
<1> SUFFICES ASSUME WayInv, CallInv, ParsedInv, ParsedInv', RecordsInv, [Next]_vars, path' = "bakeoff"
             PROVE  RecordsInv'
  BY DEF RecordsInv
<1>1. path = "bakeoff"
  BY StepsCall DEF WayInv
<1>2. CASE ReadReply
  BY <1>1, <1>2, ReplyKeepsRecords
<1>3. CASE ReadJudgement
  BY <1>1, <1>3, JudgementKeepsRecords
<1>4. ASSUME UNCHANGED <<todo, parsed, records>>,
             stage' # "raised" => stage # "raised" /\ Owed(stage') = Owed(stage),
             stage' \in {"generate", "generating", "judge", "judging"} => Len(todo) # 0,
             stage' \in {"judge", "judging"} => stage \in {"judge", "judging"},
             stage' = "done" => Len(todo) = 0
      PROVE  RecordsInv'
  <2>1. todo' = todo /\ parsed' = parsed /\ rows' = rows /\ refusals' = refusals
    BY <1>4 DEF records
  <2> QED
    BY <1>1, <1>4, <2>1 DEF RecordsInv
<1>5. todo # <<>> => Len(todo) # 0
  <2>1. todo \in Seq(Questions)
    BY <1>1 DEF RecordsInv
  <2> QED
    BY ONLY <2>1
<1>6. CASE Search
  BY <1>1, <1>4, <1>5, <1>6 DEF Search, Owed
<1>7. CASE Generate
  <2>1. stage = "generate" /\ stage' = "generating" /\ UNCHANGED <<todo, parsed, records>>
    BY <1>7 DEF Generate, Asks
  <2>2. Len(todo) # 0
    BY <1>1, <2>1 DEF RecordsInv
  <2> QED
    BY <1>4, <2>1, <2>2 DEF Owed
<1>8. CASE Judge
  <2>1. stage = "judge" /\ stage' = "judging" /\ UNCHANGED <<todo, parsed, records>>
    BY <1>8 DEF Judge, Asks
  <2>2. Len(todo) # 0
    BY <1>1, <2>1 DEF RecordsInv
  <2> QED
    BY <1>4, <2>1, <2>2 DEF Owed
<1>9. CASE CallFails \/ NoContent
  <2>1. stage' = "raised" /\ UNCHANGED <<todo, records>>
    BY <1>1, <1>9 DEF CallFails, NoContent
  <2>2. todo' = todo /\ rows' = rows /\ refusals' = refusals
    BY <2>1 DEF records
  <2> QED
    BY <1>1, <2>1, <2>2 DEF RecordsInv
<1>10. CASE Finish
  <2>1. Len(<<>>) = 0
    OBVIOUS
  <2> QED
    BY <1>4, <1>10, <2>1 DEF Finish, Owed
<1>11. CASE ServerReplies \/ Ended \/ UNCHANGED vars
  <2>1. UNCHANGED <<stage, todo, parsed, records>>
    BY <1>11 DEF ServerReplies, Ended, vars
  <2>2. todo' = todo /\ parsed' = parsed /\ rows' = rows /\ refusals' = refusals /\ stage' = stage
    BY <2>1 DEF records
  <2> QED
    BY <1>1, <2>2 DEF RecordsInv
<1>12. ~(CheckSubstrate \/ RerankHits \/ CiteAnswer \/ ScoreChannels \/ ScoreVisual \/ FrameUnreadable)
  BY <1>1 DEF WayInv, CheckSubstrate, RerankHits, CiteAnswer, ScoreChannels, ScoreVisual, FrameUnreadable
<1> QED
  BY <1>2, <1>3, <1>6, <1>7, <1>8, <1>9, <1>10, <1>11, <1>12 DEF Next

\* Only a judge's reply makes a judgement.
LEMMA JudgementStep == ParsedInv /\ JudgementInv /\ [Next]_vars => JudgementInv'
<1> SUFFICES ASSUME ParsedInv, JudgementInv, [Next]_vars  PROVE JudgementInv'
  OBVIOUS
<1>1. CASE ReadJudgement
  <2>1. PICK reply \in JudgeReplies : judgement' = ParseJudgeOutput(reply, parsed)
    BY <1>1 DEF ReadJudgement
  <2> QED
    BY <2>1 DEF ParsedInv, JudgementInv
<1>2. CASE ~ReadJudgement
  <2>1. judgement' = judgement
    BY <1>2 DEF Next, CheckSubstrate, Search, RerankHits, Generate, Judge, Asks, ServerReplies, CallFails,
                NoContent, ReadReply, CiteAnswer, ScoreChannels, ScoreVisual, FrameUnreadable, Finish,
                Ended, vars
  <2> QED
    BY <2>1 DEF JudgementInv
<1> QED
  BY <1>1, <1>2

\* Only the end has a summary, and it stays.
LEMMA ResultStep == WayInv /\ ResultInv /\ [Next]_vars => ResultInv'
<1> SUFFICES ASSUME WayInv, ResultInv, [Next]_vars, path' = "bakeoff"  PROVE ResultInv'
  BY DEF ResultInv
<1>1. path = "bakeoff"
  BY StepsCall DEF WayInv
<1>2. CASE Finish
  <2>1. result' = Summary /\ stage' = "done" /\ rows' = rows /\ refusals' = refusals
    BY <1>2 DEF Finish, records
  <2>2. Summary = [scores |-> GeneratorSummary(rows, refusals),
                   meets |-> CheckMinimums(GeneratorSummary(rows, refusals), P95Max)]
    BY <1>1 DEF Summary
  <2> QED
    BY <2>1, <2>2 DEF ResultInv
<1>3. CASE ServerReplies \/ Ended \/ UNCHANGED vars
  <2>1. UNCHANGED <<stage, records, result>>
    BY <1>3 DEF ServerReplies, Ended, vars
  <2>2. stage' = stage /\ rows' = rows /\ refusals' = refusals /\ result' = result
    BY <2>1 DEF records
  <2> QED
    BY <1>1, <2>2 DEF ResultInv
<1>4. CASE Search \/ Generate \/ Judge \/ CallFails \/ NoContent \/ ReadReply \/ ReadJudgement
  <2>1. stage # "done" /\ stage' # "done" /\ result' = result
    <3>1. CASE Search \/ Generate \/ Judge \/ ReadReply \/ ReadJudgement
      BY <1>1, <3>1 DEF Search, Generate, Judge, Asks, ReadReply, ReadJudgement
    <3>2. CASE CallFails \/ NoContent
      BY <1>1, <3>2 DEF CallFails, NoContent, WayInv
    <3> QED
      BY <1>4, <3>1, <3>2
  <2> QED
    BY <1>1, <2>1 DEF ResultInv
<1>5. ~(CheckSubstrate \/ RerankHits \/ CiteAnswer \/ ScoreChannels \/ ScoreVisual \/ FrameUnreadable)
  BY <1>1 DEF WayInv, CheckSubstrate, RerankHits, CiteAnswer, ScoreChannels, ScoreVisual, FrameUnreadable
<1> QED
  BY <1>2, <1>3, <1>4, <1>5 DEF Next

\* The inductive invariant of a generator's run.
BakeoffInv == WayInv /\ CallInv /\ ParsedInv /\ RecordsInv /\ JudgementInv /\ ResultInv

\* In every state.
LEMMA AlwaysBakeoffInv == Spec => []BakeoffInv
<1>1. Init /\ CallOfPath /\ QuestionInv => BakeoffInv
  <2> SUFFICES ASSUME Init, CallOfPath, QuestionInv  PROVE RecordsInv /\ JudgementInv /\ ResultInv
    BY DEF BakeoffInv, QuestionInv, CallOfPath
  <2>1. ASSUME path = "bakeoff"
        PROVE  RecordsInv
    <3>1. /\ rows = <<>> /\ refusals = <<>> /\ todo = Exam /\ Owed(stage) = 0 /\ stage = "search"
          /\ "bakeoff" \in DOMAIN Asked
      BY <2>1 DEF Init, Exam, Owed
    <3>2. Exam \in Seq(Questions) /\ Len(Exam) \in Nat
      BY <3>1, QuestionsOfRun
    <3>3. Len(<<>>) = 0
      OBVIOUS
    <3>4. Records(<<>>, 0)
      BY DEF Records
    <3>5. OnTrack(<<>>, 0, <<>>, 0, Exam, Len(Exam), 0)
      <4>1. Left(Exam, Len(Exam))
        BY ONLY <3>2 DEF Left
      <4> QED
        BY <3>2, <4>1 DEF OnTrack
    <3> QED
      BY <3>1, <3>2, <3>3, <3>4, <3>5 DEF RecordsInv
  <2>2. ResultInv
    BY DEF Init, ResultInv
  <2> QED
    BY <2>1, <2>2 DEF Init, JudgementInv, RecordsInv
<1>2. CallOfPath' /\ QuestionInv' /\ BakeoffInv /\ [Next]_vars => BakeoffInv'
  BY RecordsStep, JudgementStep, ResultStep DEF BakeoffInv, QuestionInv, CallOfPath
<1> QED
  BY <1>1, <1>2, AlwaysCallInv, AlwaysQuestionInv, PTL DEF Spec

\* A claim or citation is credited by the last word on it.
LEMMA CreditedByLastWord ==
  ASSUME NEW given \in Seq(Int \X STRING), NEW n \in Nat, NEW i \in DOMAIN Credits(given, n)
  PROVE  Credits(given, n)[i] <=> \E k \in DOMAIN given :
           /\ given[k] = <<i - 1, "true">>
           /\ \A l \in (k + 1)..Len(given) : given[l][1] # i - 1
<1> DEFINE m == Len(given)
<1>1. PICK num, word : Assessments(given, m, num, word)
  BY AssessmentsAre
<1>2. Credits(given, n) \in [1..n -> BOOLEAN]
  <2>1. PICK f \in [0..m -> [1..n -> BOOLEAN]] :
          f[m] = Credits(given, n) /\ Reads(f, num, word, m, n)
    BY <1>1, CreditsSteps
  <2>2. m \in 0..m
    <3>1. m \in Nat
      OBVIOUS
    <3> QED
      BY ONLY <3>1
  <2> HIDE DEF m
  <2> QED
    BY ONLY <2>1, <2>2
<1>3. i \in 1..n
  BY <1>2
<1> HIDE DEF m
<1>4. /\ Credits(given, n)[i] \in BOOLEAN
      /\ Credits(given, n)[i] = TRUE
           <=> \E k \in 1..m : /\ num[k] = i - 1 /\ word[k] = "true"
                              /\ \A l \in (k + 1)..m : num[l] # i - 1
  <2>1. LastWordIs(Credits(given, n)[i], num, word, m, i)
    BY <1>1, <1>3, CreditsAreLastWords
  <2> QED
    BY <2>1 DEF LastWordIs
<1>5. m \in Nat /\ DOMAIN given = 1..m /\ Len(given) = m
  BY DEF m
<1>6. \A k \in 1..m : given[k] = <<num[k], word[k]>>
  BY <1>1 DEF Assessments
<1>7. \A k \in 1..m : given[k][1] = num[k]
  BY <1>6
<1>8. \A k \in 1..m : given[k] = <<i - 1, "true">> <=> num[k] = i - 1 /\ word[k] = "true"
  BY <1>6
<1>9. ASSUME NEW k \in 1..m
      PROVE  (\A l \in (k + 1)..m : num[l] # i - 1) <=> \A l \in (k + 1)..m : given[l][1] # i - 1
  <2>1. \A l \in (k + 1)..m : l \in 1..m
    BY <1>5
  <2> QED
    BY <1>7, <2>1
<1>10. Credits(given, n)[i] <=> Credits(given, n)[i] = TRUE
  BY <1>4
<1> QED
  BY ONLY <1>4, <1>5, <1>8, <1>9, <1>10, Zenon

\* A sequence after another.
LEMMA After ==
  ASSUME NEW S, NEW a \in Seq(S), NEW b \in Seq(S), NEW i \in 1..(Len(a) + Len(b))
  PROVE  (a \o b)[i] = IF i <= Len(a) THEN a[i] ELSE b[i - Len(a)]
  OBVIOUS

\* The gold questions and then the negatives are the questions of the run.
LEMMA QuestionsInOrder ==
  ASSUME "bakeoff" \in DOMAIN Asked, NEW rs, NEW n, NEW fs, NEW m, Records(rs, n), Records(fs, m),
         NEW td, OnTrack(rs, n, fs, m, td, 0, 0)
  PROVE  [i \in DOMAIN rs |-> rs[i].question] \o [i \in DOMAIN fs |-> fs[i].question] = Exam
<1>1. /\ n \in Nat /\ m \in Nat /\ n + m = Len(Exam) /\ Exam \in Seq(Questions)
      /\ \A i \in 1..n : rs[i].question = Exam[i]
      /\ \A i \in 1..m : fs[i].question = Exam[n + i]
  <2>1. Exam \in Seq(Questions) /\ Len(Exam) \in Nat
    BY QuestionsOfRun
  <2> QED
    BY <2>1 DEF OnTrack
<1>2. DOMAIN rs = 1..n /\ DOMAIN fs = 1..m
  BY DEF Records
<1> DEFINE gold == [i \in 1..n |-> Exam[i]]
           negative == [i \in 1..m |-> Exam[n + i]]
<1>3. /\ [i \in DOMAIN rs |-> rs[i].question] = gold
      /\ [i \in DOMAIN fs |-> fs[i].question] = negative
  BY <1>1, <1>2
<1>4. gold \o negative = Exam
  <2>1. gold \in Seq(Questions) /\ negative \in Seq(Questions) /\ Len(gold) = n /\ Len(negative) = m
    <3>1. (\A i \in 1..n : Exam[i] \in Questions) /\ (\A i \in 1..m : Exam[n + i] \in Questions)
      <4>1. DOMAIN Exam = 1..(n + m) /\ \A i \in DOMAIN Exam : Exam[i] \in Questions
        BY ONLY <1>1, Elements
      <4>2. (\A i \in 1..n : i \in 1..(n + m)) /\ \A i \in 1..m : n + i \in 1..(n + m)
        BY ONLY <1>1
      <4> QED
        BY ONLY <4>1, <4>2
    <3> QED
      BY ONLY <1>1, <3>1 DEF gold, negative
  <2>2. (\A i \in 1..n : gold[i] = Exam[i]) /\ \A i \in 1..m : negative[i] = Exam[n + i]
    OBVIOUS
  <2> HIDE DEF gold, negative
  <2>3. gold \o negative \in Seq(Questions) /\ Len(gold \o negative) = n + m
    BY ONLY <1>1, <2>1
  <2>4. ASSUME NEW i \in 1..(n + m)  PROVE (gold \o negative)[i] = Exam[i]
    <3>1. CASE i \in 1..n
      BY ONLY <1>1, <2>1, <2>2, <3>1
    <3>2. CASE i \notin 1..n
      <4>1. i - n \in 1..m /\ n + (i - n) = i
        BY ONLY <1>1, <3>2, i \in 1..(n + m)
      <4>2. (gold \o negative)[i] = negative[i - n]
        <5>1. i \in 1..(Len(gold) + Len(negative)) /\ ~(i <= Len(gold))
          BY ONLY <1>1, <2>1, <3>2, i \in 1..(n + m)
        <5>2. (gold \o negative)[i] = negative[i - Len(gold)]
          BY ONLY <2>1, <5>1, After
        <5> QED
          BY ONLY <2>1, <5>2
      <4> QED
        BY ONLY <2>2, <4>1, <4>2
    <3> QED
      BY <3>1, <3>2
  <2> DEFINE both == gold \o negative
  <2>5. both \in Seq(Questions) /\ Len(both) = n + m /\ \A i \in 1..(n + m) : both[i] = Exam[i]
    BY <2>3, <2>4
  <2> HIDE DEF both
  <2>6. both = Exam
    BY ONLY <1>1, <2>5
  <2> QED
    BY <2>6 DEF both
<1> QED
  BY ONLY <1>3, <1>4

\* A generator's scores are earned: a credit is the judge's last word, every
\* question has its record, and the minimums are met by what was measured.
THEOREM GeneratorsEarnScores == Spec => []ScoresAreEarned
<1>1. BakeoffInv => ScoresAreEarned
  <2> SUFFICES ASSUME BakeoffInv, path = "bakeoff"  PROVE ScoresAreEarned
    BY DEF ScoresAreEarned
  <2>1. "bakeoff" \in DOMAIN Asked
    BY DEF BakeoffInv, WayInv
  <2>2. ASSUME judgement.ok
        PROVE  /\ \A i \in DOMAIN judgement.claims :
                    judgement.claims[i] <=>
                      \E k \in DOMAIN judgement.raw.claims :
                        /\ judgement.raw.claims[k] = <<i - 1, "true">>
                        /\ \A l \in (k + 1)..Len(judgement.raw.claims) :
                             judgement.raw.claims[l][1] # i - 1
               /\ \A i \in DOMAIN judgement.citations :
                    judgement.citations[i] <=>
                      \E k \in DOMAIN judgement.raw.citations :
                        /\ judgement.raw.citations[k] = <<i - 1, "true">>
                        /\ \A l \in (k + 1)..Len(judgement.raw.citations) :
                             judgement.raw.citations[l][1] # i - 1
    <3>1. PICK reply \in JudgeReplies, out \in Outputs : judgement = ParseJudgeOutput(reply, out)
      BY <2>2 DEF BakeoffInv, JudgementInv, NoJudgement
    <3> DEFINE n == Len(out.claims)
               c == Len(out.citations)
    <3>2. /\ reply.object
          /\ judgement.claims = Credits(reply.claims, n)
          /\ judgement.citations = Credits(reply.citations, c)
          /\ judgement.raw = reply
      <4>1. reply.object
        BY <2>2, <3>1 DEF ParseJudgeOutput
      <4>2. judgement = [ok |-> TRUE, claims |-> Credits(reply.claims, n),
                         citations |-> Credits(reply.citations, c), raw |-> reply]
        BY <3>1, <4>1 DEF ParseJudgeOutput
      <4> HIDE DEF n, c
      <4> QED
        BY ONLY <4>1, <4>2
    <3>3. reply.claims \in Seq(Int \X STRING) /\ reply.citations \in Seq(Int \X STRING)
      BY <3>2, ModelsAssumption
    <3>4. n \in Nat /\ c \in Nat
      <4>1. /\ out.claims \in Seq(Nat)
            /\ out.citations \in Seq([video : Videos, start : Int, end : Int, claim : Int])
        BY DEF Outputs
      <4> QED
        BY ONLY <4>1
    <3> HIDE DEF n, c
    <3>5. \A i \in DOMAIN Credits(reply.claims, n) :
            Credits(reply.claims, n)[i] <=>
              \E k \in DOMAIN reply.claims :
                /\ reply.claims[k] = <<i - 1, "true">>
                /\ \A l \in (k + 1)..Len(reply.claims) : reply.claims[l][1] # i - 1
      BY <3>3, <3>4, CreditedByLastWord, Zenon
    <3>6. \A i \in DOMAIN Credits(reply.citations, c) :
            Credits(reply.citations, c)[i] <=>
              \E k \in DOMAIN reply.citations :
                /\ reply.citations[k] = <<i - 1, "true">>
                /\ \A l \in (k + 1)..Len(reply.citations) : reply.citations[l][1] # i - 1
      BY <3>3, <3>4, CreditedByLastWord, Zenon
    <3> QED
      BY <3>2, <3>5, <3>6, Zenon
  <2>3. result # NotYet <=> stage = "done"
    BY DEF BakeoffInv, ResultInv, NotYet
  <2>4. ASSUME stage = "done"
        PROVE  LET judgeable == {i \in DOMAIN rows : rows[i].judgeable}
                   judged == {i \in DOMAIN rows : rows[i].judged}
                   unread == {i \in DOMAIN rows : ~rows[i].parse_ok}
                   answered == {i \in DOMAIN refusals : ~refusals[i].abstain}
                   slow == {i \in DOMAIN rows : rows[i].latency > result.scores.p95}
               IN /\ [i \in DOMAIN rows |-> rows[i].question]
                       \o [i \in DOMAIN refusals |-> refusals[i].question] = Asked["bakeoff"]
                  /\ \A i \in DOMAIN rows : rows[i].question.kind = "gold"
                  /\ \A i \in DOMAIN refusals : refusals[i].question.kind = "negative"
                  /\ judged \subseteq judgeable
                  /\ result.scores.judge_failures = Cardinality(judgeable \ judged)
                  /\ {i \in DOMAIN rows : rows[i].claims # NoFraction} = judged
                  /\ result.scores.grounded # NoFraction =>
                       result.scores.grounded[2] = Cardinality(judged)
                  /\ rows # <<>> =>
                       /\ 20 * Cardinality(slow) <= Len(rows)
                       /\ \E i \in DOMAIN rows : rows[i].latency = result.scores.p95
                  /\ result.meets =>
                       /\ judged # {} /\ result.scores.p95 <= P95Max
                       /\ 50 * Cardinality(unread) <= Len(rows)
                       /\ 10 * Cardinality(answered) <= Len(refusals)
    <3> DEFINE n == Len(rows)
               m == Len(refusals)
               s == GeneratorSummary(rows, refusals)
               judgeable == {i \in 1..n : rows[i].judgeable}
               judged == {i \in 1..n : rows[i].judged}
               unread == {i \in 1..n : ~rows[i].parse_ok}
               answered == {i \in 1..m : ~refusals[i].abstain}
               slow == {i \in 1..n : rows[i].latency > s.p95}
    <3>1. /\ Records(rows, n) /\ Records(refusals, m)
          /\ OnTrack(rows, n, refusals, m, todo, 0, 0)
      BY <2>4 DEF BakeoffInv, RecordsInv, Owed
    <3>2. DOMAIN rows = 1..n /\ DOMAIN refusals = 1..m /\ n \in Nat /\ m \in Nat
      BY <3>1 DEF Records
    <3>3. /\ [i \in DOMAIN rows |-> rows[i].question]
               \o [i \in DOMAIN refusals |-> refusals[i].question] = Asked["bakeoff"]
          /\ \A i \in DOMAIN rows : rows[i].question.kind = "gold"
          /\ \A i \in DOMAIN refusals : refusals[i].question.kind = "negative"
      <4>1. [i \in DOMAIN rows |-> rows[i].question]
               \o [i \in DOMAIN refusals |-> refusals[i].question] = Exam
        BY <2>1, <3>1, QuestionsInOrder
      <4> QED
        BY <3>1, <3>2, <4>1 DEF OnTrack, Exam
    <3>4. result.scores = s /\ result.meets = CheckMinimums(s, P95Max)
      BY <2>4 DEF BakeoffInv, ResultInv
    <3>5. /\ judged \subseteq judgeable
          /\ s.judge_failures = Cardinality(judgeable \ judged)
          /\ {i \in 1..n : rows[i].claims # NoFraction} = judged
          /\ s.grounded # NoFraction => s.grounded[2] = Cardinality(judged)
          /\ n # 0 => /\ 20 * Cardinality(slow) <= n
                      /\ \E i \in 1..n : rows[i].latency = s.p95
          /\ CheckMinimums(s, P95Max) =>
               /\ judged # {} /\ s.p95 <= P95Max
               /\ 50 * Cardinality(unread) <= n
               /\ 10 * Cardinality(answered) <= m
      BY <3>1, SummaryIs
    <3>6. rows # <<>> => n # 0
      <4>1. rows \in Seq(ToSet(rows))
        BY <3>1 DEF Records
      <4> QED
        BY ONLY <4>1
    <3> HIDE DEF s
    <3> QED
      BY <3>2, <3>3, <3>4, <3>5, <3>6
  <2> QED
    BY <2>2, <2>3, <2>4 DEF ScoresAreEarned
<1> QED
  BY <1>1, AlwaysBakeoffInv, PTL

-----------------------------------------------------------------------------
(***************************************************************************)
(* Sums of lists, as FoldSeq adds them up: in any order.                   *)
(***************************************************************************)

\* Some element of a set, the one the fold takes next.
AnyOf(s) == CHOOSE x \in s : TRUE

\* g adds up val over the sets of indices.
Sums(g, S, val) ==
  g = [s \in SUBSET S |-> IF s = {} THEN 0 ELSE val[AnyOf(s)] + g[s \ {AnyOf(s)}]]

\* The sum a fold defines exists.
LEMMA SumExists ==
  ASSUME NEW n \in Nat, NEW val \in [1..n -> Int]
  PROVE  \E g : Sums(g, 1..n, val)
<1> DEFINE S == 1..n
           c == [s \in SUBSET S |-> AnyOf(s)]
           h == [p \in S \X Int |-> val[p[1]] + p[2]]
<1>1. \A s \in SUBSET S : s # {} => AnyOf(s) \in s
  BY DEF AnyOf
<1>2. Chooses(c, S)
  BY <1>1 DEF Chooses
<1>3. IsFiniteSet(S)
  <2>1. 1 \in Int /\ n \in Int
    OBVIOUS
  <2> QED
    BY ONLY <2>1, FS_Interval
<1>4. h \in [S \X Int -> Int]
  OBVIOUS
<1>5. PICK g \in [SUBSET S -> Int] : FoldsBy(g, S, c, 0, h)
  <2>1. 0 \in Int
    OBVIOUS
  <2> HIDE DEF S, c, h
  <2> QED
    BY ONLY <2>1, <1>2, <1>3, <1>4, FoldExists
<1>6. ASSUME NEW s \in SUBSET S, s # {}  PROVE g[s] = val[AnyOf(s)] + g[s \ {AnyOf(s)}]
  <2>1. g[s] = h[<<c[s], g[s \ {c[s]}]>>] /\ c[s] = AnyOf(s)
    <3> HIDE DEF h
    <3> QED
      BY <1>5, <1>6 DEF FoldsBy
  <2>2. AnyOf(s) \in S /\ s \ {AnyOf(s)} \in SUBSET S
    BY <1>1, <1>6
  <2>3. g[s \ {AnyOf(s)}] \in Int
    BY <2>2
  <2>4. h[<<AnyOf(s), g[s \ {AnyOf(s)}]>>] = val[AnyOf(s)] + g[s \ {AnyOf(s)}]
    BY <2>2, <2>3
  <2> QED
    BY <2>1, <2>4
<1>7. g[{}] = 0
  BY <1>5 DEF FoldsBy
<1>8. g = [s \in SUBSET S |-> g[s]]
  OBVIOUS
<1> QED
  BY <1>6, <1>7, <1>8 DEF Sums

\* The union of some of the sets.
Parts(A, s) == UNION {A[i] : i \in s}

\* The cardinalities of disjoint sets add up to that of their union.
LEMMA SumOfParts ==
  ASSUME NEW n \in Nat, NEW A, \A i \in 1..n : IsFiniteSet(A[i]),
         \A i, j \in 1..n : i # j => A[i] \cap A[j] = {},
         NEW val, \A i \in 1..n : val[i] = Cardinality(A[i]), NEW g, Sums(g, 1..n, val)
  PROVE  IsFiniteSet(Parts(A, 1..n)) /\ g[1..n] = Cardinality(Parts(A, 1..n))
<1> DEFINE Good(s) == IsFiniteSet(Parts(A, s)) /\ g[s] = Cardinality(Parts(A, s))
           T == {k \in Nat : \A s \in SUBSET (1..n) : Cardinality(s) = k => Good(s)}
<1>1. IsFiniteSet(1..n) /\ Cardinality(1..n) = n
  BY ONLY n \in Nat, Intervals
<1>2. \A s \in SUBSET (1..n) : IsFiniteSet(s)
  BY <1>1, FS_Subset
<1>3. 0 \in T
  <2> SUFFICES ASSUME NEW s \in SUBSET (1..n), Cardinality(s) = 0  PROVE Good(s)
    OBVIOUS
  <2>1. s = {}
    BY <1>2, FS_EmptySet
  <2>2. Parts(A, s) = {} /\ g[s] = 0
    BY <2>1 DEF Parts, Sums
  <2> QED
    BY <2>2, FS_EmptySet
<1>4. ASSUME NEW k \in Nat, k \in T  PROVE k + 1 \in T
  <2> SUFFICES ASSUME NEW s \in SUBSET (1..n), Cardinality(s) = k + 1  PROVE Good(s)
    <3> HIDE DEF Good
    <3> QED
      OBVIOUS
  <2> DEFINE x == AnyOf(s)
             r == s \ {x}
  <2>1. s # {}
    <3>1. Cardinality({}) = 0
      BY FS_EmptySet
    <3> QED
      BY ONLY <3>1, k \in Nat, Cardinality(s) = k + 1
  <2>2. x \in s
    BY <2>1 DEF AnyOf
  <2>3. r \in SUBSET (1..n) /\ x \in 1..n /\ x \notin r /\ s = r \cup {x}
    BY <2>2
  <2>4. Cardinality(r) = k
    <3>1. Cardinality(r) = Cardinality(s) - 1
      <4> HIDE DEF x
      <4> QED
        BY ONLY <1>2, <2>2, FS_RemoveElement, s \in SUBSET (1..n)
    <3> QED
      BY <3>1
  <2>5. g[s] = val[x] + g[r]
    BY <2>1 DEF Sums
  <2>6. Good(r)
    BY <1>4, <2>3, <2>4
  <2>7. Parts(A, s) = A[x] \cup Parts(A, r)
    BY <2>3 DEF Parts
  <2>8. A[x] \cap Parts(A, r) = {}
    <3>1. \A i \in r : i \in 1..n /\ i # x
      BY <2>3
    <3> QED
      BY <2>3, <3>1 DEF Parts
  <2>9. IsFiniteSet(A[x]) /\ val[x] = Cardinality(A[x])
    BY <2>3
  <2> HIDE DEF x, r
  <2>10. /\ IsFiniteSet(A[x] \cup Parts(A, r))
         /\ Cardinality(A[x] \cup Parts(A, r))
              = Cardinality(A[x]) + Cardinality(Parts(A, r)) - Cardinality({})
    BY <2>6, <2>8, <2>9, FS_Union
  <2>11. Cardinality(A[x]) \in Nat /\ Cardinality(Parts(A, r)) \in Nat /\ Cardinality({}) = 0
    BY <2>6, <2>9, FS_CardinalityType, FS_EmptySet
  <2> QED
    BY <2>5, <2>6, <2>7, <2>9, <2>10, <2>11
<1>5. n \in T
  <2> HIDE DEF T
  <2> QED
    BY <1>3, <1>4, NatSetInduction
<1> QED
  BY <1>1, <1>5

-----------------------------------------------------------------------------
(***************************************************************************)
(* Merged intervals.                                                       *)
(***************************************************************************)

Spans == {s \in [start : Int, end : Int] : s.start < s.end}

\* The order MergeIntervals sorts by.
EarlierSpan(a, b) == a.start < b.start \/ (a.start = b.start /\ a.end < b.end)

\* The pairs of positions of which the first sorts first.
SortsFirst(list, n) ==
  {p \in (1..n) \X (1..n) :
     \/ EarlierSpan(list[p[1]], list[p[2]])
     \/ ~EarlierSpan(list[p[2]], list[p[1]]) /\ p[1] < p[2]}

\* It is an order.
LEMMA SpansOrdered ==
  ASSUME NEW n \in Nat, NEW list \in [1..n -> Spans]
  PROVE  Orders(SortsFirst(list, n), 1..n)
<1> DEFINE a == [i \in 1..n |-> list[i].start]
           b == [i \in 1..n |-> list[i].end]
           Before(i, j) ==
             \/ a[i] < a[j] \/ (a[i] = a[j] /\ b[i] < b[j])
             \/ ~(a[j] < a[i] \/ (a[j] = a[i] /\ b[j] < b[i])) /\ i < j
<1>1. \A i \in 1..n : list[i].start = a[i] /\ list[i].end = b[i]
  OBVIOUS
<1>2. a \in [1..n -> Int] /\ b \in [1..n -> Int]
  BY DEF Spans
<1> HIDE DEF a, b
<1>3. \A i, j \in 1..n : <<i, j>> \in SortsFirst(list, n) <=> Before(i, j)
  BY <1>1 DEF SortsFirst, EarlierSpan
<1>4. \A i \in 1..n : i \in Int /\ a[i] \in Int /\ b[i] \in Int
  BY <1>2
<1>5. \A i \in 1..n : ~Before(i, i)
  BY <1>4
<1>6. \A i, j \in 1..n : i = j \/ Before(i, j) \/ Before(j, i)
  BY <1>4
<1>7. \A i, j, k \in 1..n : Before(i, j) /\ Before(j, k) => Before(i, k)
  BY <1>4
<1> HIDE DEF Before
<1> QED
  BY <1>3, <1>5, <1>6, <1>7 DEF Orders

\* out has the spans of list, by their starts.
SortedSpans(out, list, n) ==
  /\ DOMAIN out = 1..n /\ out \in [1..n -> Spans]
  /\ \A k \in 1..n : \E i \in 1..n : out[k] = list[i]
  /\ \A i \in 1..n : \E k \in 1..n : out[k] = list[i]
  /\ \A j, k \in 1..n : j < k => out[j].start <= out[k].start

\* Sorting does so.
LEMMA SpansAreSorted ==
  ASSUME NEW n \in Nat, NEW list \in [1..n -> Spans]
  PROVE  SortedSpans(Sorted(list, EarlierSpan), list, n)
<1> DEFINE R == SortsFirst(list, n)
           place == Ordered(1..n, R)
           out == Sorted(list, EarlierSpan)
<1>1. IsFiniteSet(1..n) /\ Cardinality(1..n) = n
  BY ONLY n \in Nat, Intervals
<1>2. Sorts(place, 1..n, R)
  BY ONLY <1>1, SpansOrdered, OrderedSorts, n \in Nat, list \in [1..n -> Spans]
<1>3. out = [k \in 1..n |-> list[place[k]]]
  <2>1. DOMAIN list = 1..n
    OBVIOUS
  <2> QED
    BY <2>1 DEF Sorted, SortsFirst
<1> HIDE DEF place, out
<1>4. /\ place \in [1..n -> 1..n] /\ \A i \in 1..n : \E k \in 1..n : place[k] = i
      /\ \A j, k \in 1..n : j < k => <<place[j], place[k]>> \in R
  BY <1>1, <1>2 DEF Sorts
<1>5. \A i, j \in 1..n : <<i, j>> \in R => list[i].start <= list[j].start
  <2> SUFFICES ASSUME NEW i \in 1..n, NEW j \in 1..n, <<i, j>> \in R
               PROVE  list[i].start <= list[j].start
    OBVIOUS
  <2>1. list[i].start \in Int /\ list[j].start \in Int /\ list[i].end \in Int /\ list[j].end \in Int
    BY DEF Spans
  <2>2. EarlierSpan(list[i], list[j]) \/ ~EarlierSpan(list[j], list[i])
    BY DEF SortsFirst
  <2> QED
    BY <2>1, <2>2 DEF EarlierSpan
<1> HIDE DEF R
<1>6. \A j, k \in 1..n : j < k => out[j].start <= out[k].start
  BY <1>3, <1>4, <1>5
<1>7. out \in [1..n -> Spans] /\ \A k \in 1..n : out[k] = list[place[k]] /\ place[k] \in 1..n
  BY <1>3, <1>4
<1>8. \A i \in 1..n : \E k \in 1..n : out[k] = list[i]
  BY <1>4, <1>7
<1>9. SortedSpans(out, list, n)
  BY <1>6, <1>7, <1>8 DEF SortedSpans
<1> QED
  BY <1>9 DEF out

\* What MergeIntervals makes of one more interval.
Extended(merged, s) ==
  IF merged # <<>> /\ s.start <= Last(merged).end
  THEN [merged EXCEPT ![Len(merged)].end = Larger(@, s.end)]
  ELSE Append(merged, s)

\* The last interval reaches further, or there is one more.
Extension(out, m, s) ==
  LET l == Len(m) IN
  /\ out \in Seq(Spans)
  /\ \/ /\ l # 0 /\ s.start <= m[l].end /\ Len(out) = l
        /\ \A i \in 1..(l - 1) : out[i] = m[i]
        /\ out[l].start = m[l].start
        /\ out[l].end = IF m[l].end > s.end THEN m[l].end ELSE s.end
     \/ /\ l = 0 \/ s.start > m[l].end
        /\ Len(out) = l + 1
        /\ \A i \in 1..l : out[i] = m[i]
        /\ out[l + 1] = s

\* One of the two it is.
LEMMA ExtendedIs ==
  ASSUME NEW m \in Seq(Spans), NEW s \in Spans
  PROVE  Extension(Extended(m, s), m, s)
<1> DEFINE l == Len(m)
           out == Extended(m, s)
<1>1. l \in Nat /\ DOMAIN m = 1..l /\ (m # <<>> <=> l # 0)
  OBVIOUS
<1>2. \A i \in 1..l : m[i] \in Spans
  BY <1>1, Elements
<1>3. CASE l # 0 /\ s.start <= m[l].end
  <2> DEFINE e == IF m[l].end > s.end THEN m[l].end ELSE s.end
             x == [m[l] EXCEPT !.end = e]
  <2>1. Last(m) = m[l]
    BY DEF Last
  <2>2. out = [m EXCEPT ![l] = x]
    BY <1>1, <1>3, <2>1 DEF Extended, Larger
  <2>3. l \in 1..l /\ m[l] \in Spans
    BY <1>1, <1>2, <1>3
  <2>4. x \in Spans /\ x.start = m[l].start /\ x.end = e
    BY <2>3 DEF Spans
  <2> HIDE DEF x, out
  <2>5. out \in Seq(Spans) /\ Len(out) = l /\ out[l] = x /\ \A i \in 1..(l - 1) : out[i] = m[i]
    <3>1. out = [i \in 1..l |-> IF i = l THEN x ELSE m[i]]
      BY <1>1, <2>2
    <3>2. \A i \in 1..l : out[i] \in Spans
      BY <1>2, <2>4, <3>1
    <3>3. out \in [1..l -> Spans]
      BY <3>1, <3>2
    <3>4. out \in Seq(Spans) /\ Len(out) = l
      BY ONLY <1>1, <3>3
    <3> QED
      <4> HIDE DEF l
      <4>1. l \in 1..l /\ \A i \in 1..(l - 1) : i \in 1..l /\ i # l
        BY ONLY <1>1, <1>3
      <4>2. out[l] = x /\ \A i \in 1..(l - 1) : out[i] = m[i]
        BY ONLY <3>1, <4>1
      <4> QED
        BY <3>4, <4>2
  <2>6. Extension(out, m, s)
    BY <1>3, <2>4, <2>5 DEF Extension
  <2> QED
    BY <2>6 DEF out
<1>4. CASE ~(l # 0 /\ s.start <= m[l].end)
  <2>1. out = Append(m, s)
    <3>1. CASE l = 0
      BY <1>1, <3>1 DEF Extended
    <3>2. CASE l # 0 /\ ~(s.start <= m[l].end)
      BY <3>2 DEF Extended, Last
    <3> QED
      BY <1>4, <3>1, <3>2
  <2>2. out \in Seq(Spans) /\ Len(out) = l + 1 /\ out[l + 1] = s /\ \A i \in 1..l : out[i] = m[i]
    <3> HIDE DEF out
    <3> QED
      BY <1>1, <2>1
  <2>3. l = 0 \/ s.start > m[l].end
    <3>1. CASE l = 0
      BY <3>1
    <3>2. CASE l # 0
      <4>1. l \in 1..l /\ s.start \in Int
        BY <1>1, <3>2 DEF Spans
      <4>2. m[l].end \in Int
        BY <1>2, <4>1 DEF Spans
      <4> QED
        BY <1>4, <3>2, <4>1, <4>2
    <3> QED
      BY <3>1, <3>2
  <2> HIDE DEF out
  <2>4. Extension(out, m, s)
    BY <2>2, <2>3 DEF Extension
  <2> QED
    BY <2>4 DEF out
<1> QED
  BY <1>3, <1>4

\* f[k] is what the first k of the intervals sp make.
Merges(f, sp, n) ==
  f[0] = <<>> /\ \A k \in 1..n : f[k] \in Seq(Spans) /\ Extension(f[k], f[k - 1], sp[k])

\* MergeIntervals takes the intervals one after the other.
LEMMA MergeSteps ==
  ASSUME NEW n \in Nat, NEW list \in [1..n -> Spans]
  PROVE  \E sp, f : /\ SortedSpans(sp, list, n) /\ Merges(f, sp, n)
                    /\ f[n] = MergeIntervals(list)
<1> DEFINE V == Seq(Spans)
           base == <<>>
           sp == Sorted(list, EarlierSpan)
           S == DOMAIN sp
           h == [p \in S \X V |-> Extended(p[2], sp[p[1]])]
           c == [s \in SUBSET S |-> Max(s)]
           Eq(it) == it = [s \in SUBSET S |-> IF s = {} THEN base
                                              ELSE Extended(it[s \ {Max(s)}], sp[Max(s)])]
           it == CHOOSE g : Eq(g)
<1>1. MergeIntervals(list) = it[S]
  BY DEF MergeIntervals, FoldLeft, MapThenFoldSet, Extended, EarlierSpan
<1>0. SortedSpans(sp, list, n)
  BY ONLY n \in Nat, list \in [1..n -> Spans], SpansAreSorted
<1> HIDE DEF sp
<1>2. S = 1..n /\ base \in V /\ \A k \in S : sp[k] \in Spans
  BY <1>0 DEF SortedSpans
<1>3. ASSUME NEW v \in V, NEW k \in S
      PROVE  Extended(v, sp[k]) \in V /\ Extension(Extended(v, sp[k]), v, sp[k])
  <2>1. sp[k] \in Spans
    BY <1>2
  <2>2. Extension(Extended(v, sp[k]), v, sp[k])
    BY ONLY <2>1, ExtendedIs, v \in Seq(Spans)
  <2> QED
    BY <2>2 DEF Extension
<1> HIDE DEF V, base
<1>a. h \in [S \X V -> V]
  BY <1>3
<1>4. \A k \in S, v \in V : h[<<k, v>>] = Extended(v, sp[k])
  OBVIOUS
<1>5. IsFiniteSet(S)
  BY ONLY <1>2, FS_Interval, \A x \in Nat : x \in Int, 1 \in Int, n \in Nat
<1>6. \A s \in SUBSET S : s # {} => Max(s) \in s
  <2> HIDE DEF S
  <2> QED
    BY ONLY <1>2, MaxIsOfSet, n \in Nat
<1>7. Chooses(c, S)
  BY <1>6 DEF Chooses
<1>8. PICK g \in [SUBSET S -> V] : FoldsBy(g, S, c, base, h)
  <2> HIDE DEF c, h, S, it, Eq
  <2> QED
    BY ONLY <1>2, <1>a, <1>5, <1>7, FoldExists
<1>9. Eq(g)
  <2>1. ASSUME NEW s \in SUBSET S, s # {}
        PROVE  g[s] = Extended(g[s \ {Max(s)}], sp[Max(s)])
    <3>1. c[s] = Max(s) /\ Max(s) \in S /\ s \ {Max(s)} \in SUBSET S
      BY <1>6, <2>1
    <3>2. g[s \ {Max(s)}] \in V
      BY <3>1
    <3> HIDE DEF h, c
    <3> QED
      BY <1>4, <1>8, <2>1, <3>1, <3>2 DEF FoldsBy
  <2>2. g[{}] = base
    BY <1>8 DEF FoldsBy
  <2>3. g = [s \in SUBSET S |-> g[s]]
    OBVIOUS
  <2> QED
    BY <2>1, <2>2, <2>3
<1>10. Eq(it)
  <2> HIDE DEF Eq
  <2> QED
    BY <1>9
<1> HIDE DEF it
<1>11. it[{}] = base /\ \A s \in SUBSET S : s # {} => it[s] = Extended(it[s \ {Max(s)}], sp[Max(s)])
  <2>1. \A s \in SUBSET S : it[s] = IF s = {} THEN base ELSE Extended(it[s \ {Max(s)}], sp[Max(s)])
    BY <1>10
  <2> QED
    BY <2>1
<1>12. TakesMax(it, n, V, base, h)
  <2> HIDE DEF h
  <2> QED
    BY <1>2, <1>4, <1>6, <1>11 DEF TakesMax
<1> HIDE DEF h
<1>14. PICK f \in [0..n -> V] : f[n] = it[1..n] /\ GoesUp(f, n, base, h)
  <2>1. h \in [(1..n) \X V -> V]
    BY <1>a, <1>2
  <2>2. base \in V
    BY <1>2
  <2> HIDE DEF S, c, Eq
  <2> QED
    BY ONLY <2>1, <2>2, <1>12, FoldGoesUp, n \in Nat
<1>15. \A k \in 1..n : f[k] \in V /\ Extension(f[k], f[k - 1], sp[k])
  <2> SUFFICES ASSUME NEW k \in 1..n
               PROVE  f[k] \in V /\ Extension(f[k], f[k - 1], sp[k])
    OBVIOUS
  <2>1. k - 1 \in 0..n /\ k \in 0..n /\ k \in S
    BY ONLY <1>2, n \in Nat, k \in 1..n
  <2>2. f[k] = Extended(f[k - 1], sp[k]) /\ f[k - 1] \in V /\ f[k] \in V
    BY <1>4, <1>14, <2>1 DEF GoesUp
  <2> QED
    BY <1>3, <2>1, <2>2
<1>16. f[n] = MergeIntervals(list)
  BY <1>1, <1>2, <1>14
<1>17. Merges(f, sp, n)
  BY <1>14, <1>15 DEF Merges, GoesUp, V, base
<1> QED
  BY <1>0, <1>16, <1>17

\* A second lies within one of the first n intervals.
Within(list, n, x) == \E i \in 1..n : list[i].start <= x /\ x < list[i].end

\* m is what the first k of the intervals sp make: apart, and over the same
\* seconds.
Merged(m, sp, k) ==
  /\ m \in Seq(Spans) /\ Len(m) \in Nat
  /\ \A i, j \in 1..Len(m) : i < j => m[i].end < m[j].start
  /\ \A x \in Int : Within(m, Len(m), x) <=> Within(sp, k, x)
  /\ k # 0 => Len(m) # 0 /\ m[Len(m)].start <= sp[k].start

\* Spans have whole seconds, and one at least.
LEMMA SpanFacts ==
  ASSUME NEW s \in Spans
  PROVE  s.start \in Int /\ s.end \in Int /\ s.start < s.end
  BY DEF Spans

\* One more interval leaves them apart, and adds its seconds.
LEMMA MergeKeeps ==
  ASSUME NEW k \in Nat, NEW sp, \A i \in 1..(k + 1) : sp[i] \in Spans,
         k # 0 => sp[k].start <= sp[k + 1].start,
         NEW m, Merged(m, sp, k), NEW out, Extension(out, m, sp[k + 1])
  PROVE  Merged(out, sp, k + 1)
<1> DEFINE l == Len(m)
           s == sp[k + 1]
           o == Len(out)
<1>1. l \in Nat /\ m \in Seq(Spans) /\ out \in Seq(Spans) /\ s \in Spans
  BY DEF Merged, Extension
<1>2. \A i \in 1..l : m[i] \in Spans /\ m[i].start \in Int /\ m[i].end \in Int /\ m[i].start < m[i].end
  <2>1. \A i \in 1..l : m[i] \in Spans
    <3>1. DOMAIN m = 1..l
      BY <1>1
    <3> QED
      BY <1>1, <3>1, Elements
  <2> QED
    BY <2>1, SpanFacts
<1>3. s.start \in Int /\ s.end \in Int /\ s.start < s.end
  BY <1>1, SpanFacts
<1>4. \A i, j \in 1..l : i < j => m[i].end < m[j].start
  BY DEF Merged
<1>5. k # 0 => l # 0 /\ m[l].start <= s.start
  <2>1. k # 0 => l # 0 /\ m[l].start <= sp[k].start
    BY DEF Merged
  <2>2. ASSUME k # 0  PROVE m[l].start <= s.start
    <3>1. l \in 1..l /\ k \in 1..(k + 1)
      BY <1>1, <2>1, <2>2
    <3>2. sp[k].start \in Int /\ m[l].start \in Int
      BY <1>2, <3>1, SpanFacts
    <3> QED
      BY <1>3, <2>1, <2>2, <3>2
  <2> QED
    BY <2>1, <2>2
<1>6. \A x \in Int : Within(sp, k + 1, x) <=> Within(sp, k, x) \/ (s.start <= x /\ x < s.end)
  <2>1. \A i : i \in 1..(k + 1) <=> i \in 1..k \/ i = k + 1
    OBVIOUS
  <2> QED
    BY <2>1 DEF Within
<1>7. \A x \in Int : Within(m, l, x) <=> Within(sp, k, x)
  BY DEF Merged
<1> HIDE DEF l, s, o
<1>8. CASE /\ l # 0 /\ s.start <= m[l].end /\ o = l
           /\ \A i \in 1..(l - 1) : out[i] = m[i]
           /\ out[l].start = m[l].start
           /\ out[l].end = IF m[l].end > s.end THEN m[l].end ELSE s.end
  <2>1. l \in 1..l /\ \A i : i \in 1..l <=> i \in 1..(l - 1) \/ i = l
    BY <1>1, <1>8
  <2>2. m[l].start <= s.start
    <3>1. CASE k # 0
      BY <1>5, <3>1
    <3>2. CASE k = 0
      <4>1. ~Within(sp, k, m[l].start)
        BY <3>2 DEF Within
      <4>2. Within(m, l, m[l].start)
        BY <1>2, <2>1 DEF Within
      <4>3. m[l].start \in Int
        BY <1>2, <2>1
      <4> QED
        BY <1>7, <4>1, <4>2, <4>3
    <3> QED
      BY <3>1, <3>2
  <2>3. \A x \in Int : out[l].start <= x /\ x < out[l].end <=>
          (m[l].start <= x /\ x < m[l].end) \/ (s.start <= x /\ x < s.end)
    <3>1. m[l].start \in Int /\ m[l].end \in Int /\ m[l].start < m[l].end
      BY <1>2, <2>1
    <3>2. /\ out[l].start = m[l].start
          /\ out[l].end = IF m[l].end > s.end THEN m[l].end ELSE s.end
          /\ s.start <= m[l].end
      BY <1>8
    <3> QED
      BY ONLY <1>3, <2>2, <3>1, <3>2
  <2>4. \A x \in Int : Within(out, l, x) <=> Within(m, l, x) \/ (s.start <= x /\ x < s.end)
    <3> SUFFICES ASSUME NEW x \in Int
                 PROVE  Within(out, l, x) <=> Within(m, l, x) \/ (s.start <= x /\ x < s.end)
      OBVIOUS
    <3>1. Within(out, l, x) <=> \/ \E i \in 1..(l - 1) : out[i].start <= x /\ x < out[i].end
                                \/ out[l].start <= x /\ x < out[l].end
      BY <2>1 DEF Within
    <3>2. Within(m, l, x) <=> \/ \E i \in 1..(l - 1) : m[i].start <= x /\ x < m[i].end
                              \/ m[l].start <= x /\ x < m[l].end
      BY <2>1 DEF Within
    <3>3. (\E i \in 1..(l - 1) : out[i].start <= x /\ x < out[i].end)
            <=> (\E i \in 1..(l - 1) : m[i].start <= x /\ x < m[i].end)
      BY <1>8
    <3> QED
      BY <2>3, <3>1, <3>2, <3>3
  <2>5. \A i, j \in 1..l : i < j => out[i].end < out[j].start
    <3> SUFFICES ASSUME NEW i \in 1..l, NEW j \in 1..l, i < j  PROVE out[i].end < out[j].start
      OBVIOUS
    <3>1. i \in 1..(l - 1) /\ out[i] = m[i]
      BY <1>1, <1>8
    <3>2. out[j].start = m[j].start
      BY <1>8, <2>1
    <3> QED
      BY <1>4, <3>1, <3>2
  <2>6. \A x \in Int : Within(out, o, x) <=> Within(sp, k + 1, x)
    BY <1>6, <1>7, <1>8, <2>4
  <2>7. o # 0 /\ o \in Nat /\ out[o].start <= s.start
    BY <1>1, <1>8, <2>2
  <2>8. \A i, j \in 1..o : i < j => out[i].end < out[j].start
    BY <1>8, <2>5
  <2> QED
    BY <1>1, <2>6, <2>7, <2>8 DEF Merged, o, s
<1>9. CASE /\ l = 0 \/ s.start > m[l].end
           /\ o = l + 1
           /\ \A i \in 1..l : out[i] = m[i]
           /\ out[l + 1] = s
  <2>1. l + 1 \in 1..(l + 1) /\ \A i : i \in 1..(l + 1) <=> i \in 1..l \/ i = l + 1
    BY <1>1
  <2>4. \A x \in Int : Within(out, l + 1, x) <=> Within(m, l, x) \/ (s.start <= x /\ x < s.end)
    <3> SUFFICES ASSUME NEW x \in Int
                 PROVE  Within(out, l + 1, x) <=> Within(m, l, x) \/ (s.start <= x /\ x < s.end)
      OBVIOUS
    <3>1. Within(out, l + 1, x) <=> \/ \E i \in 1..l : out[i].start <= x /\ x < out[i].end
                                    \/ out[l + 1].start <= x /\ x < out[l + 1].end
      BY <2>1 DEF Within
    <3>2. (\E i \in 1..l : out[i].start <= x /\ x < out[i].end) <=> Within(m, l, x)
      BY <1>9 DEF Within
    <3> QED
      BY <1>9, <3>1, <3>2
  <2>5. \A i, j \in 1..(l + 1) : i < j => out[i].end < out[j].start
    <3> SUFFICES ASSUME NEW i \in 1..(l + 1), NEW j \in 1..(l + 1), i < j
                 PROVE  out[i].end < out[j].start
      OBVIOUS
    <3>1. i \in 1..l /\ out[i] = m[i] /\ m[i].end \in Int
      <4>1. i \in 1..l
        BY <1>1
      <4> QED
        BY <1>2, <1>9, <4>1
    <3>2. CASE j \in 1..l
      BY <1>4, <1>9, <3>1, <3>2
    <3>3. CASE j = l + 1
      <4>1. l \in 1..l /\ l # 0
        BY <1>1, <3>1
      <4>2. m[l].end \in Int /\ m[l].start \in Int /\ m[l].start < m[l].end /\ s.start > m[l].end
        BY <1>2, <1>9, <4>1
      <4>3. CASE i = l
        BY <1>3, <1>9, <3>1, <3>3, <4>2, <4>3
      <4>4. CASE i < l
        <5>1. m[i].end < m[l].start
          BY <1>4, <3>1, <4>1, <4>4
        <5>2. m[i].end < s.start
          BY ONLY <1>3, <3>1, <4>2, <5>1
        <5> QED
          BY <1>9, <3>1, <3>3, <5>2
      <4>5. i = l \/ i < l
        BY <1>1, <3>1
      <4> QED
        BY <4>3, <4>4, <4>5
    <3> QED
      BY <2>1, <3>2, <3>3
  <2>6. \A x \in Int : Within(out, o, x) <=> Within(sp, k + 1, x)
    BY <1>6, <1>7, <1>9, <2>4
  <2>7. o # 0 /\ o \in Nat /\ out[o].start <= s.start
    BY <1>1, <1>3, <1>9
  <2>8. \A i, j \in 1..o : i < j => out[i].end < out[j].start
    BY <1>9, <2>5
  <2> QED
    BY <1>1, <2>6, <2>7, <2>8 DEF Merged, o, s
<1> QED
  BY <1>8, <1>9 DEF Extension, l, o, s

\* Merged intervals are apart, and over the seconds of those they were merged
\* from.
Disjoint(m, list, n) ==
  /\ m \in Seq(Spans) /\ Len(m) \in Nat
  /\ \A i, j \in 1..Len(m) : i < j => m[i].end < m[j].start
  /\ \A x \in Int : Within(m, Len(m), x) <=> Within(list, n, x)

\* So is what MergeIntervals returns.
LEMMA MergedIs ==
  ASSUME NEW n \in Nat, NEW list \in [1..n -> Spans]
  PROVE  Disjoint(MergeIntervals(list), list, n)
<1>1. PICK sp, f : /\ SortedSpans(sp, list, n) /\ Merges(f, sp, n)
                   /\ f[n] = MergeIntervals(list)
  BY MergeSteps
<1> DEFINE T == {k \in 0..n : Merged(f[k], sp, k)}
<1>2. 0 \in T
  <2>1. f[0] = <<>>
    BY <1>1 DEF Merges
  <2>2. f[0] \in Seq(Spans) /\ Len(f[0]) = 0
    BY <2>1
  <2>3. 1..0 = {}
    OBVIOUS
  <2>4. Merged(f[0], sp, 0)
    BY <2>2, <2>3 DEF Merged, Within
  <2> QED
    BY <2>4
<1>3. ASSUME NEW k \in 0..(n - 1), k \in T  PROVE k + 1 \in T
  <2>1. k \in Nat /\ k + 1 \in 1..n /\ (k + 1) - 1 = k /\ k + 1 \in 0..n
    OBVIOUS
  <2>2. \A i \in 1..(k + 1) : sp[i] \in Spans
    <3>1. \A i \in 1..(k + 1) : i \in 1..n
      BY <2>1
    <3> QED
      BY <1>1, <3>1 DEF SortedSpans
  <2>3. k # 0 => sp[k].start <= sp[k + 1].start
    <3>1. k # 0 => k \in 1..n /\ k < k + 1
      BY <2>1
    <3> QED
      BY <1>1, <2>1, <3>1 DEF SortedSpans
  <2>4. Extension(f[k + 1], f[k], sp[k + 1])
    <3>1. Extension(f[k + 1], f[(k + 1) - 1], sp[k + 1])
      BY <1>1, <2>1 DEF Merges
    <3> QED
      BY <2>1, <3>1
  <2>5. Merged(f[k], sp, k)
    BY <1>3
  <2>6. Merged(f[k + 1], sp, k + 1)
    BY ONLY <2>1, <2>2, <2>3, <2>4, <2>5, MergeKeeps
  <2> QED
    BY <2>1, <2>6
<1>4. 0..n \subseteq T
  <2> HIDE DEF T
  <2> QED
    BY ONLY <1>2, <1>3, UpTo, n \in Nat
<1>5. Merged(MergeIntervals(list), sp, n)
  BY <1>1, <1>4
<1>6. \A x \in Int : Within(sp, n, x) <=> Within(list, n, x)
  BY <1>1 DEF SortedSpans, Within
<1> QED
  BY <1>5, <1>6 DEF Merged, Disjoint

-----------------------------------------------------------------------------
(***************************************************************************)
(* The region IoU.                                                         *)
(***************************************************************************)

\* The sums of RegionIouAtK.
Covering(merged) == FoldSeq(LAMBDA s, sum : (s.end - s.start) + sum, 0, merged)
Sharing(merged, gold) == FoldSeq(LAMBDA s, sum : Shared(s, gold) + sum, 0, merged)

\* A sum of RegionIouAtK adds up val.
AddsUp(sum, merged, val) == \E g : Sums(g, 1..Len(merged), val) /\ sum = g[1..Len(merged)]

\* The lengths of the intervals.
Lengths(merged) == [i \in 1..Len(merged) |-> merged[i].end - merged[i].start]

\* What each shares with the gold span.
Shares(merged, gold) == [i \in 1..Len(merged) |-> Shared(merged[i], gold)]

\* The first adds up the lengths.
LEMMA CoveringAddsUp ==
  ASSUME NEW m \in Seq(Spans)
  PROVE  AddsUp(Covering(m), m, Lengths(m))
<1> DEFINE n == Len(m)
           val == Lengths(m)
           Eq(it) == it = [s \in SUBSET (DOMAIN m) |->
                             IF s = {} THEN 0
                             ELSE (m[CHOOSE x \in s : TRUE].end - m[CHOOSE x \in s : TRUE].start)
                                    + it[s \ {CHOOSE x \in s : TRUE}]]
           it == CHOOSE g : Eq(g)
<1>1. Covering(m) = it[DOMAIN m]
  BY DEF Covering, FoldSeq, FoldFunction, FoldFunctionOnSet, MapThenFoldSet
<1>2. n \in Nat /\ DOMAIN m = 1..n /\ \A i \in 1..n : m[i] \in Spans
  <2>1. n \in Nat /\ DOMAIN m = 1..n
    OBVIOUS
  <2> QED
    BY <2>1, Elements
<1>3. \A i \in 1..n : val[i] = m[i].end - m[i].start
  BY DEF Lengths
<1>4. val \in [1..n -> Int]
  <2>1. \A i \in 1..n : m[i].end - m[i].start \in Int
    BY <1>2 DEF Spans
  <2> QED
    BY <2>1 DEF Lengths
<1>5. ASSUME NEW g  PROVE Eq(g) <=> Sums(g, 1..n, val)
  <2>1. \A s \in SUBSET (1..n) : s # {} => AnyOf(s) \in 1..n
    BY DEF AnyOf
  <2>2. \A s \in SUBSET (1..n) : s # {} => m[AnyOf(s)].end - m[AnyOf(s)].start = val[AnyOf(s)]
    BY <1>3, <2>1
  <2>3. Eq(g) <=> g = [s \in SUBSET (1..n) |->
                         IF s = {} THEN 0
                         ELSE (m[AnyOf(s)].end - m[AnyOf(s)].start) + g[s \ {AnyOf(s)}]]
    BY <1>2 DEF AnyOf
  <2> HIDE DEF Eq, val, n
  <2> QED
    BY ONLY <2>2, <2>3 DEF Sums
<1>6. \E g : Eq(g)
  <2> HIDE DEF val, Eq
  <2> QED
    BY ONLY <1>2, <1>4, <1>5, SumExists
<1>7. Eq(it)
  <2> HIDE DEF Eq
  <2> QED
    BY <1>6
<1> HIDE DEF it, Eq
<1> QED
  BY <1>1, <1>2, <1>5, <1>7 DEF AddsUp

\* The second, what is shared.
LEMMA SharingAddsUp ==
  ASSUME NEW m \in Seq(Spans), NEW gold, gold.start \in Int, gold.end \in Int
  PROVE  AddsUp(Sharing(m, gold), m, Shares(m, gold))
<1> DEFINE n == Len(m)
           val == Shares(m, gold)
           Eq(it) == it = [s \in SUBSET (DOMAIN m) |->
                             IF s = {} THEN 0
                             ELSE Shared(m[CHOOSE x \in s : TRUE], gold)
                                    + it[s \ {CHOOSE x \in s : TRUE}]]
           it == CHOOSE g : Eq(g)
<1>1. Sharing(m, gold) = it[DOMAIN m]
  BY DEF Sharing, FoldSeq, FoldFunction, FoldFunctionOnSet, MapThenFoldSet
<1>2. n \in Nat /\ DOMAIN m = 1..n /\ \A i \in 1..n : m[i] \in Spans
  <2>1. n \in Nat /\ DOMAIN m = 1..n
    OBVIOUS
  <2> QED
    BY <2>1, Elements
<1>3. \A i \in 1..n : val[i] = Shared(m[i], gold)
  BY DEF Shares
<1>4. val \in [1..n -> Int]
  <2>1. \A i \in 1..n : Shared(m[i], gold) \in Int
    BY <1>2 DEF Spans, Shared, Larger, Smaller
  <2> QED
    BY <2>1 DEF Shares
<1>5. ASSUME NEW g  PROVE Eq(g) <=> Sums(g, 1..n, val)
  <2>1. \A s \in SUBSET (1..n) : s # {} => AnyOf(s) \in 1..n
    BY DEF AnyOf
  <2>2. \A s \in SUBSET (1..n) : s # {} => Shared(m[AnyOf(s)], gold) = val[AnyOf(s)]
    BY <1>3, <2>1
  <2>3. Eq(g) <=> g = [s \in SUBSET (1..n) |->
                         IF s = {} THEN 0 ELSE Shared(m[AnyOf(s)], gold) + g[s \ {AnyOf(s)}]]
    BY <1>2 DEF AnyOf
  <2> HIDE DEF Eq, val, n
  <2> QED
    BY ONLY <2>2, <2>3 DEF Sums
<1>6. \E g : Eq(g)
  <2> HIDE DEF val, Eq
  <2> QED
    BY ONLY <1>2, <1>4, <1>5, SumExists
<1>7. Eq(it)
  <2> HIDE DEF Eq
  <2> QED
    BY <1>6
<1> HIDE DEF it, Eq
<1> QED
  BY <1>1, <1>2, <1>5, <1>7 DEF AddsUp

\* A span of at least a second.
IsSpan(s) == s.start \in Int /\ s.end \in Int /\ s.start < s.end

\* What two spans share are the seconds in both.
LEMMA SharedCounts ==
  ASSUME NEW a, IsSpan(a), NEW b, IsSpan(b)
  PROVE  /\ IsFiniteSet(Seconds(a)) /\ Cardinality(Seconds(a)) = a.end - a.start
         /\ IsFiniteSet(Seconds(a) \cap Seconds(b))
         /\ Shared(a, b) = Cardinality(Seconds(a) \cap Seconds(b))
         /\ \A x : x \in Seconds(a) <=> x \in Int /\ a.start <= x /\ x < a.end
<1> DEFINE s == a.start
           e == a.end
           t == b.start
           f == b.end
           last == IF e < f THEN e ELSE f
           first == IF s > t THEN s ELSE t
<1>1. s \in Int /\ e \in Int /\ t \in Int /\ f \in Int /\ s < e /\ t < f
  BY DEF IsSpan
<1>2. Seconds(a) = s .. (e - 1) /\ Seconds(b) = t .. (f - 1)
  BY DEF Seconds
<1>3. Shared(a, b) = IF 0 > last - first THEN 0 ELSE last - first
  BY DEF Shared, Larger, Smaller
<1> HIDE DEF s, e, t, f
<1>4. first \in Int /\ last - 1 \in Int /\ last \in Int /\ e - 1 \in Int
  BY <1>1
<1>5. (s .. (e - 1)) \cap (t .. (f - 1)) = first .. (last - 1)
  BY <1>1
<1> HIDE DEF first, last
<1>6. /\ IsFiniteSet(first .. (last - 1))
      /\ Cardinality(first .. (last - 1)) = IF first > last - 1 THEN 0 ELSE last - 1 - first + 1
  BY ONLY <1>4, FS_Interval
<1>7. /\ IsFiniteSet(s .. (e - 1))
      /\ Cardinality(s .. (e - 1)) = IF s > e - 1 THEN 0 ELSE e - 1 - s + 1
  BY ONLY <1>1, <1>4, FS_Interval
<1>8. Shared(a, b) = Cardinality(first .. (last - 1))
  BY ONLY <1>3, <1>4, <1>6
<1>9. Cardinality(s .. (e - 1)) = e - s
  BY ONLY <1>1, <1>7
<1>10. \A x : x \in s .. (e - 1) <=> x \in Int /\ s <= x /\ x < e
  BY ONLY <1>1
<1> QED
  BY <1>2, <1>5, <1>6, <1>7, <1>8, <1>9, <1>10 DEF s, e

\* The seconds within the first n intervals.
SecondsOf(m, n) == {x \in Int : Within(m, n, x)}

\* Of intervals that are apart, the sums count the seconds within them, and the
\* seconds within them and the gold span.
LEMMA SumsCount ==
  ASSUME NEW list, NEW n, NEW m, Disjoint(m, list, n), NEW gold, IsSpan(gold)
  PROVE  LET S == SecondsOf(list, n) IN
         /\ IsFiniteSet(S) /\ Covering(m) = Cardinality(S)
         /\ IsFiniteSet(S \cap Seconds(gold)) /\ Sharing(m, gold) = Cardinality(S \cap Seconds(gold))
<1> DEFINE l == Len(m)
           S == SecondsOf(list, n)
           A == [i \in 1..l |-> Seconds(m[i])]
           B == [i \in 1..l |-> Seconds(m[i]) \cap Seconds(gold)]
           val == Lengths(m)
           both == Shares(m, gold)
<1>1. l \in Nat /\ m \in Seq(Spans)
  BY DEF Disjoint
<1>2. \A i \in 1..l : IsSpan(m[i])
  <2>1. DOMAIN m = 1..l
    BY <1>1
  <2> QED
    BY <1>1, <2>1, Elements DEF Spans, IsSpan
<1>3. ASSUME NEW i \in 1..l
      PROVE  /\ IsFiniteSet(A[i]) /\ val[i] = Cardinality(A[i])
             /\ IsFiniteSet(B[i]) /\ both[i] = Cardinality(B[i])
             /\ \A x : x \in A[i] <=> x \in Int /\ m[i].start <= x /\ x < m[i].end
  <2>1. /\ IsFiniteSet(Seconds(m[i])) /\ Cardinality(Seconds(m[i])) = m[i].end - m[i].start
        /\ IsFiniteSet(Seconds(m[i]) \cap Seconds(gold))
        /\ Shared(m[i], gold) = Cardinality(Seconds(m[i]) \cap Seconds(gold))
        /\ \A x : x \in Seconds(m[i]) <=> x \in Int /\ m[i].start <= x /\ x < m[i].end
    BY <1>2, SharedCounts
  <2> QED
    BY <2>1 DEF Lengths, Shares
<1>4. ASSUME NEW i \in 1..l, NEW j \in 1..l, i < j
      PROVE  A[i] \cap A[j] = {}
  <2>1. m[i].end < m[j].start
    BY <1>4 DEF Disjoint
  <2>2. m[i].end \in Int /\ m[j].start \in Int
    BY <1>2 DEF IsSpan
  <2> HIDE DEF A
  <2>3. ASSUME NEW x \in A[i], x \in A[j]  PROVE FALSE
    <3>1. x \in Int /\ x < m[i].end /\ m[j].start <= x
      BY <1>3, <2>3
    <3> QED
      BY ONLY <2>1, <2>2, <3>1
  <2> QED
    BY <2>3
<1>5. \A i, j \in 1..l : i # j => A[i] \cap A[j] = {}
  <2> SUFFICES ASSUME NEW i \in 1..l, NEW j \in 1..l, i # j  PROVE A[i] \cap A[j] = {}
    OBVIOUS
  <2> HIDE DEF A
  <2>1. i < j \/ j < i
    BY <1>1
  <2> QED
    BY <1>4, <2>1
<1>6. \A i \in 1..l : B[i] = A[i] \cap Seconds(gold)
  OBVIOUS
<1>7. \A i, j \in 1..l : i # j => B[i] \cap B[j] = {}
  <2> HIDE DEF A, B
  <2> QED
    BY <1>5, <1>6
<1>8. S = Parts(A, 1..l)
  <2>1. \A x \in Int : Within(m, l, x) <=> Within(list, n, x)
    BY DEF Disjoint
  <2>2. \A x : x \in S <=> x \in Int /\ \E i \in 1..l : m[i].start <= x /\ x < m[i].end
    BY <2>1 DEF SecondsOf, Within
  <2> HIDE DEF A, S
  <2>3. \A x : x \in Parts(A, 1..l) <=> \E i \in 1..l : x \in A[i]
    BY DEF Parts
  <2> QED
    BY <1>3, <2>2, <2>3
<1>9. S \cap Seconds(gold) = Parts(B, 1..l)
  <2> HIDE DEF A, B, S
  <2> QED
    BY <1>6, <1>8 DEF Parts
<1> HIDE DEF A, B, val, both
<1>10. PICK g : Sums(g, 1..l, val) /\ Covering(m) = g[1..l]
  <2>1. AddsUp(Covering(m), m, val)
    BY <1>1, CoveringAddsUp DEF val
  <2> QED
    BY <2>1 DEF AddsUp
<1>11. PICK h : Sums(h, 1..l, both) /\ Sharing(m, gold) = h[1..l]
  <2>1. AddsUp(Sharing(m, gold), m, both)
    BY <1>1, SharingAddsUp DEF both, IsSpan
  <2> QED
    BY <2>1 DEF AddsUp
<1> HIDE DEF l, S
<1>12. IsFiniteSet(Parts(A, 1..l)) /\ g[1..l] = Cardinality(Parts(A, 1..l))
  BY ONLY <1>1, <1>3, <1>5, <1>10, SumOfParts
<1>13. IsFiniteSet(Parts(B, 1..l)) /\ h[1..l] = Cardinality(Parts(B, 1..l))
  <2>1. (\A i \in 1..l : IsFiniteSet(B[i])) /\ \A i \in 1..l : both[i] = Cardinality(B[i])
    BY <1>3
  <2> QED
    BY ONLY <1>1, <1>7, <1>11, <2>1, SumOfParts
<1> QED
  BY <1>8, <1>9, <1>10, <1>11, <1>12, <1>13 DEF S

\* The seconds of the gold's talk that the first k results show.
Seen(results, gold, k) ==
  UNION {Seconds(c) : c \in {d \in ToSet(Top(results, k)) : d.video = gold.video}}

\* The intervals RegionIouAtK merges.
Mine(results, gold, k) ==
  LET top == Top(results, k)
      mine == Picked(top, {i \in DOMAIN top : top[i].video = gold.video})
  IN [i \in DOMAIN mine |-> [start |-> mine[i].start, end |-> mine[i].end]]

\* The intervals of a list are spans, and over the seconds of S.
Spanning(list, n, S) == n \in Nat /\ list \in [1..n -> Spans] /\ SecondsOf(list, n) = S

\* A list of the elements at the positions in I, as many and in their order.
Picks(out, seq, I, n) ==
  /\ Len(out) = n /\ n \in Nat
  /\ \E place \in [1..n -> I] :
       /\ \A k \in 1..n : out[k] = seq[place[k]]
       /\ \A i \in I : \E k \in 1..n : place[k] = i

\* Picked returns such a list.
LEMMA PickedPicks ==
  ASSUME NEW V, NEW seq \in Seq(V), NEW I \in SUBSET (DOMAIN seq)
  PROVE  Picked(seq, I) \in Seq(V) /\ Picks(Picked(seq, I), seq, I, Cardinality(I))
<1>1. LET n == Cardinality(I)
          out == Picked(seq, I)
      IN /\ out \in Seq(V) /\ Len(out) = n /\ n \in Nat
         /\ \E place \in [1..n -> I] :
              /\ \A k \in 1..n : out[k] = seq[place[k]]
              /\ \A i \in I : \E k \in 1..n : place[k] = i
              /\ \A j, k \in 1..n : j < k => place[j] < place[k]
  BY PickedIs
<1> QED
  BY ONLY <1>1 DEF Picks

\* The intervals are over the seconds the results show.
LEMMA MineIs ==
  ASSUME NEW results \in Seq(Stored), NEW gold, NEW limit \in Nat
  PROVE  \E n : Spanning(Mine(results, gold, limit), n, Seen(results, gold, limit))
<1> DEFINE top == Top(results, limit)
           I == {i \in DOMAIN top : top[i].video = gold.video}
           mine == Picked(top, I)
           list == Mine(results, gold, limit)
           n == Cardinality(I)
<1>1. top \in Seq(Stored)
  BY ONLY TopIs, results \in Seq(Stored), limit \in Nat
<1>2. list = [i \in DOMAIN mine |-> [start |-> mine[i].start, end |-> mine[i].end]]
  BY DEF Mine
<1>3. \A x : x \in Seen(results, gold, limit) <=> \E i \in I : x \in Seconds(top[i])
  BY DEF Seen, ToSet
<1>4. mine \in Seq(Stored) /\ Picks(mine, top, I, n)
  <2>1. I \in SUBSET (DOMAIN top)
    OBVIOUS
  <2> HIDE DEF I, top
  <2> QED
    BY ONLY <1>1, <2>1, PickedPicks
<1> HIDE DEF top, I, mine, list, n
<1>5. PICK place \in [1..n -> I] : /\ \A j \in 1..n : mine[j] = top[place[j]]
                                   /\ \A i \in I : \E j \in 1..n : place[j] = i
  BY <1>4 DEF Picks
<1>6. n \in Nat /\ DOMAIN mine = 1..n /\ \A j \in 1..n : mine[j] \in Stored
  BY <1>4 DEF Picks
<1>7. \A j \in 1..n : IsSpan(mine[j])
  BY <1>6, StoredAssumption DEF IsSpan
<1>8. \A j \in 1..n : list[j].start = mine[j].start /\ list[j].end = mine[j].end
  BY <1>2, <1>6
<1>9. list \in [1..n -> Spans]
  BY <1>2, <1>6, <1>7 DEF Spans, IsSpan
<1>10. \A x : x \in SecondsOf(list, n) <=> \E j \in 1..n : x \in Seconds(mine[j])
  <2>1. \A j \in 1..n : \A x : x \in Seconds(mine[j]) <=>
          x \in Int /\ mine[j].start <= x /\ x < mine[j].end
    BY <1>7, SharedCounts
  <2> QED
    BY <1>8, <2>1 DEF SecondsOf, Within
<1>11. \A x : x \in SecondsOf(list, n) <=> x \in Seen(results, gold, limit)
  BY <1>3, <1>5, <1>10
<1>12. SecondsOf(list, n) = Seen(results, gold, limit)
  BY <1>11
<1>13. Spanning(list, n, Seen(results, gold, limit))
  BY <1>6, <1>9, <1>12 DEF Spanning
<1> QED
  BY <1>13 DEF list

\* A fraction that counts what is seen of the gold span, over either's seconds.
CountsSeen(f, S, gold) ==
  /\ IsFiniteSet(S) /\ IsFiniteSet(S \cap Seconds(gold))
  /\ f = <<Cardinality(S \cap Seconds(gold)), Cardinality(S \cup Seconds(gold))>>
  /\ Cardinality(S \cap Seconds(gold)) \in Nat
  /\ Cardinality(S \cup Seconds(gold)) \in Nat \ {0}

\* The counts, from the covered and the shared seconds.
LEMMA UnionCounts ==
  ASSUME NEW S, IsFiniteSet(S), NEW gold, IsSpan(gold)
  PROVE  LET inter == Cardinality(S \cap Seconds(gold))
             union == Cardinality(S) + (gold.end - gold.start) - inter
         IN /\ IsFiniteSet(S \cap Seconds(gold)) /\ inter \in Nat
            /\ union = Cardinality(S \cup Seconds(gold)) /\ union \in Nat \ {0}
<1> DEFINE G == Seconds(gold)
           len == gold.end - gold.start
<1>1. IsFiniteSet(G) /\ Cardinality(G) = len
  BY SharedCounts
<1>2. len \in Int /\ len > 0
  BY DEF IsSpan
<1> HIDE DEF G, len
<1>3. /\ IsFiniteSet(S \cup G)
      /\ Cardinality(S \cup G) = Cardinality(S) + Cardinality(G) - Cardinality(S \cap G)
  BY ONLY <1>1, FS_Union, IsFiniteSet(S)
<1>4. IsFiniteSet(S \cap G) /\ Cardinality(S \cap G) \in Nat
  <2>1. IsFiniteSet(S \cap G)
    BY ONLY FS_Subset, IsFiniteSet(S), S \cap G \subseteq S
  <2> QED
    BY ONLY <2>1, FS_CardinalityType
<1>5. Cardinality(G) <= Cardinality(S \cup G) /\ Cardinality(S \cup G) \in Nat
  BY ONLY <1>3, FS_Subset, FS_CardinalityType, G \subseteq S \cup G
<1> QED
  BY <1>1, <1>2, <1>3, <1>4, <1>5 DEF G, len

\* The region IoU is the seconds of gold found over the seconds of either.
LEMMA RegionIs ==
  ASSUME NEW results \in Seq(Stored), NEW gold, IsSpan(gold), NEW k \in Nat
  PROVE  CountsSeen(RegionIouAtK(results, gold, k), Seen(results, gold, k), gold)
<1> DEFINE list == Mine(results, gold, k)
           S == Seen(results, gold, k)
           merged == MergeIntervals(list)
           inter == Sharing(merged, gold)
           union == Covering(merged) + (gold.end - gold.start) - inter
<1>1. RegionIouAtK(results, gold, k) = IF union > 0 THEN <<inter, union>> ELSE Zero
  BY DEF RegionIouAtK, Mine, Covering, Sharing
<1>2. PICK n : Spanning(list, n, S)
  BY MineIs
<1> HIDE DEF list, S
<1>3. Disjoint(merged, list, n)
  BY <1>2, MergedIs DEF Spanning
<1> HIDE DEF merged
<1>4. /\ IsFiniteSet(S) /\ Covering(merged) = Cardinality(S)
      /\ IsFiniteSet(S \cap Seconds(gold)) /\ inter = Cardinality(S \cap Seconds(gold))
  <2>1. SecondsOf(list, n) = S
    BY <1>2 DEF Spanning
  <2>2. LET T == SecondsOf(list, n) IN
        /\ IsFiniteSet(T) /\ Covering(merged) = Cardinality(T)
        /\ IsFiniteSet(T \cap Seconds(gold)) /\ Sharing(merged, gold) = Cardinality(T \cap Seconds(gold))
    BY ONLY <1>3, SumsCount, IsSpan(gold)
  <2> QED
    BY ONLY <2>1, <2>2
<1>5. /\ inter \in Nat /\ union = Cardinality(S \cup Seconds(gold)) /\ union \in Nat \ {0}
  <2>1. LET i == Cardinality(S \cap Seconds(gold))
            u == Cardinality(S) + (gold.end - gold.start) - i
        IN /\ IsFiniteSet(S \cap Seconds(gold)) /\ i \in Nat
           /\ u = Cardinality(S \cup Seconds(gold)) /\ u \in Nat \ {0}
    BY ONLY <1>4, UnionCounts, IsSpan(gold)
  <2> QED
    BY <1>4, <2>1
<1>6. union > 0
  BY <1>5
<1> HIDE DEF inter, union
<1>7. RegionIouAtK(results, gold, k) = <<inter, union>>
  BY <1>1, <1>6
<1>8. CountsSeen(RegionIouAtK(results, gold, k), S, gold)
  BY <1>4, <1>5, <1>7 DEF CountsSeen
<1> QED
  BY <1>8 DEF S

\* A second is seen if a chunk of the gold's talk that is shown has it.
LEMMA SeenBy ==
  ASSUME NEW results \in Seq(Stored), NEW gold, NEW limit \in Nat
  PROVE  /\ \A c \in ToSet(Top(results, limit)) : c \in Stored /\ IsSpan(c)
         /\ \A x : x \in Seen(results, gold, limit) <=>
              \E c \in ToSet(Top(results, limit)) :
                c.video = gold.video /\ x \in Int /\ c.start <= x /\ x < c.end
<1> DEFINE top == Top(results, limit)
<1>1. top \in Seq(Stored)
  BY ONLY TopIs, results \in Seq(Stored), limit \in Nat
<1>2. \A x : x \in Seen(results, gold, limit) <=>
        \E c \in ToSet(top) : c.video = gold.video /\ x \in Seconds(c)
  BY DEF Seen
<1> HIDE DEF top
<1>3. \A c \in ToSet(top) : c \in Stored
  BY <1>1, Elements DEF ToSet
<1>4. \A c \in ToSet(top) : IsSpan(c)
  BY <1>3, StoredAssumption DEF IsSpan
<1>5. \A c \in ToSet(top) : \A x : x \in Seconds(c) <=> x \in Int /\ c.start <= x /\ x < c.end
  BY <1>4, SharedCounts
<1> QED
  BY <1>2, <1>3, <1>4, <1>5 DEF top

\* A fraction that equals the share of the gold span that is seen.
EqualsSeen(f, S, gold) ==
  f[1] * Cardinality(S \cup Seconds(gold)) = Cardinality(S \cap Seconds(gold)) * f[2]

\* The IoU of the first chunk is the region IoU of one.
LEMMA IouIs ==
  ASSUME NEW results \in Seq(Stored), NEW gold, IsSpan(gold)
  PROVE  EqualsSeen(IouAt1(results, gold), Seen(results, gold, 1), gold)
<1> DEFINE G == Seconds(gold)
           S == Seen(results, gold, 1)
           top == Top(results, 1)
<1>1. IsFiniteSet(G) /\ Cardinality(G) \in Nat
  <2>1. IsFiniteSet(G)
    BY SharedCounts
  <2> HIDE DEF G
  <2> QED
    BY ONLY <2>1, FS_CardinalityType
<1>2. Len(results) \in Nat /\ (results # <<>> <=> Len(results) # 0)
  OBVIOUS
<1>3. IF results = <<>> THEN ToSet(top) = {} ELSE ToSet(top) = {results[1]} /\ results[1] \in Stored
  <2> DEFINE n == IF 1 < Len(results) THEN 1 ELSE Len(results)
  <2>1. DOMAIN top = 1..n /\ \A i \in 1..n : top[i] = results[i]
    <3>1. 1 \in Nat
      OBVIOUS
    <3> QED
      BY ONLY <3>1, TopIs, results \in Seq(Stored)
  <2>2. n = IF results = <<>> THEN 0 ELSE 1
    BY <1>2
  <2>3. ToSet(top) = {results[i] : i \in 1..n}
    <3> HIDE DEF top, n
    <3> QED
      BY ONLY <2>1 DEF ToSet
  <2> HIDE DEF top, n
  <2>4. 1..0 = {} /\ 1..1 = {1}
    OBVIOUS
  <2>5. results # <<>> => results[1] \in Stored
    BY <1>2
  <2> QED
    BY ONLY <2>2, <2>3, <2>4, <2>5
<1>4. S = UNION {Seconds(c) : c \in {d \in ToSet(top) : d.video = gold.video}}
  BY DEF Seen
<1>5. Cardinality({}) = 0
  BY FS_EmptySet
<1> HIDE DEF top, S, G
<1>6. CASE results = <<>> \/ results[1].video # gold.video
  <2>1. S = {}
    BY <1>3, <1>4, <1>6
  <2>2. IouAt1(results, gold) = <<0, 1>>
    BY <1>6 DEF IouAt1, IouVsGold, Zero
  <2>3. S \cap G = {}
    BY <2>1
  <2>4. S \cup G = G
    BY <2>1
  <2>5. /\ Cardinality(S \cap Seconds(gold)) = 0
        /\ Cardinality(S \cup Seconds(gold)) = Cardinality(G) /\ Cardinality(G) \in Nat
    BY <1>1, <1>5, <2>3, <2>4 DEF G
  <2>6. EqualsSeen(IouAt1(results, gold), S, gold)
    BY ONLY <2>2, <2>5 DEF EqualsSeen
  <2> QED
    BY <2>6 DEF S
<1>7. CASE results # <<>> /\ results[1].video = gold.video
  <2> DEFINE c == results[1]
             inter == Shared(c, gold)
             union == (c.end - c.start) + (gold.end - gold.start) - inter
  <2>1. S = Seconds(c)
    BY <1>3, <1>4, <1>7
  <2>2. IsSpan(c)
    BY <1>3, <1>7, StoredAssumption DEF IsSpan
  <2>3. IouAt1(results, gold) = IF union <= 0 THEN Zero ELSE <<inter, union>>
    BY <1>7 DEF IouAt1, IouVsGold
  <2> HIDE DEF c
  <2>4. /\ IsFiniteSet(Seconds(c)) /\ Cardinality(Seconds(c)) = c.end - c.start
        /\ Shared(c, gold) = Cardinality(Seconds(c) \cap Seconds(gold))
    BY ONLY <2>2, SharedCounts, IsSpan(gold)
  <2>5. LET i == Cardinality(S \cap Seconds(gold))
            u == Cardinality(S) + (gold.end - gold.start) - i
        IN /\ IsFiniteSet(S \cap Seconds(gold)) /\ i \in Nat
           /\ u = Cardinality(S \cup Seconds(gold)) /\ u \in Nat \ {0}
    BY ONLY <2>1, <2>4, UnionCounts, IsSpan(gold)
  <2>6. inter = Cardinality(S \cap Seconds(gold)) /\ union = Cardinality(S \cup Seconds(gold))
    BY <2>1, <2>4, <2>5
  <2>7. inter \in Nat /\ union \in Nat \ {0}
    BY <2>1, <2>4, <2>5
  <2> HIDE DEF inter, union
  <2>8. IouAt1(results, gold) = <<inter, union>>
    BY <2>3, <2>7
  <2> QED
    BY ONLY <2>6, <2>7, <2>8 DEF EqualsSeen, S
<1> QED
  BY <1>6, <1>7

\* The recall of a list, second by second.
RecallCounts(score, results, gold, k) ==
  LET G == Seconds(gold)
      S == Seen(results, gold, k) IN
  /\ EqualsSeen(score.region, S, gold)
  /\ EqualsSeen(score.iou, Seen(results, gold, 1), gold)
  /\ score.passes <=> Cardinality(S \cap G) > 0
  /\ score.contained => Cardinality(S \cap G) = Cardinality(G)

\* So is what channel_recall returns.
LEMMA RecallIs ==
  ASSUME NEW results \in Seq(Stored), NEW gold, IsSpan(gold), NEW k \in Nat
  PROVE  RecallCounts(ChannelRecall(results, gold, k), results, gold, k)
<1> DEFINE G == Seconds(gold)
           S == Seen(results, gold, k)
           score == ChannelRecall(results, gold, k)
           top == ToSet(Top(results, k))
<1>1. /\ \A c \in top : c \in Stored /\ IsSpan(c)
      /\ \A x : x \in S <=>
           \E c \in top : c.video = gold.video /\ x \in Int /\ c.start <= x /\ x < c.end
  BY SeenBy
<1>2. \A x : x \in G <=> x \in Int /\ gold.start <= x /\ x < gold.end
  BY SharedCounts
<1>3. CountsSeen(RegionIouAtK(results, gold, k), S, gold)
  BY RegionIs
<1>4. /\ score.region = RegionIouAtK(results, gold, k) /\ score.iou = IouAt1(results, gold)
      /\ score.passes = Passes(results, gold, k) /\ score.contained = ContainsGold(results, gold, k)
  BY DEF ChannelRecall
<1>5. Passes(results, gold, k) <=> \E c \in top : OverlapsGold(c, gold)
  BY DEF Passes
<1>6. ContainsGold(results, gold, k) <=>
        \E c \in top : c.video = gold.video /\ c.start <= gold.start /\ c.end >= gold.end
  BY DEF ContainsGold
<1>7. EqualsSeen(score.iou, Seen(results, gold, 1), gold)
  BY <1>4, IouIs
<1> HIDE DEF G, S, score, top
<1>8. EqualsSeen(score.region, S, gold)
  <2> DEFINE p == Cardinality(S \cap G)
             q == Cardinality(S \cup G)
  <2>1. score.region = <<p, q>> /\ p \in Nat /\ q \in Nat
    BY <1>3, <1>4 DEF CountsSeen, G
  <2>2. EqualsSeen(score.region, S, gold) <=> score.region[1] * q = p * score.region[2]
    BY DEF EqualsSeen, G
  <2> HIDE DEF p, q
  <2> QED
    BY ONLY <2>1, <2>2
<1>9. IsFiniteSet(S \cap G) /\ Cardinality(S \cap G) \in Nat
  BY <1>3 DEF CountsSeen, G
<1>10. Cardinality(S \cap G) > 0 <=> S \cap G # {}
  <2>1. Cardinality(S \cap G) = 0 <=> S \cap G = {}
    BY <1>9, FS_EmptySet
  <2> QED
    BY <1>9, <2>1
<1>11. ASSUME NEW c \in top
       PROVE  OverlapsGold(c, gold) <=>
                c.video = gold.video /\ \E x \in G : x \in Int /\ c.start <= x /\ x < c.end
  <2>1. /\ c.start \in Int /\ c.end \in Int /\ c.start < c.end
        /\ gold.start \in Int /\ gold.end \in Int /\ gold.start < gold.end
    BY <1>1 DEF IsSpan
  <2>2. ASSUME OverlapsGold(c, gold)
        PROVE  \E x \in G : x \in Int /\ c.start <= x /\ x < c.end
    <3> DEFINE x == IF c.start > gold.start THEN c.start ELSE gold.start
    <3>1. x \in Int /\ c.start <= x /\ x < c.end /\ gold.start <= x /\ x < gold.end
      BY <2>1, <2>2 DEF OverlapsGold
    <3> HIDE DEF x
    <3> QED
      BY <1>2, <3>1
  <2>3. ASSUME c.video = gold.video, NEW x \in G, x \in Int, c.start <= x, x < c.end
        PROVE  OverlapsGold(c, gold)
    <3>1. gold.start <= x /\ x < gold.end
      BY <1>2
    <3> QED
      BY <2>1, <2>3, <3>1 DEF OverlapsGold
  <2> QED
    BY <2>2, <2>3 DEF OverlapsGold
<1>12. score.passes <=> S \cap G # {}
  <2>1. (\E c \in top : OverlapsGold(c, gold)) <=> S \cap G # {}
    BY <1>1, <1>11
  <2> QED
    BY <1>4, <1>5, <2>1
<1>13. ASSUME score.contained  PROVE Cardinality(S \cap G) = Cardinality(G)
  <2>1. PICK c \in top : c.video = gold.video /\ c.start <= gold.start /\ c.end >= gold.end
    BY <1>4, <1>6, <1>13
  <2>2. c.start \in Int /\ c.end \in Int /\ gold.start \in Int /\ gold.end \in Int
    BY <1>1 DEF IsSpan
  <2>3. \A x \in G : x \in Int /\ c.start <= x /\ x < c.end
    BY <1>2, <2>1, <2>2
  <2>4. G \subseteq S
    BY <1>1, <2>1, <2>3
  <2>5. S \cap G = G
    BY <2>4
  <2> QED
    BY <2>5
<1>14. RecallCounts(score, results, gold, k)
  BY <1>7, <1>8, <1>10, <1>12, <1>13 DEF RecallCounts, S, G
<1> QED
  BY <1>14 DEF score

-----------------------------------------------------------------------------
(***************************************************************************)
(* The audited grounding.                                                  *)
(***************************************************************************)

\* What is picked at the positions where P holds, if somewhere.
LEMMA PickedSome ==
  ASSUME NEW V, NEW seq \in Seq(V), NEW I \in SUBSET (DOMAIN seq)
  PROVE  /\ Picked(seq, I) \in Seq(V)
         /\ Picked(seq, I) = <<>> <=> I = {}
         /\ ToSet(Picked(seq, I)) = {seq[i] : i \in I}
<1> DEFINE out == Picked(seq, I)
           n == Cardinality(I)
<1>1. out \in Seq(V) /\ Picks(out, seq, I, n)
  BY PickedPicks
<1> HIDE DEF out, n
<1>2. PICK place \in [1..n -> I] : /\ \A k \in 1..n : out[k] = seq[place[k]]
                                   /\ \A i \in I : \E k \in 1..n : place[k] = i
  BY <1>1 DEF Picks
<1>3. n \in Nat /\ DOMAIN out = 1..n /\ Len(out) = n
  BY <1>1 DEF Picks
<1>4. out = <<>> <=> n = 0
  BY <1>1, <1>3
<1>5. n = 0 <=> I = {}
  <2>1. n # 0 => 1 \in 1..n
    BY <1>3
  <2>2. n = 0 => 1..n = {}
    OBVIOUS
  <2> QED
    BY <1>2, <2>1, <2>2
<1>6. ToSet(out) = {out[k] : k \in 1..n}
  BY <1>3 DEF ToSet
<1>7. {out[k] : k \in 1..n} = {seq[i] : i \in I}
  BY <1>2
<1> QED
  BY <1>1, <1>4, <1>5, <1>6, <1>7 DEF out

\* A frame that is shown grounds the answer.
Grounds(shown, gold, k) ==
  \E f \in ToSet(Top(shown, k)) : InWindow(f, gold) /\ ContainsEvidence(f.text, gold.evidence)

\* The audit passes when a shown frame grounds the answer, and names its reason.
AuditAgrees(audit, shown, gold, k) ==
  /\ audit.passed <=> Grounds(shown, gold, k)
  /\ audit.passed <=> audit.failure = "none"
  /\ audit.failure = "no_in_window_frame" <=> ~FramePasses(shown, gold, k)
  /\ audit.passed => FramePasses(shown, gold, k)

\* So does that of frame_ocr_grounding_at_k.
LEMMA AuditIs ==
  ASSUME NEW list \in Seq(Frames), NEW gold, NEW k \in Nat
  PROVE  AuditAgrees(FrameOcrGrounding(list, gold, k), list, gold, k)
<1> DEFINE top == Top(list, k)
           I == {i \in DOMAIN top : InWindow(top[i], gold)}
           read == Picked(top, I)
           J == {i \in DOMAIN read : ContainsEvidence(read[i].text, gold.evidence)}
           matches == Picked(read, J)
           audit == FrameOcrGrounding(list, gold, k)
<1>1. top \in Seq(Frames)
  BY ONLY TopIs, list \in Seq(Frames), k \in Nat
<1>2. /\ audit.passed = (matches # <<>>)
      /\ audit.failure = IF matches # <<>> THEN "none"
                         ELSE IF read = <<>> THEN "no_in_window_frame" ELSE "ocr_no_terms_matched"
  BY DEF FrameOcrGrounding
<1>3. FramePasses(list, gold, k) <=> \E i \in DOMAIN top : InWindow(top[i], gold)
  BY DEF FramePasses, ToSet
<1>4. Grounds(list, gold, k) <=>
        \E i \in DOMAIN top : InWindow(top[i], gold) /\ ContainsEvidence(top[i].text, gold.evidence)
  BY DEF Grounds, ToSet
<1>5. I \in SUBSET (DOMAIN top)
  OBVIOUS
<1>6. \A i : i \in I <=> i \in DOMAIN top /\ InWindow(top[i], gold)
  OBVIOUS
<1>7. \A i : i \in J <=> i \in DOMAIN read /\ ContainsEvidence(read[i].text, gold.evidence)
  OBVIOUS
<1>8. J \in SUBSET (DOMAIN read)
  OBVIOUS
<1> HIDE DEF top, I, J, audit
<1>9. /\ read \in Seq(Frames) /\ (read = <<>> <=> I = {})
      /\ ToSet(read) = {top[i] : i \in I}
  BY ONLY <1>1, <1>5, PickedSome
<1> HIDE DEF read
<1>10. matches = <<>> <=> J = {}
  BY ONLY <1>8, <1>9, PickedSome
<1> HIDE DEF matches
<1>11. \A f : f \in ToSet(read) <=> \E i \in DOMAIN read : read[i] = f
  BY DEF ToSet
<1>12. J # {} <=> Grounds(list, gold, k)
  <2> DEFINE Shows(f) == ContainsEvidence(f.text, gold.evidence)
  <2>1. (\E i \in DOMAIN read : Shows(read[i])) <=> \E f \in ToSet(read) : Shows(f)
    BY <1>11
  <2>2. (\E f \in ToSet(read) : Shows(f)) <=> \E i \in I : Shows(top[i])
    BY <1>9
  <2>3. Grounds(list, gold, k) <=> \E i \in DOMAIN top : InWindow(top[i], gold) /\ Shows(top[i])
    BY <1>4
  <2>4. J # {} <=> \E i \in DOMAIN read : Shows(read[i])
    BY <1>7
  <2> HIDE DEF Shows
  <2> QED
    BY ONLY <1>6, <2>1, <2>2, <2>3, <2>4
<1>13. I # {} <=> FramePasses(list, gold, k)
  BY <1>3, <1>6
<1>14. Grounds(list, gold, k) => FramePasses(list, gold, k)
  BY <1>3, <1>4
<1>15. AuditAgrees(audit, list, gold, k)
  BY <1>2, <1>9, <1>10, <1>12, <1>13, <1>14 DEF AuditAgrees
<1> QED
  BY <1>15 DEF audit

\* A term is hit in a chunk that passes.
LEMMA TermPasses ==
  ASSUME NEW results, NEW gold, NEW k
  PROVE  AnswerTermMatches(results, gold, k) => Passes(results, gold, k)
  BY DEF AnswerTermMatches, Passes

-----------------------------------------------------------------------------
(***************************************************************************)
(* The scores of the visual run.                                           *)
(***************************************************************************)

\* A record has scores of its evidence if its row has evidence; a term hit goes
\* with a chunk that passes, a grounded answer with a frame that does.
VisualRecord(r) ==
  /\ r.scores.term # NotEvaluable <=> r.question.evidence # <<>>
  /\ r.scores.audit # NotEvaluable <=> r.question.evidence # <<>>
  /\ r.scores.term = <<TRUE>> => r.scores.chunk_pass
  /\ r.scores.audit # NotEvaluable /\ r.scores.audit[1].passed => r.scores.frame_pass

\* What measure_visual returns makes such a record.
LEMMA MeasuredIs ==
  ASSUME NEW found_, NEW list \in Seq(Frames), NEW with, NEW without, NEW gold, NEW k \in Nat
  PROVE  VisualRecord([question |-> gold,
                       scores |-> MeasureVisual(found_, list, with, without, gold, k)])
<1> DEFINE scores == MeasureVisual(found_, list, with, without, gold, k)
           hit == AnswerTermMatches(found_.visual, gold, k)
           audit == FrameOcrGrounding(list, gold, k)
<1>1. /\ scores.frame_pass = FramePasses(list, gold, k)
      /\ scores.chunk_pass = Passes(found_.visual, gold, k)
      /\ scores.term = IF gold.evidence = <<>> THEN NotEvaluable ELSE <<hit>>
      /\ scores.audit = IF gold.evidence = <<>> THEN NotEvaluable ELSE <<audit>>
  BY DEF MeasureVisual, AnswerTermHit, AnswerGrounding
<1>2. AuditAgrees(audit, list, gold, k)
  BY AuditIs
<1>3. hit => Passes(found_.visual, gold, k)
  BY TermPasses
<1> HIDE DEF scores, hit, audit
<1>4. <<hit>> # NotEvaluable /\ <<audit>> # NotEvaluable /\ <<audit>>[1] = audit
  BY DEF NotEvaluable
<1>5. <<hit>> = <<TRUE>> => hit
  OBVIOUS
<1>6. audit.passed => FramePasses(list, gold, k)
  BY <1>2 DEF AuditAgrees
<1> DEFINE r == [question |-> gold, scores |-> scores]
<1>7. r.question = gold /\ r.scores = scores
  OBVIOUS
<1> HIDE DEF r
<1>8. VisualRecord(r)
  <2>1. r.scores.term # NotEvaluable <=> r.question.evidence # <<>>
    BY <1>1, <1>4, <1>7
  <2>2. r.scores.audit # NotEvaluable <=> r.question.evidence # <<>>
    BY <1>1, <1>4, <1>7
  <2>3. r.scores.term = <<TRUE>> => r.scores.chunk_pass
    <3>1. NotEvaluable # <<TRUE>>
      BY DEF NotEvaluable
    <3> QED
      BY <1>1, <1>3, <1>5, <1>7, <3>1
  <2>4. r.scores.audit # NotEvaluable /\ r.scores.audit[1].passed => r.scores.frame_pass
    BY <1>1, <1>4, <1>6, <1>7
  <2> QED
    BY <2>1, <2>2, <2>3, <2>4 DEF VisualRecord
<1> QED
  BY <1>8 DEF r, scores

\* The records of a visual run.
VisualRows(rs) == rs \in Seq(ToSet(rs)) /\ \A i \in DOMAIN rs : VisualRecord(rs[i])

\* The rates of a summary are over the rows with evidence, and the stricter of two
\* is not the greater.
RatesAgree(s, rs) ==
  LET evaluable == {i \in DOMAIN rs : rs[i].question.evidence # <<>>} IN
  /\ s.term_evaluable = Cardinality(evaluable)
  /\ s.grounding_evaluable = Cardinality(evaluable)
  /\ s.term <= s.chunk /\ s.grounded <= s.frame
  /\ s.n = Len(rs)

\* So are those of the summary of such records.
LEMMA RatesAre ==
  ASSUME NEW rs, VisualRows(rs)
  PROVE  RatesAgree(VisualSummary(rs), rs)
<1> DEFINE n == Len(rs)
           s == VisualSummary(rs)
           evaluable == {i \in DOMAIN rs : rs[i].question.evidence # <<>>}
           withTerm == {i \in DOMAIN rs : rs[i].scores.term # NotEvaluable}
           withAudit == {i \in DOMAIN rs : rs[i].scores.audit # NotEvaluable}
           hits == {i \in DOMAIN rs : rs[i].scores.term = <<TRUE>>}
           passes == {i \in DOMAIN rs : rs[i].scores.chunk_pass}
           grounded == {i \in DOMAIN rs : rs[i].scores.audit # NotEvaluable
                                          /\ rs[i].scores.audit[1].passed}
           framed == {i \in DOMAIN rs : rs[i].scores.frame_pass}
<1>1. n \in Nat /\ DOMAIN rs = 1..n
  <2>1. rs \in Seq(ToSet(rs))
    BY DEF VisualRows
  <2> QED
    BY <2>1
<1>2. /\ s.n = n
      /\ s.term_evaluable = Cardinality(withTerm) /\ s.grounding_evaluable = Cardinality(withAudit)
      /\ s.term = Cardinality(hits) /\ s.chunk = Cardinality(passes)
      /\ s.grounded = Cardinality(grounded) /\ s.frame = Cardinality(framed)
  BY DEF VisualSummary
<1>3. \A i \in DOMAIN rs : VisualRecord(rs[i])
  BY DEF VisualRows
<1>4. withTerm = evaluable /\ withAudit = evaluable
  BY <1>3 DEF VisualRecord
<1>5. hits \subseteq passes
  BY <1>3 DEF VisualRecord
<1>6. grounded \subseteq framed
  BY <1>3 DEF VisualRecord
<1>7. passes \subseteq 1..n /\ framed \subseteq 1..n
  BY <1>1
<1> HIDE DEF s, n, hits, passes, grounded, framed, withTerm, withAudit, evaluable
<1>8. \A A, B : A \subseteq B /\ B \subseteq 1..n => Cardinality(A) <= Cardinality(B)
  <2> SUFFICES ASSUME NEW A, NEW B, A \subseteq B, B \subseteq 1..n
               PROVE  Cardinality(A) <= Cardinality(B)
    OBVIOUS
  <2>1. IsFiniteSet(1..n)
    BY ONLY <1>1, Intervals
  <2>2. IsFiniteSet(B)
    BY ONLY <2>1, FS_Subset, B \subseteq 1..n
  <2> QED
    BY ONLY <2>2, FS_Subset, A \subseteq B
<1>9. s.term <= s.chunk /\ s.grounded <= s.frame
  BY <1>2, <1>5, <1>6, <1>7, <1>8
<1> QED
  BY <1>2, <1>4, <1>9 DEF RatesAgree, s, n, evaluable

\* What is kept for the metrics: gold questions to come, the frames found, and a
\* record for each row measured.
ScoreInv ==
  /\ frames \in Seq(Frames)
  /\ path \in {"channels", "visual"} =>
       todo \in Seq(GoldQuestions) /\ (stage = "score" => todo # <<>>)
  /\ path = "visual" =>
       VisualRows(rows) /\ Len(rows) + Len(todo) = Len(Asked["visual"])
  /\ path = "visual" /\ stage = "done" => todo = <<>> /\ result = VisualSummary(rows)

\* It holds initially.
LEMMA ScoreInit == Init => ScoreInv
<1> SUFFICES ASSUME Init  PROVE ScoreInv
  OBVIOUS
<1>1. frames = <<>> /\ rows = <<>> /\ todo = Asked[path] /\ path \in DOMAIN Asked /\ stage \in {"substrate", "search"}
  BY DEF Init
<1>2. <<>> \in Seq(Frames) /\ Len(<<>>) = 0
  OBVIOUS
<1>3. VisualRows(<<>>)
  BY DEF VisualRows
<1>4. path \in {"channels", "visual"} => todo \in Seq(GoldQuestions)
  BY <1>1, AskedAssumption
<1>5. path = "visual" => Len(todo) \in Nat /\ todo = Asked["visual"]
  BY <1>1, <1>4
<1> QED
  BY <1>1, <1>2, <1>3, <1>4, <1>5 DEF ScoreInv

\* Each row measured adds its record, and takes its question away.
LEMMA ScoreStep == WayInv /\ ScoreInv /\ [Next]_vars => ScoreInv'
<1> SUFFICES ASSUME WayInv, ScoreInv, [Next]_vars  PROVE ScoreInv'
  OBVIOUS
<1>1. path \in {"answer", "bakeoff", "channels", "visual"}
  BY Paths DEF WayInv
<1>2. ASSUME UNCHANGED <<path, frames>>, path \notin {"channels", "visual"}
      PROVE  ScoreInv'
  BY <1>2 DEF ScoreInv
<1>3. ASSUME UNCHANGED <<path, frames, todo, rows>>, stage' \notin {"score", "done"}
      PROVE  ScoreInv'
  BY <1>3 DEF ScoreInv
<1>4. CASE Search
  <2>1. PICK s \in Searches[path] :
          frames' = IF path \in {"answer", "visual"} THEN s.frames ELSE <<>>
    BY <1>4 DEF Search
  <2>2. path' = path /\ todo' = todo /\ rows' = rows /\ todo # <<>> /\ stage' # "done"
    BY <1>1, <1>4 DEF Search, records
  <2>3. s.frames \in Seq(Frames)
    BY SearchesAssumption DEF WayInv, Listings
  <2>4. <<>> \in Seq(Frames)
    OBVIOUS
  <2>5. frames' \in Seq(Frames)
    BY <2>1, <2>3, <2>4
  <2> QED
    BY <2>2, <2>5 DEF ScoreInv
<1>5. CASE ScoreChannels
  <2>1. path = "channels" /\ path' = path /\ frames' = frames /\ todo' = Tail(todo)
        /\ stage = "score" /\ stage' = "search"
    BY <1>5 DEF ScoreChannels, Scored, search
  <2>2. todo \in Seq(GoldQuestions) /\ todo # <<>>
    BY <2>1 DEF ScoreInv
  <2>3. Tail(todo) \in Seq(GoldQuestions)
    BY <2>2
  <2> QED
    BY <2>1, <2>3 DEF ScoreInv
<1>6. CASE ScoreVisual
  <2> DEFINE r == [question |-> Question, scores |-> MeasureVisual(found, frames, fused, fusedText, Question, K)]
             n == Len(rows)
  <2>1. path = "visual" /\ path' = path /\ frames' = frames /\ todo' = Tail(todo)
        /\ stage = "score" /\ stage' = "search" /\ rows' = Append(rows, r)
    BY <1>6 DEF ScoreVisual, Scored, search
  <2>2. todo \in Seq(GoldQuestions) /\ todo # <<>> /\ VisualRows(rows) /\ frames \in Seq(Frames)
        /\ Len(rows) + Len(todo) = Len(Asked["visual"])
    BY <2>1 DEF ScoreInv
  <2>3. Tail(todo) \in Seq(GoldQuestions) /\ Len(todo) \in Nat \ {0} /\ Len(Tail(todo)) = Len(todo) - 1
    BY ONLY <2>2, TailIs
  <2>4. VisualRecord(r)
    BY <2>2, MeasuredIs, KAssumption
  <2> HIDE DEF r
  <2>5. rows \in Seq(ToSet(rows)) /\ n \in Nat /\ DOMAIN rows = 1..n
    <3>1. rows \in Seq(ToSet(rows))
      BY <2>2 DEF VisualRows
    <3> QED
      BY <3>1
  <2> HIDE DEF n
  <2>6. LET out == Append(rows, r)
        IN /\ Len(out) = n + 1 /\ DOMAIN out = 1..(n + 1) /\ out \in Seq(ToSet(out))
           /\ out[n + 1] = r /\ \A i \in 1..n : out[i] = rows[i]
    BY <2>5, Appended DEF n
  <2>7. \A i \in 1..(n + 1) : i = n + 1 \/ i \in 1..n
    BY <2>5
  <2>8. \A i \in 1..n : VisualRecord(rows[i])
    BY <2>2, <2>5 DEF VisualRows
  <2>9. VisualRows(rows') /\ Len(rows') = n + 1
    <3>1. \A i \in DOMAIN rows' : VisualRecord(rows'[i])
      BY <2>1, <2>4, <2>6, <2>7, <2>8
    <3> QED
      BY <2>1, <2>6, <3>1 DEF VisualRows
  <2>10. Len(rows') + Len(todo') = Len(Asked["visual"])
    <3> DEFINE m == Len(todo)
    <3>1. n + m = Len(Asked["visual"])
      BY <2>2 DEF n
    <3>2. m \in Nat \ {0} /\ n \in Nat
      BY <2>3, <2>5
    <3>3. Len(Tail(todo)) = m - 1
      BY <2>3
    <3> HIDE DEF m
    <3>4. Len(todo') = m - 1
      BY ONLY <2>1, <3>3
    <3> QED
      BY ONLY <2>9, <3>1, <3>2, <3>4
  <2> QED
    BY <2>1, <2>2, <2>3, <2>9, <2>10 DEF ScoreInv
<1>7. CASE Finish
  <2>1. stage' = "done" /\ todo = <<>> /\ UNCHANGED <<path, todo, frames, rows>> /\ result' = Summary
    BY <1>7 DEF Finish, search, records
  <2>2. path = "visual" => result' = VisualSummary(rows)
    BY <2>1 DEF Summary
  <2> QED
    BY <2>1, <2>2 DEF ScoreInv
<1>8. CASE CheckSubstrate \/ FrameUnreadable
  <2>1. UNCHANGED <<path, frames, todo, rows>> /\ stage' \notin {"score", "done"}
    BY <1>8 DEF CheckSubstrate, FrameUnreadable, search, records
  <2> QED
    BY <1>3, <2>1
<1>9. CASE RerankHits \/ Generate \/ Judge \/ CallFails \/ NoContent \/ ReadReply \/ ReadJudgement
             \/ CiteAnswer
  <2>1. UNCHANGED <<path, frames>>
    BY <1>9 DEF RerankHits, Generate, Judge, Asks, CallFails, NoContent, ReadReply, ReadJudgement,
                CiteAnswer, search
  <2>2. stage \in {"rerank", "generate", "judge", "cite", "generating", "judging"}
    BY <1>9 DEF RerankHits, Generate, Judge, Asks, CallFails, NoContent, ReadReply, ReadJudgement,
                CiteAnswer, WayInv
  <2>3. path \notin {"channels", "visual"}
    BY <2>2 DEF WayInv
  <2> QED
    BY <1>2, <2>1, <2>3
<1>10. CASE ServerReplies \/ Ended \/ UNCHANGED vars
  <2>1. UNCHANGED <<path, stage, todo, frames, rows, result>>
    BY <1>10 DEF ServerReplies, Ended, vars, search, records
  <2> QED
    BY <2>1 DEF ScoreInv
<1> QED
  BY <1>4, <1>5, <1>6, <1>7, <1>8, <1>9, <1>10 DEF Next

\* In every state.
LEMMA AlwaysScoreInv == Spec => [](QuestionInv /\ ScoreInv)
<1>1. Init => ScoreInv
  BY ScoreInit
<1>2. QuestionInv /\ ScoreInv /\ [Next]_vars => ScoreInv'
  BY ScoreStep DEF QuestionInv
<1> QED
  BY <1>1, <1>2, AlwaysQuestionInv, PTL DEF Spec

\* The lists that are measured are of rows of the table.
LEMMA MeasuredLists ==
  ASSUME QuestionInv
  PROVE  \A name \in DOMAIN ChannelResults(found, fused) :
           ChannelResults(found, fused)[name] \in Seq(Stored)
<1>1. \A name \in Five : found[name] \in Seq(Stored)
  BY DEF QuestionInv, SearchInv, Hits, Listings
<1>2. Chunks(fused) \in Seq(Stored)
  <2> DEFINE V == ToSet(fused)
  <2>1. fused \in Seq(V) /\ \A i \in DOMAIN fused : fused[i].chunk \in Stored
    BY FusedRows DEF QuestionInv
  <2> HIDE DEF V
  <2>2. Len(fused) \in Nat /\ DOMAIN fused = 1..Len(fused)
    BY ONLY <2>1
  <2>3. Chunks(fused) = [i \in 1..Len(fused) |-> fused[i].chunk]
    BY <2>2 DEF Chunks
  <2> QED
    BY ONLY <2>1, <2>2, <2>3
<1> QED
  BY <1>1, <1>2 DEF ChannelResults, Five, TextChannels

\* The metrics agree with what they are said to measure, in every state.
LEMMA MeasuresRight == QuestionInv /\ ScoreInv => MeasuresAgree
<1> SUFFICES ASSUME QuestionInv, ScoreInv  PROVE MeasuresAgree
  OBVIOUS
<1> DEFINE gold == Question
           results == ChannelResults(found, fused)
           audit == FrameOcrGrounding(frames, gold, K)
           Region(list, k) == <<Cardinality(Seen(list, gold, k) \cap Seconds(gold)),
                                Cardinality(Seen(list, gold, k) \cup Seconds(gold))>>
           Same(f, g) == f[1] * g[2] = g[1] * f[2]
<1>0. K \in Nat
  BY KAssumption
<1>1. ASSUME stage = "score", path = "channels", NEW name \in DOMAIN results
      PROVE  LET score == ChannelRecall(results[name], gold, K)
                 region == Region(results[name], K) IN
             /\ Same(score.region, region)
             /\ Same(score.iou, Region(results[name], 1))
             /\ score.passes <=> region[1] > 0
             /\ score.contained => region[1] = Cardinality(Seconds(gold))
  <2> DEFINE list == results[name]
             score == ChannelRecall(list, gold, K)
  <2>1. todo \in Seq(GoldQuestions) /\ todo # <<>>
    BY <1>1 DEF ScoreInv
  <2>2. gold \in GoldQuestions
    BY <2>1, TailIs DEF Question
  <2>3. IsSpan(gold)
    BY <2>2 DEF GoldQuestions, IsSpan
  <2>4. list \in Seq(Stored)
    BY <1>1, MeasuredLists
  <2> HIDE DEF list, gold
  <2>5. RecallCounts(score, list, gold, K)
    BY ONLY <1>0, <2>3, <2>4, RecallIs
  <2>6. /\ Same(score.region, Region(list, K)) /\ Same(score.iou, Region(list, 1))
        /\ score.passes <=> Region(list, K)[1] > 0
        /\ score.contained => Region(list, K)[1] = Cardinality(Seconds(gold))
    <3> HIDE DEF score
    <3> QED
      BY ONLY <2>5 DEF RecallCounts, EqualsSeen
  <2> QED
    BY <2>6 DEF list
<1>2. ASSUME stage = "score", path = "visual", gold.evidence # <<>>
      PROVE  /\ audit.passed <=> FrameOcrMatches(frames, gold, K)
             /\ audit.passed => FramePasses(frames, gold, K)
             /\ audit.passed <=> audit.failure = "none"
             /\ audit.failure = "no_in_window_frame" <=> ~FramePasses(frames, gold, K)
             /\ AnswerTermMatches(found.visual, gold, K) => Passes(found.visual, gold, K)
  <2>1. frames \in Seq(Frames)
    BY DEF ScoreInv
  <2>2. AuditAgrees(audit, frames, gold, K)
    BY <1>0, <2>1, AuditIs
  <2>3. FrameOcrMatches(frames, gold, K) <=> Grounds(frames, gold, K)
    BY <1>2 DEF FrameOcrMatches, Grounds
  <2>4. AnswerTermMatches(found.visual, gold, K) => Passes(found.visual, gold, K)
    BY TermPasses
  <2> HIDE DEF audit, gold
  <2> QED
    BY <2>2, <2>3, <2>4 DEF AuditAgrees
<1>3. ASSUME path = "visual", stage = "done"
      PROVE  RatesAgree(result, rows) /\ Len(rows) = Len(Asked["visual"])
  <2>1. /\ VisualRows(rows) /\ Len(rows) + Len(todo) = Len(Asked["visual"]) /\ todo = <<>>
        /\ result = VisualSummary(rows)
    BY <1>3 DEF ScoreInv
  <2>2. Len(todo) = 0
    BY <2>1
  <2>3. Len(rows) \in Nat
    BY <2>1 DEF VisualRows
  <2> QED
    BY <2>1, <2>2, <2>3, RatesAre
<1> HIDE DEF audit
<1> QED
  BY <1>1, <1>2, <1>3 DEF MeasuresAgree, RatesAgree, Seen, audit

\* The metrics say what they mean, second by second and row by row: for every set of
\* chunks, frames and gold questions, and every k.
THEOREM MetricsAgree == Spec => []MeasuresAgree
  BY MeasuresRight, AlwaysScoreInv, PTL
===============================================================================
