-------------------------------- MODULE Lists --------------------------------
(***************************************************************************)
(* What Python's sorted and its comprehensions with a condition return.    *)
(* They are written by counting: SortSeq and SelectSeq are built into the  *)
(* tools, and nothing could be proved about them.                          *)
(***************************************************************************)
EXTENDS Integers, Sequences, FiniteSets

\* The elements of S in the order of R, a strict total order on S.
Ordered(S, R) ==
  [k \in 1..Cardinality(S) |->
     CHOOSE x \in S : Cardinality({y \in S : <<y, x>> \in R}) = k - 1]

\* The elements of a sequence at the positions in I, in their order.
Picked(seq, I) ==
  LET place == Ordered(I, {p \in I \X I : p[1] < p[2]})
  IN [k \in 1..Cardinality(I) |-> seq[place[k]]]

\* The sort is stable.
Sorted(seq, Before(_, _)) ==
  LET earlier == {p \in (DOMAIN seq) \X (DOMAIN seq) :
                    \/ Before(seq[p[1]], seq[p[2]])
                    \/ ~Before(seq[p[2]], seq[p[1]]) /\ p[1] < p[2]}
      place == Ordered(DOMAIN seq, earlier)
  IN [k \in DOMAIN seq |-> seq[place[k]]]
=============================================================================
