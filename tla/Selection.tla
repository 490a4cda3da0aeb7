------------------------------ MODULE Selection ------------------------------
(***************************************************************************)
(* Lists made from sets and from other lists, as loops and filters of the  *)
(* code make them: the same lists as SetToSortSeq and SelectSeq give, by   *)
(* their places instead of one element after another, so that there is     *)
(* something to prove about them.                                          *)
(***************************************************************************)
EXTENDS Naturals, Sequences, FiniteSets

(* The numbers of a finite set from the smallest to the largest: each in   *)
(* the place that as many smaller ones leave to it.                        *)
Ascending(P) ==
  [n \in 1 .. Cardinality(P) |->
     CHOOSE k \in P : Cardinality({j \in P : j < k}) = n - 1]

(* The elements of s at the positions P, in the order of s.                *)
Picked(s, P) ==
  LET positions == Ascending(P) IN [n \in DOMAIN positions |-> s[positions[n]]]

(* The elements of s without repetitions, each where it is first.          *)
FirstOfEach(s) ==
  Picked(s, {n \in DOMAIN s : \A m \in 1 .. n - 1 : s[m] # s[n]})

=============================================================================
