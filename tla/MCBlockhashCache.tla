--------------------------- MODULE MCBlockhashCache ---------------------------
(* Instances of BlockhashCache for TLC.                                     *)
EXTENDS BlockhashCache, TLC

(* Callers and messages are interchangeable.                                *)
Symmetry == Permutations(Callers) \cup Permutations(Messages)
=============================================================================
