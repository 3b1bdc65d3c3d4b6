----------------------------- MODULE MCVerbals -----------------------------
(* Instances of Verbals for model checking: the edits are interchangeable. *)
EXTENDS Verbals, TLC

Symmetry == Permutations(Edits)
=============================================================================
