---------------------------- MODULE MCStatistics ----------------------------
(* Instances of Statistics for model checking. *)
EXTENDS Statistics, TLC
CONSTANTS main, sub

\* A main type and its subtype.
MCParent == main :> None @@ sub :> main

Symmetry == Permutations(Channels) \cup Permutations(Mods) \cup Permutations(Servers)
=============================================================================
