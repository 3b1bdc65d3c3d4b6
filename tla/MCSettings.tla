----------------------------- MODULE MCSettings -----------------------------
(* Instances of Settings for model checking. *)
EXTENDS Settings, TLC
=============================================================================
