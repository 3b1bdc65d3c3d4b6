--------------------------- MODULE MCStatusTimers ---------------------------
EXTENDS StatusTimers, TLC

\* Channels, commands and workers differ in nothing but their identity.
Symmetry == Permutations(Chans) \cup Permutations(Mods) \cup Permutations(Workers)
=============================================================================
