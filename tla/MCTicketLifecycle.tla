------------------------- MODULE MCTicketLifecycle -------------------------
EXTENDS TicketLifecycle, TLC

\* Servers, forms and closes differ in nothing but their identity.
Symmetry == Permutations(Guilds) \cup Permutations(Forms) \cup Permutations(Closes)
=============================================================================
