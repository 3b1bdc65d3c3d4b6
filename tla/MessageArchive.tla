--------------------------- MODULE MessageArchive ---------------------------
(***************************************************************************)
(* What the buffering of ticket messages promises to the analytics that    *)
(* read the database: a message handed to the bot waits until it is        *)
(* archived, whatever tasks, failures and restarts happen in between.      *)
(* Nothing but the owner's emptying commands takes it out of the way, and  *)
(* even an emptied message may still be archived by a flush that had read  *)
(* it.  An archived message stays archived.                                *)
(***************************************************************************)
CONSTANT Msgs

VARIABLES
  waiting,    \* accepted, not yet in the database
  archived,   \* rows of the message tables
  discarded   \* emptied by the owner before they were archived

vars == <<waiting, archived, discarded>>

Init ==
  /\ waiting = {}
  /\ archived = {}
  /\ discarded = {}

\* A message is accepted once.
Accept(m) ==
  /\ m \notin waiting \cup archived \cup discarded
  /\ waiting' = waiting \cup {m}
  /\ UNCHANGED <<archived, discarded>>

\* A batch of messages becomes durable at once.
Archive(S) ==
  /\ S \subseteq waiting \cup discarded
  /\ waiting' = waiting \ S
  /\ archived' = archived \cup S
  /\ discarded' = discarded \ S

\* The owner empties the buffer, one message at a time.
Discard(m) ==
  /\ m \in waiting
  /\ waiting' = waiting \ {m}
  /\ discarded' = discarded \cup {m}
  /\ UNCHANGED archived

Next ==
  \/ \E m \in Msgs : Accept(m)
  \/ \E S \in SUBSET Msgs : Archive(S)
  \/ \E m \in Msgs : Discard(m)

Spec == Init /\ [][Next]_vars
=============================================================================
