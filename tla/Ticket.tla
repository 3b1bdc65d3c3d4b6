------------------------------- MODULE Ticket -------------------------------
(***************************************************************************)
(* What opening and closing promise of a ticket, whatever runs at the same *)
(* time, fails or is repeated: its channel is made once, its row is        *)
(* inserted once and while the channel is there, a closed row stays        *)
(* closed, and the bot takes a channel away only when the row is closed.   *)
(*                                                                         *)
(* The one exception is a close that overtakes the INSERT: it closes       *)
(* nothing, and the channel may go although the row comes afterwards.      *)
(***************************************************************************)
CONSTANT Tickets

VARIABLES
  channels,   \* tickets with a channel
  recorded,   \* tickets with a row
  closed,     \* those whose row is closed
  overtaken   \* tickets closed before they had a row

vars == <<channels, recorded, closed, overtaken>>

Init ==
  /\ channels = {} /\ recorded = {}
  /\ closed = {} /\ overtaken = {}

Create(t) ==
  /\ t \notin channels \cup recorded \cup overtaken
  /\ channels' = channels \cup {t}
  /\ UNCHANGED <<recorded, closed, overtaken>>

Insert(t) ==
  /\ t \in (channels \cup overtaken) \ recorded
  /\ recorded' = recorded \cup {t}
  /\ UNCHANGED <<channels, closed, overtaken>>

\* Both at once, where nothing comes between them.
Open(t) ==
  /\ t \notin channels \cup recorded \cup overtaken
  /\ channels' = channels \cup {t}
  /\ recorded' = recorded \cup {t}
  /\ UNCHANGED <<closed, overtaken>>

Close(t) ==
  /\ t \in recorded \ closed
  /\ closed' = closed \cup {t}
  /\ UNCHANGED <<channels, recorded, overtaken>>

Overtake(t) ==
  /\ t \in channels \ recorded
  /\ overtaken' = overtaken \cup {t}
  /\ UNCHANGED <<channels, recorded, closed>>

Delete(t) ==
  /\ t \in channels \cap (closed \cup overtaken)
  /\ channels' = channels \ {t}
  /\ UNCHANGED <<recorded, closed, overtaken>>

Next ==
  \E t \in Tickets :
    Create(t) \/ Insert(t) \/ Open(t) \/ Close(t) \/ Overtake(t) \/ Delete(t)

Spec == Init /\ [][Next]_vars
=============================================================================
