------------------------------ MODULE Verbals ------------------------------
(***************************************************************************)
(* Verbal warnings and notes (cogs/moderation.py).  A verbal is a message  *)
(* in the user's DM and a row in MySQL with the id of that message, its    *)
(* text and the moderator who wrote it last.  /verbal sends, then inserts; *)
(* verbal_edit and verbal_delete read the row, fetch the message, change   *)
(* it, and then the row.  A note is a row alone.                           *)
(*                                                                         *)
(* execute_query is tried three times, also when an attempt timed out that *)
(* MySQL carried out all the same.  A message of a verbal is the row's     *)
(* key, so a second INSERT of it is refused; notes are numbered, so it is  *)
(* not.  Calls of Discord go through Queue.call: one that is refused gives *)
(* None.                                                                   *)
(***************************************************************************)
EXTENDS FiniteSets, Naturals

CONSTANTS
  Warnings,     \* verbal commands; each makes one verbal of its own
  Notes,        \* noteadd commands
  Edits,        \* verbal_edit commands
  Deletes,      \* verbal_delete commands
  Mods,         \* moderators
  User,         \* the user who is warned; may be a moderator
  Failing,      \* which calls may fail: "mysql", "dm" or "lookup"
  MaxGiven,     \* bound on the commands that are given
  MaxRestarts,  \* bound on the restarts of the bot
  None          \* no row, no verbal

Commands == Edits \cup Deletes
Tasks == Warnings \cup Notes \cup Commands

ASSUME VerbalsAssumption ==
  /\ Edits \cap Deletes = {} /\ Warnings \cap Notes = {}
  /\ (Warnings \cup Notes) \cap Commands = {}
  /\ {"none", "gone"} \cap Tasks = {}
  /\ Failing \subseteq {"mysql", "dm", "lookup"}
  /\ MaxGiven \in Nat /\ MaxRestarts \in Nat
  /\ Mods # {}
  /\ None \notin Warnings \cup [author : Mods, text : Tasks]

VARIABLES
  pc,         \* where each command is
  by,         \* the moderator who gives a verbal, or its new text
  target,     \* the verbal it is about
  owner,      \* the member whose DM it looks into
  tries,      \* attempts of its statement that have failed
  dm,         \* the message of a verbal: the task whose text it shows
  row,        \* its row
  records,    \* the number of rows of a note
  told,       \* commands that have reported success
  restarts,
  hurt,       \* history: commands ended by an error, a refusal or a restart
  lost,       \* history: commands with an attempt that was carried out in vain
  crossed     \* history: verbals whose message was edited between the two
              \* halves of another edit

command == <<by, target, owner>>
data == <<dm, row, records>>
faults == <<hurt, lost, crossed>>
vars == <<pc, command, tries, data, told, restarts, faults>>

Init ==
  /\ pc = [x \in Tasks |-> "idle"]
  /\ by = [x \in Warnings \cup Edits |-> CHOOSE m \in Mods : TRUE]
  /\ target = [x \in Commands |-> None]
  /\ owner = [x \in Commands |-> User]
  /\ tries = [x \in Tasks |-> 0]
  /\ dm = [w \in Warnings |-> "none"]
  /\ row = [w \in Warnings |-> None]
  /\ records = [n \in Notes |-> 0]
  /\ told = {} /\ restarts = 0
  /\ hurt = {} /\ lost = {} /\ crossed = {}

Goto(x, l) == pc' = [pc EXCEPT ![x] = l]

\* A moderator may give the command x.
MayBegin(x) == pc[x] = "idle" /\ Cardinality({y \in Tasks : pc[y] # "idle"}) < MaxGiven

\* Whether a call succeeds.
Outcomes(what) == IF what \in Failing THEN BOOLEAN ELSE {TRUE}

Proceeds(x, l, ok) ==
  /\ Goto(x, l)
  /\ hurt' = IF ok THEN hurt ELSE hurt \cup {x}

-----------------------------------------------------------------------------
(* execute_query                                                           *)

\* Faulty variant: there is a fourth attempt.
StopsLate(n) == n = 3

\* stop_after_attempt(3)
Stops(n) == n = 2

\* Faulty variant: a statement that has its answer is tried again.
LoopsOn(x) ==
  /\ told' = told \cup {x}
  /\ UNCHANGED <<pc, tries, hurt, lost>>

\* An answer; the success message follows, and nothing else.
Answered(x) ==
  /\ Goto(x, "ended")
  /\ told' = told \cup {x}
  /\ tries' = [tries EXCEPT ![x] = 0]
  /\ UNCHANGED <<hurt, lost>>

\* An attempt raises an exception: another one, or the command ends.
Raises(x) ==
  IF Stops(tries[x])
  THEN Proceeds(x, "ended", FALSE) /\ tries' = [tries EXCEPT ![x] = 0]
  ELSE tries' = [tries EXCEPT ![x] = @ + 1] /\ UNCHANGED <<pc, hurt>>

\* The statement is carried out, with or without an answer in time.
Executed(x) ==
  \/ Answered(x)
  \/ "mysql" \in Failing /\ Raises(x) /\ lost' = lost \cup {x} /\ UNCHANGED told

\* It is not: MySQL refuses it, or is not reached.
Rejected(x, refused) ==
  /\ refused \/ "mysql" \in Failing
  /\ Raises(x)
  /\ UNCHANGED <<told, lost>>

-----------------------------------------------------------------------------
(* /verbal and noteadd                                                     *)

\* Faulty variant: the row is inserted before the message is sent.
RowFirst == "insert"

FirstStep == "send"

\* A text that is too long is turned away at once, here and below.
Warn(w, m) ==
  /\ MayBegin(w)
  /\ by' = [by EXCEPT ![w] = m]
  /\ Goto(w, FirstStep)
  /\ UNCHANGED <<target, owner, tries, data, told, restarts, faults>>

\* Without a message there is no id: an AttributeError, reported as such.
Send(w) ==
  /\ pc[w] = "send"
  /\ \E ok \in Outcomes("dm") :
       /\ Proceeds(w, IF ok THEN "insert" ELSE "ended", ok)
       /\ dm' = [dm EXCEPT ![w] = IF ok THEN w ELSE @]
  /\ UNCHANGED <<command, tries, row, records, told, restarts, lost, crossed>>

AddVerbal(w) ==
  /\ pc[w] = "insert"
  /\ \/ /\ row[w] = None
        /\ row' = [row EXCEPT ![w] = [author |-> by[w], text |-> w]]
        /\ Executed(w)
     \/ /\ Rejected(w, row[w] # None)
        /\ UNCHANGED row
  /\ UNCHANGED <<command, dm, records, restarts, crossed>>

\* The ticket or the member of the note is looked up first.
Note(n) ==
  /\ MayBegin(n)
  /\ \E l \in {"insert", "ended"} : Goto(n, l)
  /\ UNCHANGED <<command, tries, data, told, restarts, faults>>

AddNote(n) ==
  /\ pc[n] = "insert"
  /\ \/ /\ records' = [records EXCEPT ![n] = @ + 1]
        /\ Executed(n)
     \/ /\ Rejected(n, FALSE)
        /\ UNCHANGED records
  /\ UNCHANGED <<command, dm, row, restarts, crossed>>

-----------------------------------------------------------------------------
(* verbal_edit and verbal_delete                                           *)

\* A moderator names a verbal by its id, which he has from its history.
Command(x, w, m) ==
  /\ MayBegin(x)
  /\ row[w] # None
  /\ by' = IF x \in Edits THEN [by EXCEPT ![x] = m] ELSE by
  /\ target' = [target EXCEPT ![x] = w]
  /\ Goto(x, "look")
  /\ UNCHANGED <<owner, tries, data, told, restarts, faults>>

\* Whose DM a command looks into: for an edit the user's; for a delete, which
\* takes the next column of the row, the author's.
Owner(x, r) == IF x \in Edits THEN User ELSE r.author

\* get_verbal, then fetch_member, twice: none of them found is told.
Look(x) ==
  LET r == row[target[x]] IN
  /\ pc[x] = "look"
  /\ \/ /\ r # None
        /\ Goto(x, "fetch")
        /\ owner' = [owner EXCEPT ![x] = Owner(x, r)]
        /\ UNCHANGED hurt
     \/ /\ r = None
        /\ Goto(x, "ended")
        /\ UNCHANGED <<owner, hurt>>
     \/ /\ {"mysql", "lookup"} \cap Failing # {}
        /\ Proceeds(x, "ended", FALSE)
        /\ UNCHANGED owner
  /\ UNCHANGED <<by, target, tries, data, told, restarts, lost, crossed>>

\* The message is in the user's DM, and not in anyone else's.
There(x) == owner[x] = User /\ dm[target[x]] # "gone"

Fetch(x) ==
  /\ pc[x] = "fetch"
  /\ \/ There(x) /\ Goto(x, "dm") /\ UNCHANGED hurt
     \/ ~There(x) /\ Goto(x, "ended") /\ UNCHANGED hurt
     \/ "lookup" \in Failing /\ Proceeds(x, "ended", FALSE)
  /\ UNCHANGED <<command, tries, data, told, restarts, lost, crossed>>

\* Another edit has changed the message, not yet the row.
Overlaps(x) == \E y \in Edits \ {x} : target[y] = target[x] /\ pc[y] = "row"

\* Faulty variant: the command ends with the message.
NoRow(x) == "ended"

AfterDM(x) == "row"

\* message.edit or delete: a refusal is not noticed.
ChangeDM(x) ==
  LET w == target[x] IN
  /\ pc[x] = "dm"
  /\ \E ok \in Outcomes("dm") :
       /\ Proceeds(x, AfterDM(x), ok)
       /\ dm' = [dm EXCEPT ![w] =
                   IF ~ok THEN @ ELSE IF @ = "gone" \/ x \in Deletes THEN "gone" ELSE x]
  /\ crossed' = IF x \in Edits /\ Overlaps(x) THEN crossed \cup {w} ELSE crossed
  /\ UNCHANGED <<command, tries, row, records, told, restarts, lost>>

\* The row after an UPDATE, which changes none that is gone, or a DELETE.
NewRow(x, r) ==
  IF r = None \/ x \in Deletes THEN None ELSE [author |-> by[x], text |-> x]

ChangeRow(x) ==
  /\ pc[x] = "row"
  /\ \/ /\ row' = [row EXCEPT ![target[x]] = NewRow(x, @)]
        /\ Executed(x)
     \/ /\ Rejected(x, FALSE)
        /\ UNCHANGED row
  /\ UNCHANGED <<command, dm, records, restarts, crossed>>

-----------------------------------------------------------------------------

Running == {x \in Tasks : pc[x] \notin {"idle", "ended"}}

\* The bot ends and starts again: no command survives.
Restart ==
  /\ restarts < MaxRestarts
  /\ Running # {}
  /\ restarts' = restarts + 1
  /\ pc' = [x \in Tasks |-> IF x \in Running THEN "ended" ELSE pc[x]]
  /\ tries' = [x \in Tasks |-> 0]
  /\ hurt' = hurt \cup Running
  /\ UNCHANGED <<command, data, told, lost, crossed>>

Step(x) ==
  \/ x \in Warnings /\ (Send(x) \/ AddVerbal(x))
  \/ x \in Notes /\ AddNote(x)
  \/ x \in Commands /\ (Look(x) \/ Fetch(x) \/ ChangeDM(x) \/ ChangeRow(x))

Next ==
  \/ \E w \in Warnings, m \in Mods : Warn(w, m)
  \/ \E n \in Notes : Note(n)
  \/ \E x \in Commands, w \in Warnings, m \in Mods : Command(x, w, m)
  \/ \E x \in Tasks : Step(x)
  \/ Restart

Spec == Init /\ [][Next]_vars

-----------------------------------------------------------------------------
(* Properties                                                              *)

Labels == {"idle", "send", "insert", "look", "fetch", "dm", "row", "ended"}

TypeOK ==
  /\ pc \in [Tasks -> Labels]
  /\ by \in [Warnings \cup Edits -> Mods]
  /\ target \in [Commands -> Warnings \cup {None}]
  /\ owner \in [Commands -> Mods \cup {User}]
  /\ tries \in [Tasks -> 0 .. 2]
  /\ dm \in [Warnings -> Warnings \cup Edits \cup {"none", "gone"}]
  /\ row \in [Warnings -> [author : Mods, text : Warnings \cup Edits] \cup {None}]
  /\ records \in [Notes -> 0 .. 3]
  /\ told \subseteq Tasks
  /\ restarts \in Nat
  /\ hurt \subseteq Tasks /\ lost \subseteq Tasks /\ crossed \subseteq Warnings

\* verbal_history shows only verbals that the user was sent.
RowDelivered == \A w \in Warnings : row[w] # None => dm[w] # "none"

\* When the commands about a verbal have ended, its row says what the user sees,
\* unless one of them failed, one edit overtook another, or the INSERT was
\* repeated: the verbal may be deleted between its attempts.
RowAgrees ==
  \A w \in Warnings \ (crossed \cup hurt \cup lost) :
    /\ pc[w] = "ended"
    /\ \A x \in Commands : target[x] = w => pc[x] = "ended" /\ x \notin hurt
    => IF row[w] = None THEN dm[w] = "gone" ELSE row[w].text = dm[w]

\* "Saved note": the note has a row, and just one unless an attempt was carried
\* out in vain.
NoteSaved ==
  \A n \in Notes \cap told : records[n] >= 1 /\ (n \notin lost => records[n] = 1)
=============================================================================
