---------------------------- MODULE StatusTimers ----------------------------
(***************************************************************************)
(* The status emoji and the inactivity timer of ticket channels            *)
(* (classes/channel_status.py), as the moderators' commands, the replies   *)
(* and the two background workers change them.                             *)
(*                                                                         *)
(* A status is queued in pending_updates and should reach the channel's    *)
(* name through the status worker.  +inactive arms a timer and shows the   *)
(* ticket as inactive; +active, a reply of the ticket's user and +close    *)
(* take the timer away; the timer worker closes a ticket whose timer has   *)
(* expired.  Everything lives in the memory of the bot.                    *)
(*                                                                         *)
(* An action is what one coroutine does between two awaits that matter     *)
(* here.  Closing a ticket is one step of its database and Redis records   *)
(* (TicketLifecycle has the detail).  Time is the step from armed to       *)
(* expired.                                                                *)
(***************************************************************************)
EXTENDS Integers, FiniteSets

CONSTANTS
  Chans,        \* ticket channels
  Mods,         \* moderators' commands that may be under way together
  Workers,      \* pairs of workers: each READY of the gateway starts one
  Faults,       \* whether MySQL, Redis and Discord may fail a close
  MaxRestarts,  \* bound on the restarts of the bot
  None          \* no channel

ASSUME StatusTimersAssumption ==
  /\ Faults \in BOOLEAN
  /\ MaxRestarts \in Nat
  /\ None \notin Chans

\* "none": nothing is pending, and the name of a channel carries no status of
\* its own.  "blank": the empty name that the NSFW rename makes of a channel
\* without a status.  "kept": the emojis that are permanent in emoji_map.
Statuses == {"none", "blank", "new", "alert", "wait", "inactive", "kept"}
Commands == {"active", "close"}

VARIABLES
  status,     \* pending_updates: the status queued for each channel
  shown,      \* the status in the channel's name on Discord
  dated,      \* last_update_times: the channels that have an entry
  timer,      \* timers
  channels,   \* ticket channels that exist
  closed,     \* tickets whose row is closed
  cmd,        \* the command each moderator has under way, past its first await
  at,         \* its channel
  reply,      \* channels with a user's reply between remove_timer and set_emoji
  started,    \* workers that run
  todo,       \* the expired timers a timer worker has collected
  cur,        \* the one it is at
  wpc,        \* where it is: sleeping, next, closing, popping
  restarts,
  promised,   \* history: announced "This ticket will close" and not taken back
  dropped,    \* history: promised, but the timer went away without a close
  raced       \* history: +inactive came between the two steps of an +active

inMemory == <<status, timer, dated>>
discord  == <<shown, channels, closed>>
tasks    == <<cmd, at, reply>>
workers  == <<started, todo, cur, wpc>>
history  == <<promised, dropped, raced>>
vars == <<inMemory, discord, tasks, workers, restarts, history>>

Init ==
  /\ status = [c \in Chans |-> "none"]
  /\ shown = [c \in Chans |-> "none"]
  /\ dated = {}
  /\ timer = [c \in Chans |-> "off"]
  /\ channels = {}
  /\ closed = {}
  /\ cmd = [m \in Mods |-> "none"]
  /\ at = [m \in Mods |-> None]
  /\ reply = {}
  /\ started = {}
  /\ todo = [w \in Workers |-> {}]
  /\ cur = [w \in Workers |-> None]
  /\ wpc = [w \in Workers |-> "sleeping"]
  /\ restarts = 0
  /\ promised = {}
  /\ dropped = {}
  /\ raced = {}

Running == started # {}

-----------------------------------------------------------------------------
(* queue_update: whether an update is accepted, and what it does.          *)

\* Faulty variant: an automatic "wait" may replace "inactive".
WaitAllowed(old, new) == (old = "new" /\ new = "alert") \/ old = "kept"

\* The transitions no automatic update may make.
Restricted(old, new) ==
  \/ old = "new" /\ new = "alert"
  \/ old = "inactive" /\ new = "wait"
  \/ old = "kept"

\* Faulty variant: an alert leaves the timer of an inactive ticket armed.
NeverDisarms(old, new) == FALSE

\* The special case: an alert on an inactive ticket deletes its timer.
Disarms(old, new) == old = "inactive" /\ new = "alert"

\* A command's status goes in whatever was queued before.
QueueManual(c, s) == status' = [status EXCEPT ![c] = s]

QueueAutomatic(c, s) ==
  IF Restricted(status[c], s)
    THEN UNCHANGED <<status, timer>>
    ELSE /\ status' = [status EXCEPT ![c] = s]
         /\ timer' = [timer EXCEPT ![c] = IF Disarms(status[c], s) THEN "off" ELSE @]

-----------------------------------------------------------------------------
(* Tickets, replies and commands                                           *)

\* open_ticket has created the channel and queues its first status.
NewTicket(c) ==
  /\ Running
  /\ c \notin channels \cup closed
  /\ channels' = channels \cup {c}
  /\ QueueAutomatic(c, "new")
  /\ UNCHANGED <<shown, dated, closed, tasks, workers, restarts, history>>

\* A moderator's reply has gone out.
StaffReply(c) ==
  /\ Running
  /\ c \in channels
  /\ QueueAutomatic(c, "wait")
  /\ UNCHANGED <<dated, discord, tasks, workers, restarts, history>>

\* A message of the user has been relayed: first remove_timer, which waits for
\* Redis when there was a timer, ...
UserReply(c) ==
  /\ Running
  /\ c \in channels
  /\ \/ /\ timer[c] # "off"
        /\ c \notin reply
        /\ timer' = [timer EXCEPT ![c] = "off"]
        /\ reply' = reply \cup {c}
        /\ UNCHANGED status
     \/ /\ timer[c] = "off"
        /\ QueueAutomatic(c, "alert")
        /\ UNCHANGED reply
  /\ promised' = promised \ {c}
  /\ raced' = raced \ {c}
  /\ UNCHANGED <<dated, discord, cmd, at, workers, restarts, dropped>>

\* ... then set_emoji.
UserReplyEnds(c) ==
  /\ c \in reply
  /\ reply' = reply \ {c}
  /\ QueueAutomatic(c, "alert")
  /\ promised' = IF timer'[c] = "off" /\ timer[c] # "off" THEN promised \ {c} ELSE promised
  /\ UNCHANGED <<dated, discord, cmd, at, workers, restarts, dropped, raced>>

\* /status, with one of the statuses it offers; it refuses an inactive ticket.
SetStatus(c, s) ==
  /\ Running
  /\ c \in channels
  /\ status[c] # "inactive"
  /\ QueueManual(c, s)
  /\ UNCHANGED <<timer, dated, discord, tasks, workers, restarts, history>>

\* /move and +nsfw put the NSFW mark behind the status; a channel without one
\* gets the empty name.
MarkNSFW(c) ==
  /\ Running
  /\ c \in channels
  /\ status[c] = "none"
  /\ status' = [status EXCEPT ![c] = "blank"]
  /\ UNCHANGED <<timer, dated, discord, tasks, workers, restarts, history>>

Begins(m, k, c) ==
  /\ cmd' = [cmd EXCEPT ![m] = k]
  /\ at' = [at EXCEPT ![m] = c]
  /\ UNCHANGED reply

\* Faulty variant: the command is not taken off the list.
HalfEnds(m) ==
  /\ at' = [at EXCEPT ![m] = None]
  /\ UNCHANGED <<cmd, reply>>

Ends(m) ==
  /\ cmd' = [cmd EXCEPT ![m] = "none"]
  /\ at' = [at EXCEPT ![m] = None]
  /\ UNCHANGED reply

\* +inactive finds no timer, shows the ticket as inactive and arms one: it waits
\* for nothing in between.
Inactive(c) ==
  /\ Running
  /\ c \in channels
  /\ timer[c] = "off"
  /\ QueueManual(c, "inactive")
  /\ timer' = [timer EXCEPT ![c] = "armed"]
  /\ promised' = IF c \in closed THEN promised ELSE promised \cup {c}
  /\ dropped' = dropped \ {c}
  /\ raced' = IF \E m \in Mods : cmd[m] = "active" /\ at[m] = c THEN raced \cup {c} ELSE raced
  /\ UNCHANGED <<dated, discord, tasks, workers, restarts>>

\* +active takes the timer away and waits for Redis ...
Active(m, c) ==
  /\ Running
  /\ cmd[m] = "none"
  /\ c \in channels
  /\ timer[c] # "off"
  /\ timer' = [timer EXCEPT ![c] = "off"]
  /\ Begins(m, "active", c)
  /\ promised' = promised \ {c}
  /\ raced' = raced \ {c}
  /\ UNCHANGED <<status, dated, discord, workers, restarts, dropped>>

\* ... then shows the ticket as waiting.
ActiveSet(m) ==
  /\ cmd[m] = "active"
  /\ QueueManual(at[m], "wait")
  /\ Ends(m)
  /\ UNCHANGED <<timer, dated, discord, workers, restarts, history>>

\* +close takes the timer away and waits for Redis ...
Close(m, c) ==
  /\ Running
  /\ cmd[m] = "none"
  /\ c \in channels
  /\ timer' = [timer EXCEPT ![c] = "off"]
  /\ Begins(m, "close", c)
  /\ promised' = promised \ {c}
  /\ raced' = raced \ {c}
  /\ UNCHANGED <<status, dated, discord, workers, restarts, dropped>>

\* close_ticket records the close and takes the channel out of the queue.
Record(c) ==
  /\ closed' = closed \cup {c}
  /\ status' = [status EXCEPT ![c] = "none"]
  /\ promised' = promised \ {c}
  /\ dropped' = dropped \ {c}

\* Its data error leaves the queue alone; the row may be closed by then.
RecordFails(c) ==
  /\ Faults
  /\ \/ UNCHANGED <<closed, promised>>
     \/ /\ closed' = closed \cup {c}
        /\ promised' = promised \ {c}
  /\ dropped' = dropped \ closed'
  /\ UNCHANGED status

CloseSet(m) ==
  /\ cmd[m] = "close"
  /\ Record(at[m]) \/ RecordFails(at[m])
  /\ Ends(m)
  /\ UNCHANGED <<timer, dated, shown, channels, workers, restarts, raced>>

\* delete_channel, or an administrator, after the close.
ChannelDeleted(c) ==
  /\ c \in channels \cap closed
  /\ channels' = channels \ {c}
  /\ dated' = dated \ {c}
  /\ UNCHANGED <<status, timer, shown, closed, tasks, workers, restarts, history>>

-----------------------------------------------------------------------------
(* The workers                                                             *)

\* on_ready starts a status worker and a timer worker, each time it is called.
Ready(w) ==
  /\ w \notin started
  /\ started' = started \cup {w}
  /\ UNCHANGED <<inMemory, discord, tasks, todo, cur, wpc, restarts, history>>

\* The channels whose update is due are collected in a list that the function
\* does not return: the worker gets None.
Collected == {}

\* A pass of channel_status_worker.  Collecting gives each pending channel its
\* first entry in last_update_times, unless the channel is new.
StatusPass ==
  /\ Running
  /\ dated' = dated \cup {c \in Chans : status[c] \notin {"none", "new"}}
  /\ shown' = [c \in Chans |-> IF c \in Collected THEN status[c] ELSE shown[c]]
  /\ UNCHANGED <<status, timer, channels, closed, tasks, workers, restarts, history>>

Expire(c) ==
  /\ timer[c] = "armed"
  /\ timer' = [timer EXCEPT ![c] = "expired"]
  /\ UNCHANGED <<status, dated, discord, tasks, workers, restarts, history>>

WorkerAt(w, l) == wpc' = [wpc EXCEPT ![w] = l]

Expired == {c \in Chans : timer[c] = "expired"}

\* The worker takes c and looks for its channel, which may be gone or not be
\* found in time.
Take(w, c) ==
  /\ cur' = [cur EXCEPT ![w] = c]
  /\ \/ c \in channels /\ WorkerAt(w, "closing")
     \/ (c \notin channels \/ Faults) /\ WorkerAt(w, "popping")

\* A pass of timer_worker begins with a snapshot of the expired timers, and
\* takes one of them at once.
CollectExpired(w, c) ==
  /\ w \in started
  /\ wpc[w] = "sleeping"
  /\ c \in Expired
  /\ todo' = [todo EXCEPT ![w] = Expired \ {c}]
  /\ Take(w, c)
  /\ UNCHANGED <<inMemory, discord, tasks, started, restarts, history>>

\* It takes the next one when it has slept after the one before.
NextExpired(w, c) ==
  /\ wpc[w] = "next"
  /\ c \in todo[w]
  /\ todo' = [todo EXCEPT ![w] = @ \ {c}]
  /\ Take(w, c)
  /\ UNCHANGED <<inMemory, discord, tasks, started, restarts, history>>

CloseExpired(w) ==
  /\ wpc[w] = "closing"
  /\ Record(cur[w]) \/ RecordFails(cur[w])
  /\ WorkerAt(w, "popping")
  /\ UNCHANGED <<timer, dated, shown, channels, tasks, started, todo, cur, restarts, raced>>

\* Faulty variant: the worker waits for another timer of its snapshot.
NeverSleeps(w) == "next"

AfterPop(w) == IF todo[w] = {} THEN "sleeping" ELSE "next"

\* Whatever came of the close, the timer goes.
PopTimer(w) ==
  LET c == cur[w] IN
  /\ wpc[w] = "popping"
  /\ timer' = [timer EXCEPT ![c] = "off"]
  /\ cur' = [cur EXCEPT ![w] = None]
  /\ WorkerAt(w, AfterPop(w))
  /\ dropped' = dropped \cup ({c} \cap promised)
  /\ raced' = raced \ {c}
  /\ UNCHANGED <<status, dated, discord, tasks, started, todo, restarts, promised>>

\* The bot ends and starts again: the queue and the timers are gone, the
\* loading of both is commented out in data_startup.
Restart ==
  /\ Running
  /\ restarts < MaxRestarts
  /\ restarts' = restarts + 1
  /\ status' = [c \in Chans |-> "none"]
  /\ timer' = [c \in Chans |-> "off"]
  /\ dated' = {}
  /\ cmd' = [m \in Mods |-> "none"]
  /\ at' = [m \in Mods |-> None]
  /\ reply' = {}
  /\ started' = {}
  /\ todo' = [w \in Workers |-> {}]
  /\ cur' = [w \in Workers |-> None]
  /\ wpc' = [w \in Workers |-> "sleeping"]
  /\ dropped' = dropped \cup promised
  /\ raced' = {}
  /\ UNCHANGED <<discord, promised>>

TimerPass(w) ==
  \/ \E c \in Chans : CollectExpired(w, c) \/ NextExpired(w, c)
  \/ CloseExpired(w)
  \/ PopTimer(w)

Command(m) == ActiveSet(m) \/ CloseSet(m)

Next ==
  \/ \E c \in Chans : NewTicket(c) \/ StaffReply(c) \/ UserReply(c) \/ UserReplyEnds(c)
  \/ \E c \in Chans : Inactive(c) \/ MarkNSFW(c) \/ \E s \in {"new", "alert", "wait", "kept"} : SetStatus(c, s)
  \/ \E m \in Mods, c \in Chans : Active(m, c) \/ Close(m, c)
  \/ \E m \in Mods : Command(m)
  \/ \E c \in Chans : ChannelDeleted(c) \/ Expire(c)
  \/ \E w \in Workers : Ready(w) \/ TimerPass(w)
  \/ StatusPass
  \/ Restart

Spec == Init /\ [][Next]_vars

\* Time passes, the bot gets ready and its workers keep running, and a command
\* or reply under way goes on to its end.  Nobody has to write or to command
\* anything.
Fairness ==
  /\ WF_vars(~Running /\ \E w \in Workers : Ready(w))
  /\ WF_vars(StatusPass)
  /\ \A w \in Workers : WF_vars(TimerPass(w))
  /\ \A c \in Chans : WF_vars(Expire(c)) /\ WF_vars(UserReplyEnds(c))
  /\ \A m \in Mods : WF_vars(Command(m))

FairSpec == Spec /\ Fairness

-----------------------------------------------------------------------------
(* Properties                                                              *)

TypeOK ==
  /\ status \in [Chans -> Statuses]
  /\ shown \in [Chans -> Statuses]
  /\ dated \subseteq Chans
  /\ timer \in [Chans -> {"off", "armed", "expired"}]
  /\ channels \subseteq Chans
  /\ closed \subseteq Chans
  /\ cmd \in [Mods -> Commands \cup {"none"}]
  /\ at \in [Mods -> Chans \cup {None}]
  /\ reply \subseteq Chans
  /\ started \subseteq Workers
  /\ todo \in [Workers -> SUBSET Chans]
  /\ cur \in [Workers -> Chans \cup {None}]
  /\ wpc \in [Workers -> {"sleeping", "next", "closing", "popping"}]
  /\ restarts \in Nat
  /\ promised \subseteq Chans
  /\ dropped \subseteq Chans
  /\ raced \subseteq Chans

\* A ticket with a timer is queued as inactive, whatever replies, statuses and
\* commands went on in its channel since, unless +inactive and +active ran
\* into each other there or the ticket is closed.
ArmedIsInactive ==
  \A c \in Chans \ (closed \cup raced) : timer[c] # "off" => status[c] = "inactive"

\* A reply of the user ends with the timer gone, also when +inactive comes
\* between its two steps.
ReplyDisarms ==
  [][\A c \in Chans \ (closed \cup raced) : UserReplyEnds(c) => timer'[c] = "off"]_vars

\* The channels implement the ticket: nothing that commands, replies and workers
\* do, twice or too late, closes what is not there or reopens what is closed.
Promise ==
  INSTANCE Ticket
    WITH Tickets <- Chans, recorded <- channels \cup closed, overtaken <- {}

TicketSpec == Promise!Spec

\* A ticket announced to close is closed, unless somebody writes or takes it
\* back; the bot may lose the timer only in a restart or in a failing close.
PromiseKept == \A c \in Chans : c \in promised ~> c \notin promised \/ c \in dropped
=============================================================================
