-------------------------- MODULE TicketLifecycle --------------------------
(***************************************************************************)
(* The tickets of one user: opening (classes/ticket_submitter.py and       *)
(* classes/ticket_opener.py), finding and closing them (cogs/analytics.py, *)
(* cogs/tickets.py), over the three places that know of a ticket:          *)
(*                                                                         *)
(*   rows      tickets_v2 in MySQL, one row for a channel                  *)
(*   cached    the Redis hash user_tickets:<user>, one field for a server; *)
(*             when it is not empty it is believed without asking MySQL    *)
(*   channels  the ticket channels on Discord                              *)
(*                                                                         *)
(* Every task is a coroutine and every action one awaited call, with what  *)
(* the task does up to the next one.  A ticket is named by the form that   *)
(* opens it.  Log messages, threads and embeds are left out, as are the    *)
(* statistics and logs at the end of a close (MessageBuffer has the flush, *)
(* StatusTimers the timers).                                               *)
(***************************************************************************)
EXTENDS Integers, FiniteSets

CONSTANTS
  Guilds,       \* servers the user shares with the bot
  Forms,        \* attempts of the user to open a ticket
  DMs,          \* messages of the user to the bot
  Closes,       \* runs of close_ticket: commands and expired timers
  Faults,       \* whether calls to Redis, MySQL and Discord may fail
  MaxRestarts,  \* bound on the restarts of the bot
  None          \* no ticket

ASSUME TicketLifecycleAssumption ==
  /\ Faults \in BOOLEAN
  /\ MaxRestarts \in Nat
  /\ Forms \cap DMs = {}
  /\ Forms \cap Closes = {}
  /\ DMs \cap Closes = {}
  /\ None \notin Forms

Readers == Forms \cup DMs
Tasks == Readers \cup Closes

VARIABLES
  rows,      \* state of each ticket's row
  cached,    \* the ticket in each server's field of the hash
  ttl,       \* whether the hash has an expiry
  channels,  \* ticket channels that exist
  guild,     \* the server of each form
  opening,   \* forms that were submitted
  pc,        \* where each task is
  read,      \* the open tickets a reader got from MySQL
  left,      \* those it has still to write to the hash
  at,        \* the ticket a close is for
  sent,      \* closes whose closing message was sent
  restarts,
  early,     \* history: tickets closed before they had a row
  stuck,     \* history: tickets with a close that failed halfway
  cut        \* history: an EXPIRE did not follow its HSET

redis   == <<cached, ttl>>
readers == <<guild, opening, read, left>>
closes  == <<at, sent>>
history == <<early, stuck, cut>>
vars == <<rows, redis, channels, readers, pc, closes, restarts, history>>

ReaderPCs == {"idle", "loading", "filling", "expiring", "form", "refused",
              "creating", "inserting", "opened", "failed", "done"}
ClosePCs == {"idle", "updating", "uncaching", "unlinking", "deleting", "done"}

Init ==
  /\ rows = [f \in Forms |-> "none"]
  /\ cached = [g \in Guilds |-> None]
  /\ ttl = FALSE
  /\ channels = {}
  /\ guild \in [Forms -> Guilds]
  /\ opening = {}
  /\ pc = [t \in Tasks |-> "idle"]
  /\ read = [t \in Readers |-> {}]
  /\ left = [t \in Readers |-> {}]
  /\ at = [k \in Closes |-> None]
  /\ sent = {}
  /\ restarts = 0
  /\ early = {}
  /\ stuck = {}
  /\ cut = FALSE

Goto(t, l) == pc' = [pc EXCEPT ![t] = l]

OpenRows == {f \in Forms : rows[f] = "open"}
CachedTickets == {cached[g] : g \in Guilds} \ {None}

\* What HSET and HDEL do: a hash that was empty is a new key, without expiry,
\* and one that gets empty is gone with its expiry.
SetField(f) ==
  /\ cached' = [cached EXCEPT ![guild[f]] = f]
  /\ ttl' = (ttl /\ CachedTickets # {})

DeleteField(g) ==
  /\ cached' = [cached EXCEPT ![g] = None]
  /\ ttl' = (ttl /\ \E h \in Guilds : cached'[h] # None)

-----------------------------------------------------------------------------
(* get_or_load_user_tickets                                                *)

\* A task that ends leaves nothing behind of what it read or was about.
Forget(t) ==
  /\ read' = [read EXCEPT ![t] = {}]
  /\ left' = [left EXCEPT ![t] = {}]

\* Where a reader goes on with the tickets it was given: a submitted form has
\* opened its ticket, a server was selected for a form, or a message is
\* routed.
Verdict(t, tickets) ==
  IF t \in opening THEN "opened"
  ELSE IF t \in DMs THEN "done"
  ELSE IF \E f \in tickets : guild[f] = guild[t] THEN "refused" ELSE "form"

\* hgetall; an empty hash sends the reader to MySQL.
Lookup(t) ==
  /\ pc[t] = "idle"
  /\ t \in Readers
  /\ Goto(t, IF CachedTickets = {} THEN "loading" ELSE Verdict(t, CachedTickets))
  /\ UNCHANGED <<rows, redis, channels, readers, closes, restarts, history>>

LoadRows(t) ==
  /\ pc[t] = "loading"
  /\ read' = [read EXCEPT ![t] = OpenRows]
  /\ left' = [left EXCEPT ![t] = OpenRows]
  /\ Goto(t, IF OpenRows = {} THEN Verdict(t, {}) ELSE "filling")
  /\ UNCHANGED <<rows, redis, channels, guild, opening, closes, restarts, history>>

\* hset of one ticket.
Fill(t, f) ==
  /\ pc[t] = "filling"
  /\ f \in left[t]
  /\ SetField(f)
  /\ left' = [left EXCEPT ![t] = @ \ {f}]
  /\ Goto(t, "expiring")
  /\ UNCHANGED <<rows, channels, guild, opening, read, closes, restarts, history>>

\* Faulty variant: an expiry is prolonged, never set anew.
ExpiryProlonged(t) == ttl

\* expire does nothing to a key that is gone.
ExpirySet(t) == CachedTickets # {}

SetExpiry(t) ==
  /\ pc[t] = "expiring"
  /\ ttl' = ExpirySet(t)
  /\ \/ left[t] # {} /\ Goto(t, "filling") /\ UNCHANGED <<read, left>>
     \/ left[t] = {} /\ Goto(t, Verdict(t, read[t])) /\ Forget(t)
  /\ UNCHANGED <<rows, cached, channels, guild, opening, closes, restarts, history>>

\* The exception ends the callback without a word, or fails the opening.  An
\* HSET may have been done all the same.
ReadFails(t) ==
  /\ Faults
  /\ pc[t] \in {"loading", "filling", "expiring"}
  /\ Goto(t, IF t \in opening THEN "failed" ELSE "done")
  /\ Forget(t)
  /\ \/ UNCHANGED redis /\ cut' = (cut \/ pc[t] = "expiring")
     \/ pc[t] = "filling" /\ (\E f \in left[t] : SetField(f)) /\ cut' = TRUE
  /\ UNCHANGED <<rows, channels, guild, opening, closes, restarts, early, stuck>>

\* REDIS_TTL has passed.
HashExpires ==
  /\ ttl
  /\ cached' = [g \in Guilds |-> None]
  /\ ttl' = FALSE
  /\ UNCHANGED <<rows, channels, readers, pc, closes, restarts, history>>

-----------------------------------------------------------------------------
(* open_ticket                                                             *)

\* The user submits the form; nothing looks for an open ticket again.
Submit(f) ==
  /\ pc[f] = "form"
  /\ opening' = opening \cup {f}
  /\ Goto(f, "creating")
  /\ UNCHANGED <<rows, redis, channels, guild, read, left, closes, restarts, history>>

\* Faulty variant: the ticket is cached as soon as its channel exists.
CreateAndCache(f) ==
  /\ pc[f] = "creating"
  /\ channels' = channels \cup {f}
  /\ cached' = [cached EXCEPT ![guild[f]] = f]
  /\ ttl' = TRUE
  /\ Goto(f, "inserting")
  /\ UNCHANGED <<rows, readers, closes, restarts, history>>

CreateChannel(f) ==
  /\ pc[f] = "creating"
  /\ channels' = channels \cup {f}
  /\ Goto(f, "inserting")
  /\ UNCHANGED <<rows, redis, readers, closes, restarts, history>>

\* No log message, thread or channel: the user is told so.
CreateFails(f) ==
  /\ Faults
  /\ pc[f] = "creating"
  /\ Goto(f, "failed")
  /\ UNCHANGED <<rows, redis, channels, readers, closes, restarts, history>>

\* The new row, then a reload of the hash from MySQL.
InsertRow(f) ==
  /\ pc[f] = "inserting"
  /\ rows' = [rows EXCEPT ![f] = "open"]
  /\ Goto(f, "loading")
  /\ UNCHANGED <<redis, channels, readers, closes, restarts, history>>

\* The outcome of the INSERT is an error, whether or not the row is there.
InsertFails(f) ==
  /\ Faults
  /\ pc[f] = "inserting"
  /\ \/ UNCHANGED rows
     \/ rows' = [rows EXCEPT ![f] = "open"]
  /\ Goto(f, "failed")
  /\ UNCHANGED <<redis, channels, readers, closes, restarts, history>>

-----------------------------------------------------------------------------
(* close_ticket and delete_channel                                         *)

\* A close that ends forgets its ticket and its closing message.
Leave(k) ==
  /\ at' = [at EXCEPT ![k] = None]
  /\ sent' = sent \ {k}

\* A closing message that Discord refuses is None, and the close goes on.
Close(k, f) ==
  /\ pc[k] = "idle"
  /\ f \in channels
  /\ at' = [at EXCEPT ![k] = f]
  /\ \/ sent' = sent \cup {k}
     \/ Faults /\ UNCHANGED sent
  /\ Goto(k, "updating")
  /\ UNCHANGED <<rows, redis, channels, readers, restarts, history>>

\* Faulty variant: a state that the column does not have.
NotInEnum(f) == IF rows[f] = "none" THEN "none" ELSE "close"

\* The UPDATE closes the row, if there is one.
Closed(f) == IF rows[f] = "none" THEN "none" ELSE "closed"

UpdateRow(k) ==
  LET f == at[k] IN
  /\ pc[k] = "updating"
  /\ rows' = [rows EXCEPT ![f] = Closed(f)]
  /\ early' = IF rows[f] = "none" THEN early \cup {f} ELSE early
  /\ Goto(k, "uncaching")
  /\ UNCHANGED <<redis, channels, readers, closes, restarts, stuck, cut>>

\* hdel of the server's field, whichever ticket is in it.
Uncache(k) ==
  /\ pc[k] = "uncaching"
  /\ DeleteField(guild[at[k]])
  /\ Goto(k, "unlinking")
  /\ UNCHANGED <<rows, channels, readers, closes, restarts, history>>

\* Faulty variant: nobody deletes the channel.
UnlinkOnly(k) ==
  /\ pc[k] = "unlinking"
  /\ Goto(k, "done")
  /\ Leave(k)
  /\ UNCHANGED <<rows, redis, channels, readers, restarts, history>>

\* The reply links and the queued status go, and delete_channel is scheduled.
Unlink(k) ==
  /\ pc[k] = "unlinking"
  /\ Goto(k, "deleting")
  /\ UNCHANGED <<rows, redis, channels, readers, closes, restarts, history>>

\* Faulty variant: the channel is deleted after a data error as well.
CloseFailsThenDeletes(k) ==
  /\ Faults
  /\ pc[k] \in {"updating", "uncaching", "unlinking"}
  /\ Goto(k, "deleting")
  /\ UNCHANGED <<rows, redis, channels, readers, closes, restarts, history>>

\* "Data error on ticket close": the channel stays.  The call that failed may
\* have been done all the same.
CloseFails(k) ==
  LET f == at[k] IN
  /\ Faults
  /\ pc[k] \in {"updating", "uncaching", "unlinking"}
  /\ \/ UNCHANGED <<rows, redis>>
     \/ pc[k] = "updating" /\ rows' = [rows EXCEPT ![f] = Closed(f)] /\ UNCHANGED redis
     \/ pc[k] = "uncaching" /\ DeleteField(guild[f]) /\ UNCHANGED rows
  /\ stuck' = stuck \cup {f}
  /\ Goto(k, "done")
  /\ Leave(k)
  /\ UNCHANGED <<channels, readers, restarts, early, cut>>

\* delete_channel edits the closing message first: without one it raises.
Deletes(k) == k \in sent

DeleteChannel(k) ==
  /\ pc[k] = "deleting"
  /\ \/ Deletes(k) /\ channels' = channels \ {at[k]} /\ UNCHANGED stuck
     \/ (~Deletes(k) \/ Faults) /\ stuck' = stuck \cup {at[k]} /\ UNCHANGED channels
  /\ Goto(k, "done")
  /\ Leave(k)
  /\ UNCHANGED <<rows, redis, readers, restarts, early, cut>>

-----------------------------------------------------------------------------
\* The bot ends and starts again; views, forms and tasks do not survive.
Restart ==
  /\ restarts < MaxRestarts
  /\ restarts' = restarts + 1
  /\ pc' = [t \in Tasks |-> IF pc[t] \in {"idle", "refused", "opened", "failed"} THEN pc[t] ELSE "done"]
  /\ read' = [t \in Readers |-> {}]
  /\ left' = [t \in Readers |-> {}]
  /\ at' = [k \in Closes |-> None]
  /\ sent' = {}
  /\ stuck' = stuck \cup ({at[k] : k \in Closes} \ {None})
  /\ cut' = (cut \/ \E t \in Readers : pc[t] = "expiring")
  /\ UNCHANGED <<rows, redis, channels, guild, opening, early>>

\* Nothing is under way and the user has left his forms alone.
Terminated ==
  /\ \A t \in Tasks : pc[t] \in {"idle", "form", "refused", "opened", "failed", "done"}
  /\ UNCHANGED vars

Read(t) ==
  \/ LoadRows(t)
  \/ \E f \in Forms : Fill(t, f)
  \/ SetExpiry(t)
  \/ ReadFails(t)

Open(f) ==
  \/ CreateChannel(f)
  \/ CreateFails(f)
  \/ InsertRow(f)
  \/ InsertFails(f)

Proceed(k) ==
  \/ UpdateRow(k)
  \/ Uncache(k)
  \/ Unlink(k)
  \/ CloseFails(k)
  \/ DeleteChannel(k)

Next ==
  \/ \E t \in Readers : Lookup(t) \/ Read(t)
  \/ \E f \in Forms : Submit(f) \/ Open(f)
  \/ \E k \in Closes : Proceed(k) \/ \E f \in Forms : Close(k, f)
  \/ HashExpires
  \/ Restart
  \/ Terminated

Spec == Init /\ [][Next]_vars

\* Tasks that were started go on, and Redis expires what has an expiry.
\* Nobody has to open or close a ticket or to submit a form.
Fairness ==
  /\ \A t \in Readers : WF_vars(Read(t))
  /\ \A f \in Forms : WF_vars(Open(f))
  /\ \A k \in Closes : WF_vars(Proceed(k))
  /\ WF_vars(HashExpires)

FairSpec == Spec /\ Fairness

-----------------------------------------------------------------------------
(* Properties                                                              *)

TypeOK ==
  /\ rows \in [Forms -> {"none", "open", "closed"}]
  /\ cached \in [Guilds -> Forms \cup {None}]
  /\ ttl \in BOOLEAN
  /\ channels \subseteq Forms
  /\ guild \in [Forms -> Guilds]
  /\ opening \subseteq Forms
  /\ pc \in [Tasks -> ReaderPCs \cup ClosePCs]
  /\ read \in [Readers -> SUBSET Forms]
  /\ left \in [Readers -> SUBSET Forms]
  /\ at \in [Closes -> Forms \cup {None}]
  /\ sent \subseteq Closes
  /\ restarts \in Nat
  /\ early \subseteq Forms
  /\ stuck \subseteq Forms
  /\ cut \in BOOLEAN

\* What the hash says of a server is a ticket of that server that was
\* recorded, however loads, closes and expiry interleave.
CachedIsRecorded ==
  \A g \in Guilds : cached[g] # None => guild[cached[g]] = g /\ rows[cached[g]] # "none"

\* The forms implement the ticket: each has one channel and one row, and however
\* closes fail, overlap, come twice or come before the row, nothing reopens it.
Promise ==
  INSTANCE Ticket
    WITH Tickets <- Forms,
         recorded <- {f \in Forms : rows[f] # "none"},
         closed <- {f \in Forms : rows[f] = "closed"},
         overtaken <- early

TicketSpec == Promise!Spec

\* The channel of a closed ticket goes away, unless a close of it failed.
ClosedChannelGoes == \A f \in Forms : rows[f] = "closed" ~> f \notin channels \/ f \in stuck

\* A field that names a closed ticket does not stay: the hash expires, unless
\* an EXPIRE was cut off from its HSET.
StaleEntryGoes ==
  \A f \in Forms : cached[guild[f]] = f /\ rows[f] = "closed" ~> cached[guild[f]] # f \/ cut
=============================================================================
