# MailBee in TLA+

MailBee is a Discord bot for support tickets: a member talks to the bot in
direct messages, the staff of a server in a ticket channel. It is one Python
process with one asyncio event loop; what it must not forget it keeps in MySQL,
what it wants to find fast in Redis, and the timers and queued channel names only
in memory. These modules model the parts where that division is hard: several
coroutines at once, stores that fail one after the other, and restarts.

## Inventory

| Component | Source | State | Operations | Hard because |
|---|---|---|---|---|
| Message buffer | `classes/data_manager.py` 1434-1613, callers in `cogs/analytics.py`, `tickets.py`, `stats.py`, `util.py` | one Redis hash per message, two counters, `flush_lock`, two message tables | add, flush v1 and v2, empty v1 and v2 | flushes, stores and emptying interleave; a commit whose outcome is lost; failures that are swallowed |
| Channel status and timers | `classes/channel_status.py`, commands in `cogs/tickets.py`, replies in `cogs/analytics.py` | `pending_updates`, `last_update_times`, `timers`, channel names | `queue_update`, `set_emoji`, the timer functions, two workers, `+inactive`, `+active`, `+close`, `/status` | a worker works from a snapshot; commands and replies in two steps; nothing survives a restart |
| Ticket lifecycle | `classes/ticket_submitter.py`, `ticket_opener.py`, `cogs/tickets.py` 18-181, `data_manager.py` 306-413, 1112-1138 | row in `tickets_v2`, Redis hash of the user, Discord channel | select server, submit form, open, close, delete channel | three stores without a transaction over them; read-through cache; check long before use |
| Message routing, reply links | `cogs/analytics.py`, `tickets.py`, `data_manager.py` 1015-1034 | three copies of each message, `linked_msgs:` hashes | relay to server and to DM, comments, edit, delete | every copy is a call of its own that may be refused; events and edits overtake one another |
| Rate limiter | `classes/rate_limiter.py`, `core.py` 67-132 | buckets, `global_reset`, `call_timestamps`, user cooldowns | `call`, `check_user_action_cooldown` | sleeps and retries while locks are held, and state changes meanwhile |
| Configuration, types, permissions, snips, blacklist | `data_manager.py` 209-303, 529-710, 1036-1345, `cogs/config.py`, `snips.py`, `utils/checks.py` | MySQL tables, Redis copies with expiry, `access_roles` | set, get or load, invalidate | a load that runs beside a change |
| Notes and verbals | `cogs/moderation.py`, `data_manager.py` 83-171, 713-879 | tables, the DM of the warned user | add, edit, delete, history | DM and row change one after the other; a statement that was carried out is tried again |
| Discord object cache | `classes/cache.py` | three dicts with times | store, get | stale entries |
| Startup and shutdown | `core.py`, `main.py`, `data_manager.py` 48-82, 172-193, 899-1008 | pool, Redis client, worker tasks | READY, connect, close | READY comes more than once |
| Statistics | `cogs/stats.py`, `cogs/analytics.py`, `utils/queries.py` | none (read-only SQL) | queries | one figure is selected in many places; NULL and empty averages |
| Server events | `cogs/events.py` | - | channel and category deletion | - |
| Roblox data, profiles, public and admin commands, helpers, paginator, error handler | `roblox_data/`, the other `cogs/` and `classes/` | none of their own | - | I/O and presentation |

How they interact: analytics hands every relayed message to the message buffer
and sets the channel's status; `close_ticket` (called by `+close` and by the timer
worker) closes the row, takes the ticket out of the user's hash, takes the
channel out of the status queue, schedules `delete_channel` and then flushes the
buffer before it reads the ticket's figures; opening a ticket queues the first
status and reloads the user's hash. All Discord calls go through the rate
limiter, which answers None when it gives up.

What makes each correct: no accepted message is lost and figures are complete
(buffer); an announced close happens, an answered ticket is left alone, a status
shows (timers); cache, row and channel agree as far as the code promises
(lifecycle); a link exists for what can be edited (routing); limits hold and waits
end (rate limiter); a read after a change does not give the old value for ever
(configuration). `PROJECT.json` lists the hazards one by one, each at its line.

## Modules

An action is what one coroutine does between two awaits that really suspend it,
or the effect of one awaited call on Redis, MySQL or Discord. Calls of async
functions that never suspend (`Cache.store_user`, `set_emoji`) are no
interleaving points, and are in the action of their caller.

**`MessageBuffer`** models both buffers. `redis` and `db` hold the messages that have
a hash or a row, `count` the two counters, `lock` is `flush_lock`; `pc`, `want`, `keys`,
`todo`, `batch` are the locals of each task. `Store`, `Count` are `add_ticket_message`;
`Acquire`, `ReadKeys`, `NoKeys`, `ReadOne`, `Commit`, `DeleteOne`, `Finish` are the flush, one
action per awaited call; `NothingRead`, `FlushFails`, `DeleteFails`, `StoreFails` its ways
to fail, a transaction whose outcome is lost included; `EmptyKeys`, `EmptyOne`,
`EmptyEnds` the owner's commands; `RequestFlush`, `Query` the tasks that flush and then
read. There are three sorts of these: `Closes` (`close_ticket`) flush the v2 buffer and
read its table; `Reports`, the statistics commands with figures from
`ticket_messages_v2` (`/leaderboard`, `/server_stats`, `/mod_activity`, the weekly export),
flush the v1 buffer all the same; `Exports` flush it and read the legacy table, or
neither (`/hourly_data`, the owner's `flush`). `Return` says where a caller goes on: a failed flush was logged and
swallowed, so a caller does not know. `accepted`, `emptied`, `due` are history variables.
`Restart` keeps only the stores. The lock is handed to any waiting task, where
asyncio hands it over in order: the model allows more.

**`MessageArchive`** is what the buffer promises: a message waits until it is archived,
batches become durable at once, nothing but the owner's emptying takes a message
out of the way. `MessageBuffer!ArchiveSpec` is the refinement: waiting is what is in
Redis without a row, archived the rows, discarded what was emptied without a row.

**`StatusTimers`** reduces a channel's name to its status. `status` is
`pending_updates`, `shown` the name on Discord, `timer` the timers (off, armed,
expired), `dated` the channels in `last_update_times`. `Restricted` and `Disarms` are the
rules of `queue_update` for automatic updates. `UserReply`/`UserReplyEnds` and
`Active`/`ActiveSet`, `Close`/`CloseSet` are the two halves of operations that wait for
Redis after taking the timer away; `Inactive` waits for nothing between check and
arming. `CollectExpired`, `NextExpired`, `CloseExpired`, `PopTimer` are `timer_worker` with
its snapshot `todo`. The records of a close are one step here.
`promised`, `dropped`, `raced` are history variables.

**`TicketLifecycle`** has one user, several forms (attempts to open), messages to the
bot, and runs of `close_ticket`. `Lookup`, `LoadRows`, `Fill`, `SetExpiry` are
`get_or_load_user_tickets` with HSET and EXPIRE apart; `Submit`, `CreateChannel`, `InsertRow`
and the load after it are `open_ticket`; `Close`, `UpdateRow`, `Uncache`, `Unlink`,
`DeleteChannel` are `close_ticket` and `delete_channel`. `rows`, `cached`, `ttl`, `channels` are the
stores. A ticket is named by the form that opens it. `early`, `stuck`, `cut` are
history variables.

**`Ticket`** is what opening and closing promise of a ticket: its channel is made once
and its row inserted once, a closed row stays closed, and the channel goes only when
the row is closed, or when a close overtook the INSERT. It has no tasks, caches,
timers or failures. `TicketLifecycle!TicketSpec` reads it off the rows and channels of
the forms, where `Create`, `Insert`, `Close`, `Overtake` and `Delete` are the INSERT, the
UPDATE and the Discord calls of different tasks. `StatusTimers!TicketSpec` reads it
off the channels, where a ticket is recorded as soon as it has one (`Open`).

**`Relay`** is what becomes of the messages of one ticket. `ticket`, `dm`, `log` are the
copies of each message, by what they show; `linked` is `linked_msgs`, `counted` what
went to the message buffer. `CheckReply`, `Erase`, `Receipt`, `Deliver`, `LogNew`, `RecordReply`,
`LinkReply` are `route_to_dm`, in the order of its calls; `CheckText` ... `RecordText` are
`route_to_server`; `ReadComment`, `LogComment`, `LinkComment` are `store_comment`; `Find`,
`ChangeDM`, `ChangeLog`, `ChangeTicket` are `reply_edit` and `reply_delete`; `FindLog` and
`ChangeCommentLog` the events about comments. `cached` has the comments that discord.py
still has in its cache of messages: only for these does an `Event` reach the bot;
`Evict` and `Restart` empty it. `Plus` are changes to a text that begins with "+", after
which a deletion is ignored. `bare` is a receipt that an edit without a thread left
with its files only. A call through the queue that Discord
refuses gives None and goes on; a fetch that fails ends the command. `told` says
whose author got a message about the failure. `ClearLinks` is what `close_ticket` does
while commands run. `hurt`, `unlogged`, `missed`, `crossed` are history variables.

**`Settings`** is any one setting of a server: which one is chosen in `Init`, so that one
run covers all. `rows` are its rows in MySQL, `entry` and `ttl` its entry in Redis,
`known` the copy of the permissions in the process. `Ask`, `Load`, `Store` (for the
permissions, a hash, `StoreRole` and `ExpireRoles` by turns) are `get_or_load_...`; `Write`,
`SetEntry`, `HdelType`, `Select`, `Assign`, `Tell` the steps of the commands, and `FirstStep`,
`AfterRead`, `AfterWrite`, `AfterReload` say which of them each command takes, in which
order. `Refused` has the statements that MySQL never accepts. `hurt`, `lag`, `behind`,
`crossed` are history variables.

**`Statistics`** has the rows of tickets, messages and types, with time in hours, and
the SQL of the commands as operators over them. What a query repeats for a server,
for all servers, for each span and for the total is one operator with parameters.
`None` is NULL: a comparison with it is not true, an average over nothing is it.
The rows are those of `tickets_v2` and `ticket_messages_v2`, and only queries of these
are modelled: `ClosingFigures` of the closing message, `Rank...` the leaderboards,
`ServerStats` and `ModActivity` the commands of these names, the rest the weekly export.
`Timer` is the closer -1 of a ticket that the timer worker closed.

**`RateLimiter`** is `Queue.call`. `pc` is where each call waits: for a `place` (semaphore of the
route), at the `gate` (`global_lock`) or `asleep` inside it, for the `bucket` lock, for the
`rate` (delay of the route and a slot), in the `request`, or in the `backoff` before the
next. `gate` and `reset` are what is left of `global_reset` and of `reset_time`, `stamps` is
`call_timestamps`. `Tick` is time for all. A call may go on later than it could, as
in a busy loop. `rest` and `exempt` are history variables.

**`Verbals`** has verbal warnings (a message in the DM and a row) and notes (a row).
`Warn`, `Send`, `AddVerbal` are `/verbal`, `Note`, `AddNote` noteadd, `Command`, `Look`, `Fetch`,
`ChangeDM`, `ChangeRow` the commands that edit and delete. `Executed`, `Rejected`, `Raises` and
`tries` are `execute_query` with its three attempts: an attempt may time out although
MySQL carried it out. `Owner` is the member whose DM a command looks into.

`MC*` modules add symmetry sets and the constants that are functions. Operators
marked "Faulty variant" are not part of a specification: each changes one
definition the way a plausible mistake would, and shows that the property named
for it in `PROJECT.json` notices.

## Runs

| Run | Instance | Shows |
|---|---|---|
| buffer | 3 messages (1 legacy), 1 closing ticket, 1 owner, limit 2, failures, 1 restart | `TypeOK`, `NothingLost`, `StatisticsComplete`, `ArchiveSpec`, `FlushReturns` |
| figures | 2 messages (1 legacy), 1 closing ticket, 1 statistics command, no failure | `FiguresComplete` is violated |
| timers | 2 channels, 1 command at a time, 1 pair of workers, failures | `TypeOK`, `ArmedIsInactive`, `ReplyDisarms` |
| timers_live | 1 channel, 2 commands, 2 pairs of workers, failures, 1 restart | `PromiseKept` |
| lifecycle | 2 servers, 2 forms, 1 close, failures, 1 restart | `TypeOK`, `CachedIsRecorded`, `TicketSpec`, `ClosedChannelGoes`, `StaleEntryGoes` |
| relay | 1 reply, 2 edits, 1 delete, every refusal, 1 restart | `TypeOK`, `LogComplete`, `LinkedIsWhole`, `AgreeWhenQuiet`, `Delivered` |
| comments | 1 message of the user, 1 comment, 2 changes (one to "+...") and 1 removal of it, every refusal, evictions, 1 restart | `CommentLogFollows`, `Delivered` |
| undelivered | 1 reply, the DM refuses | `UndeliveredIsTold` is violated |
| settings | any setting, 2 tasks of all kinds, 2 names, failures, 1 restart | `TypeOK`, `EntryFollows`, `RolesKnown`, `BlacklistAgrees`, `StaleEnds` |
| statistics | 2 servers, 2 tickets, 1 message, 1 moderator and the timer, a type with a subtype, days and weeks of 2 hours, times 0 to 2, 1 removal of a type | `TypeOK`, `CommandsAgree`, `PartsAddUp`, `WeeksAddUp`, `TypesAddUp` |
| rate_limiter | 3 calls, 2 routes with 2 and 3 places, delay 1, 1 slot in a second of 1 | `TypeOK`, `WindowHolds`, `RouteRests`, `GateRespected`, `CallReturns` |
| verbals | 1 verbal, 1 note, 2 edits, 1 delete, any 4 of these, 2 moderators of whom one is the user, failures, 1 restart | `TypeOK`, `RowDelivered`, `RowAgrees`, `NoteSaved` |

The bounds are the sets of tasks, messages, channels and names; `Limit`; `MaxRestarts`;
`MaxGiven` (commands given, `Verbals`); `MaxTime` and `MaxRemovals` (`Statistics`); `Max`,
`Window` and `RetryAfter` (`RateLimiter`, whose ages end at `Long`, just outside the
window).

Why they are enough. Buffer: with three messages and a limit of two a batch flush
runs while a third message is stored, counted and waits for the lock, and the
caller and the owner, who can empty the batch that a flush is reading, meet it at
every point; all four tasks want the lock. The v1 counter alone does not reach the
limit there: its branch is the v2 one with the names exchanged, and the proofs
cover it. Timers: two
expired channels are what a snapshot needs to become stale; two workers and two
commands in one channel cover the races over one timer. Lifecycle: two forms and
two servers let a second ticket be opened in the same or in another server; a
message to the bot does the same `Lookup` and `LoadRows` that a form does; the proofs
cover any number of closes. Relay: two edits and a delete of one reply have every
overlap of two commands with the routing and with one another; replies do not
share state except the link table, by key. Comments: three events overtake one
another in every order, and the comment leaves the cache before any of them. Settings: a race is between two tasks, and every pair of
kinds is in the run. Statistics: two of each for what is compared (the closers are a moderator and the timer), and a time at
each side of the border of a day, a week and a span; one message suffices because
messages are counted one by one, and the averages are over tickets. Rate limiter:
three calls with one slot make two wait for it, while the routes overlap and two
of them share one. Verbals: four commands are a verbal and three that change it.
One restart at any point suffices where it puts all tasks out of the way.

Two instances for one module: the fair run of the timers uses no symmetry and stays
small (`timers_live`); replies and comments share no state that one would
read from the other, and together they would only multiply (`relay`, `comments`).

Deadlock is not checked in the runs where all tasks may have ended and nobody has
to begin another.

Two disagreements between code and texts are runs of their own, each with a
violated property. `figures` is the flush of one buffer before figures from the other.
`undelivered`: `route_to_dm` says
"Unable to DM the ticket opener. Your last message was not sent" when the channel
cannot be opened, but a send that Discord refuses gives None; the receipt is already
in the ticket, and what fails afterwards has no message to answer.

## Exceptions inside the properties

The properties that hold have exceptions, and these are the code's own weak points.

- `ArmedIsInactive` leaves out tickets where `+inactive` came between the two steps of an
  `+active` of another moderator. `PromiseKept` allows for a timer lost in a restart or
  popped after a failing close.
- `TicketSpec` allows for a close that overtook the INSERT (`Overtake`): its UPDATE finds
  no row, the channel goes, and the row inserted afterwards stays open. `ClosedChannelGoes` leaves out closes that
  failed halfway, of which there is also the one whose closing message Discord
  refused: `delete_channel` edits None. `StaleEntryGoes` leaves out a hash whose EXPIRE
  was cut off from its HSET.
- `AgreeWhenQuiet` leaves out replies where one edit changed the DM between the two
  halves of another (`crossed`), and calls that were refused: the success message
  comes all the same. `CommentLogFollows` leaves out comments that were changed before
  their log was linked, or when they had left the cache of messages (`missed`): the log
  keeps their older text. A comment that begins with "+" keeps its log when it is
  deleted (`Shows`).
- `EntryFollows` leaves out a load overtaken by a change, until the entry expires (`lag`);
  `+pingrole` without roles, which does not reload; and the removal of a type while it
  is in Redis, where `hdel` on a string fails. `StaleEnds` says that it ends, but not for
  a hash that lost its time to live. `BlacklistAgrees` leaves out two commands for one
  user at once: there is no expiry to repair it.
- `PartsAddUp` and `WeeksAddUp` give the timer a number of its own: closes of -1 are in
  the ranking and in the number of active moderators, and nobody is named for them.
  `TypesAddUp` leaves out tickets whose type is gone.
- `WindowHolds` counts first requests: retries leave no timestamp. `GateRespected` leaves
  out calls that had passed the gate (`exempt`).
- `RowAgrees` leaves out INSERTs of which an attempt was carried out in vain (`lost`): a
  verbal deleted before the next attempt is inserted again. `NoteSaved` allows for the
  same attempt's second row.

## Fairness

Tasks that were started go on: the event loop runs every task, and every awaited
call ends, in failure or not (queries and requests have timeouts). The workers keep
running, time passes, Redis expires what has an expiry. Nobody has to send, open,
close, submit, command or restart anything, and no failure has to happen or to
stop. A restart is followed by a READY. In `RateLimiter` it is weak fairness per call:
a place, a lock or a slot that others take in turn is not promised to anyone, but
each call is made once, so that in the end nobody is left to overtake.

## Proofs

All theorems hold for every value of the constants that satisfies the module's
named assumption (`MessageBufferAssumption`, `StatusTimersAssumption` and so on: mostly
that the sets of tasks are disjoint; the rate limiter's calls are finitely many).

`MessageBuffer_proofs`: `TypeCorrect` (`TypeOK`), `NeverLost` (`NothingLost`),
`CompleteFigures` (`StatisticsComplete`), `BufferImplementsArchive` (`ArchiveSpec`).
`NothingLost` alone is not inductive: nothing in it says that what a flush deletes
has a row. `SafeInv` adds that what a flush has found, read or owes reached Redis
(`FromAccepted`), that while it reads every key is still to visit, in the batch, or
settled, that is in the database or emptied (`Reading`), that it commits when it has
visited all (`AllRead`), that it deletes only what is settled (`Deleting`), and that an
emptied message does not come back (`Gone`). `SafeStep` proves it action by action.
The lock is not needed for this: two flushes at once would insert the same rows
twice, which the INSERT allows. `StatisticsComplete` needs `DueInv`: what was buffered
when a task asked for its flush is of the buffer it flushes (`DueKind`), then among
the keys it found or settled (`DueFound`), then settled (`DueSettled`); here it matters
that a task waits for its own flush, as `AcquireOrSkip` shows, and that it reads the
table of the buffer it flushed: the theorem is about every task but the `Reports`, of
which `figures` shows that they may read too early. The refinement follows
action by action from `SafeInv` (`ArchiveStep`): `Commit`, and a failed flush whose
transaction took effect, archive the batch; `EmptyOne` discards; an arriving message
is accepted; everything else stutters. `FlushesExclude` (`LockHeld`) says that the lock
is held exactly by the one task inside, whatever way the others went out.

`StatusTimers_proofs`: `TimerTypes` (`TypeOK`), `ArmedShowsInactive` (`ArmedIsInactive`) and
`ReplyTakesTimer` (`ReplyDisarms`). `ArmedIsInactive` needs to know that only a ticket's
channel has a timer (`ArmedHasTicket`, or the status of a new ticket could hide one),
and that a timer armed while an `+active` is under way is on record in `raced`
(`ActiveDisarmed`). `ReplyDisarms` follows from it: a timer means inactive, and an alert
on an inactive ticket is not refused and takes the timer away. `AnnouncedHasTimer` says
that a ticket announced to close is open and has a timer (`PromisedIsOpen`,
`PromiseHasTimer`), unless a restart or a failing close lost it. `TimersImplementTicket`
is the refinement of `Ticket`: its invariant `CloserHasTicket` says that whoever is about
to close a channel has one that is or was a ticket, so that a second close, by a
command or from the worker's snapshot, stutters.

`TicketLifecycle_proofs`: `LifecycleTypes` (`TypeOK`), `HashNamesRecorded` (`CachedIsRecorded`)
and `OpenKeepsChannel` (`DeletedIsClosed`, which is `TicketSpec` seen in one state: the
channel of an open ticket is there). The first of these needs that what a reader
has still to write was recorded (`LeftIsRecorded`); the second that a form has no row
before its INSERT (`NotInserted`) and has its channel there unless a close came first
(`HasChannel`), and that a close past its UPDATE is for a closed ticket or one it
overtook (`ClosedFirst`). `LifecycleImplementsTicket` (`TicketSpec`) needs besides that a
ticket has neither channel nor close before its channel is created (`NotCreated`), and
that a close which finds no row finds the channel or is not the first (`Updating`).
`ClosedIsAttended` and `HashExpiresOrWill` name who has to act: a close on its way to
`delete_channel` (`Attended`), a reader before its EXPIRE (`Expiring`).

`Relay_proofs`: `TypeCorrect` (`TypeOK`), `WholeCorrect` (`LinkedIsWhole`), `LogCorrect`
(`LogComplete`), `AgreeCorrect` (`AgreeWhenQuiet`), `CommentCorrect` (`CommentLogFollows`). The
invariant `IInv` adds to these what holds between two calls: commands are about
replies, events about comments (`Targeted`, `Aimless`); how far a routing has got
decides which copies there are (`Routed`), a copy shows the text of an edit that has
got that far (`Edited`); and, for the agreement, that the receipt lags behind the DM
only while a command that is not finished will repair it (`Tracked`). For comments,
`Commented` and `Followed` say the same of log and text: whoever holds an older text has
yet to write, and an event that comes later reads the newer one; `Lost` is a deletion
that the log has to show. `EndedIsAnswered`
(`Answered`) goes through the early returns of both routings: none leaves the author
without copies, without a word and without a failed call.

`Settings_proofs`: `TypeCorrect` (`TypeOK`), `EntryCorrect` (`EntryFollows`), `RolesCorrect`
(`RolesKnown`), `BlacklistCorrect` (`BlacklistAgrees`). `Legal` says which steps
belong to which setting, `Shaped` what its rows can be. `EntryFollows` follows from
`Replaced`, that an entry which differs from the rows has a task that will store it
again, or a recorded reason, and from `Stocked`, the same for the hash that is stored
role by role; `RolesKnown` from `Assigned`, `BlacklistAgrees` from `Blocked`, that the one task
between row and entry is about to bring them together. `EntryIsTimed` (`Timed`): an entry
without a time to live has a task that is about to set it, or one failed on the way.

`RateLimiter_proofs`: `TypeCorrect` (`TypeOK`), `WindowCorrect` (`WindowHolds`), `RestCorrect`
(`RouteRests`), `GateCorrect` (`GateRespected`). `Stamped`: whoever began within the window
has left a timestamp that is still there, and there are at most `Max`; the proof maps
the calls of the last second to places of that sequence. `Resting`: what is left of a
route's pause is in its `reset_time` or in the sleep of the call that holds its lock -
which is why the lock matters. `Gated`: a sleeper at the gate sleeps until it opens,
and whoever is past it was there when it closed. `PlacesCorrect` is `max_concurrency`
(`PlacesHold`): a call enters when there is room and keeps its place to the end.
`NeverDeadlocked` (`NoCircle`): places, gate and locks are taken in one order, so not all
calls can wait for one another.

`Verbals_proofs`: `TypeCorrect` (`TypeOK`), `DeliveredCorrect` (`RowDelivered`), `AgreeCorrect`
(`RowAgrees`), `NoteCorrect` (`NoteSaved`). `Ordered` says that only what was sent is
inserted and only what was inserted is the target of a command, `Numbered` relates the
rows of a note to its attempts, and `Tracked` says that row and message differ only
while a command between its two halves will bring them together, or one of the
recorded reasons applies.

`Statistics_proofs`: `TypeCorrect` (`TypeOK`), `AgreeCorrect` (`CommandsAgree`), `PartsCorrect`
(`PartsAddUp`), `WeeksCorrect` (`WeeksAddUp`), `TypesCorrect` (`TypesAddUp`), for any number of
tickets, servers, weeks and types. The inductive part is small: `Placed`, a message
has a ticket, and `Begun`, a ticket was opened in the past. The rest is about
queries over any such rows. A sum of numbers is the cardinality of a set of pairs
(`Total`), so that sums are compared by bijections and not by induction: `SumOfParts`
for disjoint parts, from which `CountByKey` and `SumByKey` say that what is counted or
added up by a key (the week, the hour, the main type, the moderator) is counted
once. Each sum that a property names is then one use of these with its key.
`Extremes` gives the busiest hour and the top moderator, `Division` the week and the
hour of a time. The assumption says that NULL is no row and no figure.

Only model-checked: liveness (`FlushReturns`, `PromiseKept`, `ClosedChannelGoes`,
`StaleEntryGoes`, `Delivered`, `StaleEnds`, `CallReturns`), since fairness and ENABLED are out
of the prover's reach; and the violations. What can go wrong with each of them in a
finite number of steps is proved for every value of the constants: that the task which
has to act is there and not locked out (`LockHeld`, `PromiseHasTimer`, `Attended`, `Expiring`,
`Timed`, `NoCircle`), or that what has ended did so rightly (`Answered`). That the task then
does act is what remains for TLC.

## Where code and texts disagree

Met while modelling. The modules have the code's behaviour in each case.

- A counter is reset while messages arrive that it should count
  (`data_manager.py` 1613; 1471: "Batch flush cache if 20 messages have collected").
- Every statistics command flushes the v1 buffer (`stats.py` 84, 200, 336, 418, 492, 606,
  681, 767), as does the owner's `flush` (`util.py` 171: "Flushes ticket messages to SQL");
  the figures of MailBee's own tickets come from `ticket_messages_v2`. What was said
  since the last flush of the v2 buffer is missing in them: the run `figures`.
- Timers are not loaded after a restart (`data_manager.py` 181), although the channel
  was told that the ticket will close (`tickets.py` 1053).
- The timer worker closes from a snapshot a ticket that was answered meanwhile
  (`channel_status.py` 124), although +inactive is commented "Remove inactive / close
  marker if the user responds" (`tickets.py` 1003).
- `_collect_channel_updates` has no `return` (`channel_status.py` 57): no queued status is
  ever shown.
- Two forms that were opened before either was submitted give two tickets in one
  server (`ticket_submitter.py` 758; `ticket_opener.py` 386).
- A user is told that opening failed while the row is there (`ticket_opener.py` 182;
  `ticket_submitter.py` 774).
- `+pingrole` without roles changes MySQL and leaves Redis (`config.py` 679, 682).
- The ranking of open tickets with a time span compares their closing date, which is
  NULL: it is always empty (`queries.py` 173; `stats.py` 165).
- The listeners that keep the log of comments up to date (`analytics.py` 1176, 1190) are
  called for messages in the cache of discord.py only, the last thousand of this
  process: an older comment, or any after a restart, is edited and deleted without
  its log. The deletion of a comment that was edited to begin with "+" is ignored
  (1198), although its log exists.
- `verbal_delete` takes the author's column for the user's (`moderation.py` 661; 563, 693)
  and therefore finds the message only if the two are the same.
- `edit_permissions` updates columns that the table does not have; `/type add` always ends
  in a TypeError; `/export_week`, `/export_mod_activity` and `/export_week_v2` always fail.
- `/hourly_data`, `/export_week`, `/export_server_stats` and `/export_mod_activity` read
  `tickets` and `ticket_messages` (`queries.py` 107, 137, 1006, 1028), some with the condition
  `flag = 'good'` (1036, 1071); `create_ticket` and `close_ticket` write `tickets_v2` only
  (`data_manager.py` 366, 401) and `schema.sql` has no such tables: what MailBee opens
  is never in these figures.
- A close by the timer has the closer -1 (`tickets.py` 23): the ranking of closes gives it
  a place, and the weekly export counts it in "Num Mods Answering Tickets"
  (`queries.py` 871), although its top closer leaves it out (849).

## Not modelled

- Wording, embeds and layout, CSV files; clock times except in `RateLimiter` and
  `Statistics` (a timer is armed or expired, the pauses of 303 s and 5 s are not
  measured).
- The rating of a closed ticket (nothing reads it back); the user cooldown of the rate
  limiter (a dictionary and the clock, without waiting); the object cache
  `classes/cache.py` (copies of Discord objects that nothing compares with anything; a
  use of a stale one is a refused call, which the modules have); the other early
  returns of the select menus; a second selection in the DM menu.
- `/move`, nsfw and the older anonymous commands in `tickets.py`; `setup_mailbee`'s channels;
  averages of robux and hours in the weekly export.
- `/hourly_data`, `/export_week`, `/export_server_stats` and `/export_mod_activity`: they
  select from the former tables, which nothing that is modelled writes.
- Roblox data, profiles, public and administration commands, helpers, paginator, error
  handler: I/O and presentation without a state of their own. `ticket_processor.py` and
  the legacy analytics are commented out or belong to the former bot.
- Discord, Redis and MySQL are what the code sees of them: a call takes effect or not,
  and answers or not. Channels that staff rename or delete by hand.

## What is left

1. A composition of `StatusTimers` and `TicketLifecycle` over their common `close_ticket`.
   Each has the other's part of a close as one step; both implement `Ticket`, but not
   yet one and the same ticket at the same time.
2. The rating view, and the user cooldown against a reference definition.
