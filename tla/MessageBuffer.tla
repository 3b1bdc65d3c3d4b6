---------------------------- MODULE MessageBuffer ----------------------------
(***************************************************************************)
(* The analytics buffer of classes/data_manager.py.  Every ticket message  *)
(* is written to a Redis hash of its own and counted; when a counter       *)
(* reaches its limit, and whenever a ticket is closed or statistics are    *)
(* asked for, a flush copies all buffered messages to MySQL in one         *)
(* transaction and then deletes the hashes it read.  There are two buffers *)
(* ("v1" for the legacy Modmail tickets, "v2" for MailBee's own) with one  *)
(* flush procedure each; both procedures share one asyncio.Lock.  Closing  *)
(* a ticket flushes the v2 buffer, every statistics command the v1 buffer, *)
(* whichever of the two message tables its figures come from.              *)
(*                                                                         *)
(* The tasks are coroutines of one event loop.  An action is what one      *)
(* coroutine does between two awaits, or the effect of one awaited call on *)
(* Redis or MySQL.  A restart kills the tasks and the counters; Redis and  *)
(* MySQL survive it.                                                       *)
(***************************************************************************)
EXTENDS Integers, FiniteSets

CONSTANTS
  Msgs,         \* ticket messages, each with its own add_ticket_message task
  Legacy,       \* the messages of the v1 buffer
  Closes,       \* close_ticket tasks
  Reports,      \* statistics commands with figures from ticket_messages_v2
  Exports,      \* the other ones, and the owner's flush command
  Owners,       \* tasks of the owner's empty_messages commands
  Limit,        \* messages that trigger a batch flush (20 in the code)
  Faults,       \* whether calls to Redis and MySQL may fail
  MaxRestarts,  \* bound on the restarts of the bot
  Free          \* no task holds flush_lock

ASSUME MessageBufferAssumption ==
  /\ Legacy \subseteq Msgs
  /\ Limit \in Nat \ {0}
  /\ Faults \in BOOLEAN
  /\ MaxRestarts \in Nat
  /\ Closes \cap (Reports \cup Exports) = {} /\ Reports \cap Exports = {}
  /\ Msgs \cap (Closes \cup Reports \cup Exports) = {}
  /\ Owners \cap (Msgs \cup Closes \cup Reports \cup Exports) = {}
  /\ Free \notin Msgs \cup Closes \cup Reports \cup Exports \cup Owners

Kinds == {"v1", "v2"}
Callers == Closes \cup Reports \cup Exports
Tasks == Msgs \cup Callers \cup Owners
Flushers == Msgs \cup Callers

Kind(m) == IF m \in Legacy THEN "v1" ELSE "v2"

\* The buffer a caller flushes, and that of the messages it reads then.
FlushOf(t) == IF t \in Closes THEN "v2" ELSE "v1"
ReadOf(t) == IF t \in Exports THEN "v1" ELSE "v2"

VARIABLES
  redis,      \* messages with a hash in Redis
  db,         \* messages with a row in MySQL
  count,      \* ticket_count and ticket_count_v2
  lock,       \* the holder of flush_lock, or Free
  pc,         \* where each task is
  want,       \* the buffer a task flushes or empties
  keys,       \* the keys a flush found
  todo,       \* the keys its current loop has still to visit
  batch,      \* the rows it has read
  restarts,
  accepted,   \* history: messages that reached Redis
  emptied,    \* history: messages the owner deleted before they had a row
  due         \* history: what was buffered, of the messages a task is to read,
              \* when it asked for its flush

stores  == <<redis, db>>
flushes == <<keys, todo, batch>>
history == <<accepted, emptied, due>>
vars == <<stores, count, lock, pc, want, flushes, restarts, history>>

InBuffer(k) == {m \in redis : Kind(m) = k}

InFlush == {"keys", "read", "commit", "delete"}
PCs == {"idle", "stored", "waiting", "query", "blind", "emptying", "done"} \cup InFlush

Init ==
  /\ redis = {}
  /\ db = {}
  /\ count = [k \in Kinds |-> 0]
  /\ lock = Free
  /\ pc = [t \in Tasks |-> "idle"]
  /\ want = [t \in Tasks |-> "v2"]
  /\ keys = [t \in Flushers |-> {}]
  /\ todo = [t \in Tasks |-> {}]
  /\ batch = [t \in Flushers |-> {}]
  /\ restarts = 0
  /\ accepted = {}
  /\ emptied = {}
  /\ due = [t \in Flushers |-> {}]

-----------------------------------------------------------------------------
(* Asking for a flush, and what a task does when the flush has returned.   *)

Goto(t, l) == pc' = [pc EXCEPT ![t] = l]

\* t queues on flush_lock to flush buffer k; it will look for messages of buffer r.
AskFlush(t, k, r) ==
  /\ Goto(t, "waiting")
  /\ want' = [want EXCEPT ![t] = k]
  /\ due' = [due EXCEPT ![t] = InBuffer(r)]

\* t asks for no further flush; only a task that goes on to read still looks for
\* what was buffered when it asked.
NoFlush(t, l) ==
  /\ Goto(t, l)
  /\ want' = [want EXCEPT ![t] = "v2"]
  /\ due' = [due EXCEPT ![t] = IF l = "query" THEN @ ELSE {}]

CheckV2(m, c) ==
  \/ c["v2"] >= Limit /\ AskFlush(m, "v2", "v2")
  \/ c["v2"] < Limit /\ NoFlush(m, "done")

\* An adding task looks at the v1 counter first and, when the v1 flush has
\* returned or was not needed, at the v2 counter.
CheckCounters(m, c) ==
  \/ c["v1"] >= Limit /\ AskFlush(m, "v1", "v1")
  \/ c["v1"] < Limit /\ CheckV2(m, c)

\* The flush of t has returned, the counters being c.  A caller goes on at l:
\* it cannot tell a flush that failed from one that did its work.
Return(t, c, l) ==
  \/ t \in Msgs /\ want[t] = "v1" /\ CheckV2(t, c)
  \/ t \in Msgs /\ want[t] = "v2" /\ NoFlush(t, "done")
  \/ t \in Callers /\ NoFlush(t, l)

-----------------------------------------------------------------------------
(* add_ticket_message                                                      *)

Store(m) ==
  /\ pc[m] = "idle"
  /\ redis' = redis \cup {m}
  /\ accepted' = accepted \cup {m}
  /\ Goto(m, "stored")
  /\ UNCHANGED <<db, count, lock, want, flushes, restarts, emptied, due>>

\* hset raises, before or after Redis has stored the hash: logged, not counted.
StoreFails(m) ==
  /\ Faults
  /\ pc[m] = "idle"
  /\ \/ UNCHANGED <<redis, accepted>>
     \/ /\ redis' = redis \cup {m}
        /\ accepted' = accepted \cup {m}
  /\ Goto(m, "done")
  /\ UNCHANGED <<db, count, lock, want, flushes, restarts, emptied, due>>

Count(m) ==
  /\ pc[m] = "stored"
  /\ count' = [count EXCEPT ![Kind(m)] = @ + 1]
  /\ CheckCounters(m, count')
  /\ UNCHANGED <<stores, lock, flushes, restarts, accepted, emptied>>

\* close_ticket, the statistics commands and the owner's flush command.
RequestFlush(t) ==
  /\ pc[t] = "idle"
  /\ AskFlush(t, FlushOf(t), ReadOf(t))
  /\ UNCHANGED <<stores, count, lock, flushes, restarts, accepted, emptied>>

\* The figures are read from the database ("blind" after a failed flush).
Query(t) ==
  /\ pc[t] \in {"query", "blind"}
  /\ NoFlush(t, "done")
  /\ UNCHANGED <<stores, count, lock, flushes, restarts, accepted, emptied>>

-----------------------------------------------------------------------------
(* flush_messages and flush_messages_v2                                    *)

Release == lock' = Free

Forget(t) ==
  /\ keys' = [keys EXCEPT ![t] = {}]
  /\ todo' = [todo EXCEPT ![t] = {}]
  /\ batch' = [batch EXCEPT ![t] = {}]

\* Faulty variant: a flush asked for while another one runs is skipped.
AcquireOrSkip(t) ==
  /\ pc[t] = "waiting"
  /\ \/ /\ lock = Free
        /\ lock' = t
        /\ Goto(t, "keys")
        /\ UNCHANGED <<want, due>>
     \/ /\ lock # Free
        /\ UNCHANGED lock
        /\ Return(t, count, "query")
  /\ UNCHANGED <<stores, count, flushes, restarts, accepted, emptied>>

Acquire(t) ==
  /\ pc[t] = "waiting"
  /\ lock = Free
  /\ lock' = t
  /\ Goto(t, "keys")
  /\ UNCHANGED <<stores, count, want, flushes, restarts, history>>

ReadKeys(t) ==
  /\ pc[t] = "keys"
  /\ InBuffer(want[t]) # {}
  /\ keys' = [keys EXCEPT ![t] = InBuffer(want[t])]
  /\ todo' = [todo EXCEPT ![t] = InBuffer(want[t])]
  /\ Goto(t, "read")
  /\ UNCHANGED <<stores, count, lock, want, batch, restarts, history>>

\* Nothing is buffered: the early return leaves the counter as it is.
NoKeys(t) ==
  /\ pc[t] = "keys"
  /\ InBuffer(want[t]) = {}
  /\ Release
  /\ Return(t, count, "query")
  /\ UNCHANGED <<stores, count, flushes, restarts, accepted, emptied>>

\* hgetall of one key; a hash that is gone by now is skipped.
ReadOne(t, m) ==
  /\ pc[t] = "read"
  /\ m \in todo[t]
  /\ todo' = [todo EXCEPT ![t] = @ \ {m}]
  /\ batch' = [batch EXCEPT ![t] = @ \cup ({m} \cap redis)]
  /\ Goto(t, IF todo[t] = {m} THEN "commit" ELSE "read")
  /\ UNCHANGED <<stores, count, lock, want, keys, restarts, history>>

\* Faulty variant: whatever is buffered by then.
EveryKey(t) == InBuffer(want[t])

\* The keys to delete once the transaction has committed.
Processed(t) == keys[t]

Commit(t) ==
  /\ pc[t] = "commit"
  /\ batch[t] # {}
  /\ db' = db \cup batch[t]
  /\ todo' = [todo EXCEPT ![t] = Processed(t)]
  /\ Goto(t, "delete")
  /\ UNCHANGED <<redis, count, lock, want, keys, batch, restarts, history>>

\* An exception inside the try block is logged and swallowed.
Swallow(t) ==
  /\ Release
  /\ Forget(t)
  /\ Return(t, count, "blind")
  /\ UNCHANGED <<redis, count, restarts, accepted, emptied>>

\* execute_query refuses an empty list of rows.
NothingRead(t) ==
  /\ pc[t] = "commit"
  /\ batch[t] = {}
  /\ UNCHANGED db
  /\ Swallow(t)

\* Faulty variant: the keys are deleted after a failed transaction as well.
FailsThenDeletes(t) ==
  /\ Faults
  /\ pc[t] = "commit"
  /\ todo' = [todo EXCEPT ![t] = keys[t]]
  /\ Goto(t, "delete")
  /\ UNCHANGED <<stores, count, lock, want, keys, batch, restarts, history>>

\* Redis or MySQL fails.  A transaction whose outcome is lost may have
\* committed.
FlushFails(t) ==
  /\ Faults
  /\ pc[t] \in {"keys", "read", "commit"}
  /\ \/ UNCHANGED db
     \/ /\ pc[t] = "commit"
        /\ db' = db \cup batch[t]
  /\ Swallow(t)

DeleteOne(t, m) ==
  /\ pc[t] = "delete"
  /\ m \in todo[t]
  /\ redis' = redis \ {m}
  /\ todo' = [todo EXCEPT ![t] = @ \ {m}]
  /\ UNCHANGED <<db, count, lock, pc, want, keys, batch, restarts, history>>

\* Faulty variant: the counter gives back what this flush has moved.
LessFlushed(t) == count[want[t]] - Cardinality(keys[t])

\* The counter starts again from zero, whatever was counted meanwhile.
CountAfter(t) == 0

Finish(t) ==
  /\ pc[t] = "delete"
  /\ todo[t] = {}
  /\ count' = [count EXCEPT ![want[t]] = CountAfter(t)]
  /\ Release
  /\ Forget(t)
  /\ Return(t, count', "query")
  /\ UNCHANGED <<stores, restarts, accepted, emptied>>

\* Faulty variant: the lock is not given back.
DeleteFailsLocked(t) ==
  /\ Faults
  /\ pc[t] = "delete"
  /\ todo[t] # {}
  /\ Forget(t)
  /\ NoFlush(t, "done")
  /\ UNCHANGED <<stores, count, lock, restarts, accepted, emptied>>

\* A delete fails outside the try block: the caller gets the exception and
\* gives up, the counter stays.
DeleteFails(t) ==
  /\ Faults
  /\ pc[t] = "delete"
  /\ todo[t] # {}
  /\ Release
  /\ Forget(t)
  /\ NoFlush(t, "done")
  /\ UNCHANGED <<stores, count, restarts, accepted, emptied>>

-----------------------------------------------------------------------------
(* empty_messages and empty_messages_v2                                    *)

EmptyKeys(o, k) ==
  /\ pc[o] = "idle"
  /\ want' = [want EXCEPT ![o] = k]
  /\ todo' = [todo EXCEPT ![o] = InBuffer(k)]
  /\ Goto(o, "emptying")
  /\ UNCHANGED <<stores, count, lock, keys, batch, restarts, history>>

EmptyOne(o, m) ==
  /\ pc[o] = "emptying"
  /\ m \in todo[o]
  /\ redis' = redis \ {m}
  /\ emptied' = emptied \cup (({m} \cap redis) \ db)
  /\ todo' = [todo EXCEPT ![o] = @ \ {m}]
  /\ UNCHANGED <<db, count, lock, pc, want, keys, batch, restarts, accepted, due>>

\* All keys visited, or a delete failed.
EmptyEnds(o) ==
  /\ pc[o] = "emptying"
  /\ todo[o] = {} \/ Faults
  /\ todo' = [todo EXCEPT ![o] = {}]
  /\ Goto(o, "done")
  /\ UNCHANGED <<stores, count, lock, want, keys, batch, restarts, history>>

-----------------------------------------------------------------------------
\* The process ends and starts again: no task survives, the counters start
\* at zero (__init__), Redis and MySQL keep what they have.
Restart ==
  /\ restarts < MaxRestarts
  /\ restarts' = restarts + 1
  /\ count' = [k \in Kinds |-> 0]
  /\ lock' = Free
  /\ pc' = [t \in Tasks |-> IF pc[t] = "idle" THEN "idle" ELSE "done"]
  /\ keys' = [t \in Flushers |-> {}]
  /\ todo' = [t \in Tasks |-> {}]
  /\ batch' = [t \in Flushers |-> {}]
  /\ want' = [t \in Tasks |-> "v2"]
  /\ due' = [t \in Flushers |-> {}]
  /\ UNCHANGED <<stores, accepted, emptied>>

\* Every message has been handled and every command has run.
Terminated ==
  /\ \A t \in Tasks : pc[t] = "done"
  /\ UNCHANGED vars

Flush(t) ==
  \/ Acquire(t)
  \/ ReadKeys(t)
  \/ NoKeys(t)
  \/ \E m \in Msgs : ReadOne(t, m)
  \/ Commit(t)
  \/ NothingRead(t)
  \/ FlushFails(t)
  \/ \E m \in Msgs : DeleteOne(t, m)
  \/ DeleteFails(t)
  \/ Finish(t)

Next ==
  \/ \E m \in Msgs : Store(m) \/ StoreFails(m) \/ Count(m)
  \/ \E t \in Callers : RequestFlush(t) \/ Query(t)
  \/ \E t \in Flushers : Flush(t)
  \/ \E o \in Owners : \E k \in Kinds : EmptyKeys(o, k)
  \/ \E o \in Owners : EmptyEnds(o) \/ \E m \in Msgs : EmptyOne(o, m)
  \/ Restart
  \/ Terminated

Spec == Init /\ [][Next]_vars

\* The event loop runs every task that has been started to its end; nobody
\* has to send a message, close a ticket or restart the bot.
Fairness ==
  /\ \A m \in Msgs : WF_vars(Count(m))
  /\ \A t \in Flushers : WF_vars(Flush(t))
  /\ \A t \in Callers : WF_vars(Query(t))

FairSpec == Spec /\ Fairness

-----------------------------------------------------------------------------
(* Properties                                                              *)

TypeOK ==
  /\ redis \subseteq Msgs
  /\ db \subseteq Msgs
  /\ count \in [Kinds -> Nat]
  /\ lock \in Flushers \cup {Free}
  /\ pc \in [Tasks -> PCs]
  /\ want \in [Tasks -> Kinds]
  /\ keys \in [Flushers -> SUBSET Msgs]
  /\ todo \in [Tasks -> SUBSET Msgs]
  /\ batch \in [Flushers -> SUBSET Msgs]
  /\ restarts \in Nat
  /\ accepted \subseteq Msgs
  /\ emptied \subseteq Msgs
  /\ due \in [Flushers -> SUBSET Msgs]

\* A message that reached Redis is in Redis or in the database, unless the
\* owner emptied it: no interleaving of flushes, failure or restart between
\* the transaction and the deletes loses it.
NothingLost == accepted \subseteq redis \cup db \cup emptied

\* What t looks for was buffered when it asked, and is in the database when it
\* reads after a flush that did not fail.
Complete(t) == pc[t] = "query" => due[t] \subseteq db \cup emptied

\* When a task reads messages of the buffer it has flushed (close_ticket, and the
\* exports of the legacy table), every one buffered when it asked is in the
\* database, whichever task's flush moved it there.
StatisticsComplete == \A t \in Closes \cup Exports : Complete(t)

\* "Display a moderator's ticketing activity": what was buffered when a
\* statistics command began is in the figures it shows.
FiguresComplete == \A t \in Callers : Complete(t)

\* A task that waits for a flush gets its answer: no way out of the critical
\* section keeps flush_lock.  A task asks at most twice, so in the end nobody waits.
FlushReturns == <>[](\A t \in Flushers : pc[t] # "waiting")

\* The buffer implements the archive: what a flush read before the owner's
\* emptying may still be archived, anything else only moves forward.
Archive ==
  INSTANCE MessageArchive
    WITH waiting <- redis \ db, archived <- db, discarded <- emptied \ db

ArchiveSpec == Archive!Spec
=============================================================================
