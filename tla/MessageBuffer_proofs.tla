------------------------ MODULE MessageBuffer_proofs ------------------------
(***************************************************************************)
(* Proofs about the analytics buffer, for any sets of messages, callers    *)
(* and owner commands, any batch limit and any number of restarts.         *)
(***************************************************************************)
EXTENDS MessageBuffer, TLAPS

-----------------------------------------------------------------------------
(* Type correctness                                                        *)

LEMMA KindType == \A m : Kind(m) \in Kinds
BY DEF Kind, Kinds

LEMMA BufferType == \A k : redis \subseteq Msgs => InBuffer(k) \subseteq Msgs
BY DEF InBuffer

\* Where a flush takes its task next, and that it changes nothing else of
\* the task but what it wants and what is due to it.
LEMMA ReturnType ==
  ASSUME TypeOK, NEW t \in Flushers, NEW c, NEW l \in {"query", "blind"}, Return(t, c, l)
  PROVE  /\ pc' \in [Tasks -> PCs]
         /\ want' \in [Tasks -> Kinds]
         /\ due' \in [Flushers -> SUBSET Msgs]
BY BufferType
DEF TypeOK, Return, CheckV2, AskFlush, NoFlush, Goto, PCs, InFlush, Kinds, Callers, Flushers, Tasks

LEMMA CountType ==
  ASSUME TypeOK, NEW m \in Msgs, NEW c, CheckCounters(m, c)
  PROVE  /\ pc' \in [Tasks -> PCs]
         /\ want' \in [Tasks -> Kinds]
         /\ due' \in [Flushers -> SUBSET Msgs]
BY BufferType
DEF TypeOK, CheckCounters, CheckV2, AskFlush, NoFlush, Goto, PCs, InFlush, Kinds, Callers, Flushers, Tasks

LEMMA SwallowType ==
  ASSUME TypeOK, NEW t \in Flushers, Swallow(t), db' \subseteq Msgs
  PROVE  TypeOK'
<1>1. /\ pc' \in [Tasks -> PCs]
      /\ want' \in [Tasks -> Kinds]
      /\ due' \in [Flushers -> SUBSET Msgs]
  BY ReturnType DEF Swallow
<1>2. QED
  BY <1>1 DEF Swallow, Release, Forget, TypeOK, Callers, Flushers, Tasks

LEMMA StepType == ASSUME TypeOK, [Next]_vars PROVE TypeOK'
<1> USE BufferType DEF Goto, Callers, Flushers, Tasks, PCs, InFlush
<1>1. ASSUME NEW m \in Msgs, Store(m) PROVE TypeOK'
  BY <1>1 DEF Store, TypeOK, flushes
<1>2. ASSUME NEW m \in Msgs, StoreFails(m) PROVE TypeOK'
  BY <1>2 DEF StoreFails, TypeOK, flushes
<1>3. ASSUME NEW m \in Msgs, Count(m) PROVE TypeOK'
  <2>1. count' \in [Kinds -> Nat]
    BY <1>3, KindType DEF Count, TypeOK
  <2>2. QED
    BY <1>3, <2>1, CountType DEF Count, TypeOK, stores, flushes
<1>4. ASSUME NEW t \in Callers, Query(t) PROVE TypeOK'
  BY <1>4 DEF Query, NoFlush, Kinds, TypeOK, stores, flushes
<1>5. ASSUME NEW t \in Callers, RequestFlush(t) PROVE TypeOK'
  BY <1>5 DEF RequestFlush, AskFlush, FlushOf, ReadOf, Kinds, TypeOK, stores, flushes
<1>6. ASSUME NEW t \in Flushers, Acquire(t) PROVE TypeOK'
  BY <1>6 DEF Acquire, TypeOK, stores, flushes, history
<1>7. ASSUME NEW t \in Flushers, ReadKeys(t) PROVE TypeOK'
  BY <1>7 DEF ReadKeys, TypeOK, stores, history
<1>8. ASSUME NEW t \in Flushers, NoKeys(t) PROVE TypeOK'
  BY <1>8, ReturnType DEF NoKeys, Release, TypeOK, stores, flushes
<1>9. ASSUME NEW t \in Flushers, NEW m \in Msgs, ReadOne(t, m) PROVE TypeOK'
  BY <1>9 DEF ReadOne, TypeOK, stores, history
<1>10. ASSUME NEW t \in Flushers, Commit(t) PROVE TypeOK'
  BY <1>10 DEF Commit, Processed, TypeOK, history
<1>11. ASSUME NEW t \in Flushers, NothingRead(t) PROVE TypeOK'
  BY <1>11, SwallowType DEF NothingRead, TypeOK
<1>12. ASSUME NEW t \in Flushers, FlushFails(t) PROVE TypeOK'
  <2>1. db' \subseteq Msgs
    BY <1>12 DEF FlushFails, TypeOK
  <2>2. QED
    BY <1>12, <2>1, SwallowType DEF FlushFails
<1>13. ASSUME NEW t \in Flushers, NEW m \in Msgs, DeleteOne(t, m) PROVE TypeOK'
  BY <1>13 DEF DeleteOne, TypeOK, history
<1>14. ASSUME NEW t \in Flushers, DeleteFails(t) PROVE TypeOK'
  BY <1>14 DEF DeleteFails, NoFlush, Kinds, Release, Forget, TypeOK, stores
<1>15. ASSUME NEW t \in Flushers, Finish(t) PROVE TypeOK'
  <2>1. count' \in [Kinds -> Nat]
    BY <1>15 DEF Finish, CountAfter, TypeOK
  <2>2. QED
    BY <1>15, <2>1, ReturnType DEF Finish, Release, Forget, TypeOK, stores
<1>16. ASSUME NEW o \in Owners, NEW k \in Kinds, EmptyKeys(o, k) PROVE TypeOK'
  BY <1>16 DEF EmptyKeys, TypeOK, stores, history
<1>17. ASSUME NEW o \in Owners, EmptyEnds(o) PROVE TypeOK'
  BY <1>17 DEF EmptyEnds, TypeOK, stores, history
<1>18. ASSUME NEW o \in Owners, NEW m \in Msgs, EmptyOne(o, m) PROVE TypeOK'
  BY <1>18 DEF EmptyOne, TypeOK
<1>19. CASE Restart
  BY <1>19 DEF Restart, TypeOK, stores, history, Kinds
<1>20. CASE Terminated \/ UNCHANGED vars
  BY <1>20 DEF Terminated, vars, stores, flushes, history, TypeOK
<1>21. QED
  BY <1>1, <1>2, <1>3, <1>4, <1>5, <1>6, <1>7, <1>8, <1>9, <1>10, <1>11, <1>12,
     <1>13, <1>14, <1>15, <1>16, <1>17, <1>18, <1>19, <1>20 DEF Next, Flush

\* The state of the buffer, of the database and of every task stays in its
\* type under every step.
THEOREM TypeCorrect == Spec => []TypeOK
<1>1. Init => TypeOK
  BY DEF Init, TypeOK, Kinds, PCs, Flushers
<1>2. TypeOK /\ [Next]_vars => TypeOK'
  BY StepType
<1>3. QED
  BY <1>1, <1>2, PTL DEF Spec

-----------------------------------------------------------------------------
(* Why nothing is lost: the inductive invariant                            *)

\* What has left the buffer for good.
Settled == db \cup emptied

\* Every set of messages holds messages that reached Redis, and a message
\* whose task has not run did not.
FromAccepted ==
  /\ Settled \cup redis \subseteq accepted
  /\ \A t \in Flushers : keys[t] \cup batch[t] \cup due[t] \subseteq accepted
  /\ \A m \in Msgs : pc[m] = "idle" => m \notin accepted

\* A flush that is reading has each of its keys to visit, has read it, or met
\* a hash that was already gone.
Reading ==
  \A t \in Flushers : pc[t] \in {"read", "commit"} =>
    keys[t] \subseteq todo[t] \cup batch[t] \cup Settled

\* It commits when it has visited all of them.
AllRead == \A t \in Flushers : pc[t] = "commit" => todo[t] = {}

\* A flush deletes only what has left the buffer.
Deleting ==
  \A t \in Flushers : pc[t] = "delete" => todo[t] \subseteq Settled

\* An emptied message does not come back.
Gone == emptied \cap redis = {}

SafeInv ==
  /\ TypeOK
  /\ NothingLost
  /\ FromAccepted
  /\ Reading
  /\ AllRead
  /\ Deleting
  /\ Gone

\* What was buffered when a task asked for its flush, and is to be read by it,
\* is of the buffer it flushes, then among the keys it found, then settled:
\* so for every task but the statistics commands that read the other table.
Matched == Flushers \ Reports

DueKind ==
  \A t \in Matched : pc[t] \in {"waiting", "keys"} =>
    \A m \in due[t] : Kind(m) = want[t]

DueFound ==
  \A t \in Matched : pc[t] \in {"read", "commit"} => due[t] \subseteq keys[t] \cup Settled

DueSettled ==
  \A t \in Matched : pc[t] \in {"delete", "query"} => due[t] \subseteq Settled

DueInv == DueKind /\ DueFound /\ DueSettled

-----------------------------------------------------------------------------
\* What a flush that returns does to its own task, and that it leaves the
\* other tasks alone.
LEMMA ReturnFrame ==
  ASSUME TypeOK, NEW t \in Flushers, NEW c, NEW l \in {"query", "blind"}, Return(t, c, l)
  PROVE  /\ \A s \in Tasks : s # t => pc'[s] = pc[s] /\ want'[s] = want[s]
         /\ \A s \in Flushers : s # t => due'[s] = due[s]
         /\ pc'[t] \in {"waiting", l, "done"}
         /\ pc'[t] = "waiting" => due'[t] = InBuffer(want'[t])
         /\ pc'[t] # "waiting" => due'[t] \subseteq due[t]
BY DEF TypeOK, Return, CheckV2, AskFlush, NoFlush, Goto, Callers, Flushers, Tasks

LEMMA CountFrame ==
  ASSUME TypeOK, NEW m \in Msgs, NEW c, CheckCounters(m, c)
  PROVE  /\ \A s \in Tasks : s # m => pc'[s] = pc[s] /\ want'[s] = want[s]
         /\ \A s \in Flushers : s # m => due'[s] = due[s]
         /\ pc'[m] \in {"waiting", "done"}
         /\ pc'[m] = "waiting" => due'[m] = InBuffer(want'[m])
         /\ pc'[m] # "waiting" => due'[m] \subseteq due[m]
BY DEF TypeOK, CheckCounters, CheckV2, AskFlush, NoFlush, Goto, Callers, Flushers, Tasks

LEMMA SafeStep == ASSUME SafeInv, [Next]_vars PROVE SafeInv'
<1> USE StepType DEF SafeInv, NothingLost, FromAccepted, Reading, AllRead, Deleting, Gone, Settled,
                     InBuffer, Goto, Callers, Flushers, Tasks, TypeOK
<1>1. ASSUME NEW m \in Msgs, Store(m) PROVE SafeInv'
  BY <1>1 DEF Store, flushes
<1>2. ASSUME NEW m \in Msgs, StoreFails(m) PROVE SafeInv'
  BY <1>2 DEF StoreFails, flushes
<1>3. ASSUME NEW m \in Msgs, Count(m) PROVE SafeInv'
  <2>1. TypeOK'
    BY StepType DEF SafeInv
  <2>2. \A s \in Tasks : pc'[s] \in {"idle", "read", "commit", "delete"} => pc'[s] = pc[s]
    BY <1>3, CountFrame DEF Count
  <2>3. \A s \in Flushers : due'[s] \subseteq accepted
    <3>1. \A s \in Flushers : due[s] \subseteq accepted /\ InBuffer(want'[s]) \subseteq accepted
      OBVIOUS
    <3>2. \A s \in Flushers : s # m => due'[s] = due[s]
      BY <1>3, CountFrame DEF Count
    <3>3. due'[m] = InBuffer(want'[m]) \/ due'[m] \subseteq due[m]
      BY <1>3, CountFrame DEF Count
    <3>4. QED
      BY <3>1, <3>2, <3>3
  <2>4. UNCHANGED <<redis, db, keys, todo, batch, accepted, emptied>>
    BY <1>3 DEF Count, stores, flushes
  <2>5. QED
    BY <2>1, <2>2, <2>3, <2>4
<1>4. ASSUME NEW t \in Callers, Query(t) PROVE SafeInv'
  BY <1>4 DEF Query, NoFlush, stores, flushes
<1>5. ASSUME NEW t \in Callers, RequestFlush(t) PROVE SafeInv'
  BY <1>5 DEF RequestFlush, AskFlush, FlushOf, ReadOf, stores, flushes
<1>6. ASSUME NEW t \in Flushers, Acquire(t) PROVE SafeInv'
  BY <1>6 DEF Acquire, stores, flushes, history
<1>7. ASSUME NEW t \in Flushers, ReadKeys(t) PROVE SafeInv'
  BY <1>7 DEF ReadKeys, stores, history
<1>8. ASSUME NEW t \in Flushers, NoKeys(t) PROVE SafeInv'
  BY <1>8, ReturnFrame DEF NoKeys, stores, flushes
<1>9. ASSUME NEW t \in Flushers, NEW m \in Msgs, ReadOne(t, m) PROVE SafeInv'
  BY <1>9 DEF ReadOne, stores, history
<1>10. ASSUME NEW t \in Flushers, Commit(t) PROVE SafeInv'
  BY <1>10 DEF Commit, Processed, history
<1>11. ASSUME NEW t \in Flushers, NothingRead(t) PROVE SafeInv'
  BY <1>11, ReturnFrame DEF NothingRead, Swallow, Forget
<1>12. ASSUME NEW t \in Flushers, FlushFails(t) PROVE SafeInv'
  BY <1>12, ReturnFrame DEF FlushFails, Swallow, Forget
<1>13. ASSUME NEW t \in Flushers, NEW m \in Msgs, DeleteOne(t, m) PROVE SafeInv'
  BY <1>13 DEF DeleteOne, history
<1>14. ASSUME NEW t \in Flushers, DeleteFails(t) PROVE SafeInv'
  BY <1>14 DEF DeleteFails, NoFlush, Forget, stores
<1>15. ASSUME NEW t \in Flushers, Finish(t) PROVE SafeInv'
  BY <1>15, ReturnFrame DEF Finish, Forget, stores
<1>16. ASSUME NEW o \in Owners, NEW k \in Kinds, EmptyKeys(o, k) PROVE SafeInv'
  BY <1>16 DEF EmptyKeys, stores, history
<1>17. ASSUME NEW o \in Owners, EmptyEnds(o) PROVE SafeInv'
  BY <1>17 DEF EmptyEnds, stores, history
<1>18. ASSUME NEW o \in Owners, NEW m \in Msgs, EmptyOne(o, m) PROVE SafeInv'
  BY <1>18 DEF EmptyOne
<1>19. CASE Restart
  BY <1>19 DEF Restart, stores, history
<1>20. CASE Terminated \/ UNCHANGED vars
  BY <1>20 DEF Terminated, vars, stores, flushes, history
<1>21. QED
  BY <1>1, <1>2, <1>3, <1>4, <1>5, <1>6, <1>7, <1>8, <1>9, <1>10, <1>11, <1>12, 
     <1>13, <1>14, <1>15, <1>16, <1>17, <1>18, <1>19, <1>20 DEF Next, Flush

\* The invariant holds for any number of tasks, failures and restarts.
THEOREM SafeInvariant == Spec => []SafeInv
<1>1. Init => SafeInv
  BY DEF Init, SafeInv, TypeOK, NothingLost, FromAccepted, Reading, AllRead, Deleting, Gone, Settled,
         Kinds, PCs, Callers, Flushers, Tasks
<1>2. SafeInv /\ [Next]_vars => SafeInv'
  BY SafeStep
<1>3. QED
  BY <1>1, <1>2, PTL DEF Spec

\* A message that reached Redis is in Redis, in the database or was emptied
\* by the owner.
THEOREM NeverLost == Spec => []NothingLost
<1>1. SafeInv => NothingLost
  BY DEF SafeInv
<1>2. QED
  BY <1>1, SafeInvariant, PTL

-----------------------------------------------------------------------------
(* Why the figures are complete                                            *)

LEMMA DueStep == ASSUME SafeInv, DueInv, [Next]_vars PROVE DueInv'
<1> USE DEF SafeInv, NothingLost, FromAccepted, Reading, AllRead, Deleting, Gone, Settled,
            Matched, DueInv, DueKind, DueFound, DueSettled, InBuffer, Goto, Callers, Flushers, Tasks, TypeOK
<1>1. ASSUME NEW m \in Msgs, Store(m) PROVE DueInv'
  BY <1>1 DEF Store, flushes
<1>2. ASSUME NEW m \in Msgs, StoreFails(m) PROVE DueInv'
  BY <1>2 DEF StoreFails, flushes
<1>3. ASSUME NEW m \in Msgs, Count(m) PROVE DueInv'
  <2>1. UNCHANGED <<redis, db, keys, todo, batch, accepted, emptied>>
    BY <1>3 DEF Count, stores, flushes
  <2>2. QED
    BY <1>3, <2>1, CountFrame DEF Count
<1>4. ASSUME NEW t \in Callers, Query(t) PROVE DueInv'
  BY <1>4 DEF Query, NoFlush, stores, flushes
<1>5. ASSUME NEW t \in Callers, RequestFlush(t) PROVE DueInv'
  BY <1>5, MessageBufferAssumption DEF RequestFlush, AskFlush, FlushOf, ReadOf, stores, flushes
<1>6. ASSUME NEW t \in Flushers, Acquire(t) PROVE DueInv'
  BY <1>6 DEF Acquire, stores, flushes, history
<1>7. ASSUME NEW t \in Flushers, ReadKeys(t) PROVE DueInv'
  BY <1>7 DEF ReadKeys, stores, history
<1>8. ASSUME NEW t \in Flushers, NoKeys(t) PROVE DueInv'
  BY <1>8, ReturnFrame DEF NoKeys, stores, flushes
<1>9. ASSUME NEW t \in Flushers, NEW m \in Msgs, ReadOne(t, m) PROVE DueInv'
  BY <1>9 DEF ReadOne, stores, history
<1>10. ASSUME NEW t \in Flushers, Commit(t) PROVE DueInv'
  BY <1>10 DEF Commit, Processed, history
<1>11. ASSUME NEW t \in Flushers, NothingRead(t) PROVE DueInv'
  BY <1>11, ReturnFrame DEF NothingRead, Swallow, Forget
<1>12. ASSUME NEW t \in Flushers, FlushFails(t) PROVE DueInv'
  BY <1>12, ReturnFrame DEF FlushFails, Swallow, Forget
<1>13. ASSUME NEW t \in Flushers, NEW m \in Msgs, DeleteOne(t, m) PROVE DueInv'
  BY <1>13 DEF DeleteOne, history
<1>14. ASSUME NEW t \in Flushers, DeleteFails(t) PROVE DueInv'
  BY <1>14 DEF DeleteFails, NoFlush, Forget, stores
<1>15. ASSUME NEW t \in Flushers, Finish(t) PROVE DueInv'
  BY <1>15, ReturnFrame DEF Finish, Forget, stores
<1>16. ASSUME NEW o \in Owners, NEW k \in Kinds, EmptyKeys(o, k) PROVE DueInv'
  BY <1>16 DEF EmptyKeys, stores, history
<1>17. ASSUME NEW o \in Owners, EmptyEnds(o) PROVE DueInv'
  BY <1>17 DEF EmptyEnds, stores, history
<1>18. ASSUME NEW o \in Owners, NEW m \in Msgs, EmptyOne(o, m) PROVE DueInv'
  BY <1>18 DEF EmptyOne
<1>19. CASE Restart
  BY <1>19 DEF Restart, stores, history
<1>20. CASE Terminated \/ UNCHANGED vars
  BY <1>20 DEF Terminated, vars, stores, flushes, history
<1>21. QED
  BY <1>1, <1>2, <1>3, <1>4, <1>5, <1>6, <1>7, <1>8, <1>9, <1>10,
     <1>11, <1>12, <1>13, <1>14, <1>15, <1>16, <1>17, <1>18, <1>19, <1>20 DEF Next, Flush

\* A task that reads messages of the buffer it has flushed, by a flush that did not
\* fail, finds every one that was buffered when it asked.
THEOREM CompleteFigures == Spec => []StatisticsComplete
<1>1. Init => DueInv
  BY DEF Init, Matched, DueInv, DueKind, DueFound, DueSettled, Callers, Flushers, Tasks
<1>2. SafeInv /\ DueInv /\ [Next]_vars => DueInv'
  BY DueStep
<1>3. DueInv => StatisticsComplete
  BY MessageBufferAssumption
  DEF DueInv, DueSettled, Matched, StatisticsComplete, Complete, Settled, Callers, Flushers
<1>4. QED
  BY <1>1, <1>2, <1>3, SafeInvariant, PTL DEF Spec

-----------------------------------------------------------------------------
(* The buffer implements the archive                                       *)

\* Every step of the buffer is a step of the archive, or leaves it alone.
LEMMA ArchiveStep == ASSUME SafeInv, [Next]_vars PROVE [Archive!Next]_(Archive!vars)
<1> USE DEF SafeInv, NothingLost, FromAccepted, Deleting, Gone, Settled, TypeOK, Callers, Flushers, Tasks
<1> DEFINE Same == UNCHANGED <<redis, db, emptied>>
           Moved(S) == /\ S \subseteq redis \cup db \cup emptied
                       /\ db' = db \cup S
                       /\ UNCHANGED <<redis, emptied>>
<1>a. Same => UNCHANGED Archive!vars
  BY DEF Archive!vars
<1>b. ASSUME NEW S \in SUBSET Msgs, Moved(S) PROVE [Archive!Next]_(Archive!vars)
  <2>1. Archive!Archive(S \ db)
    BY <1>b DEF Archive!Archive
  <2>2. QED
    BY <2>1 DEF Archive!Next
<1>c. ASSUME NEW m \in Msgs, pc[m] = "idle", redis' = redis \cup {m}, UNCHANGED <<db, emptied>>
      PROVE [Archive!Next]_(Archive!vars)
  <2>1. m \notin redis \cup db \cup emptied
    BY <1>c
  <2>2. Archive!Accept(m)
    BY <1>c, <2>1 DEF Archive!Accept
  <2>3. QED
    BY <2>2 DEF Archive!Next
<1>1. ASSUME NEW m \in Msgs, Store(m) PROVE [Archive!Next]_(Archive!vars)
  BY <1>1, <1>c DEF Store
<1>2. ASSUME NEW m \in Msgs, StoreFails(m) PROVE [Archive!Next]_(Archive!vars)
  <2>1. CASE UNCHANGED redis
    BY <1>2, <2>1, <1>a DEF StoreFails
  <2>2. CASE redis' = redis \cup {m}
    BY <1>2, <2>2, <1>c DEF StoreFails
  <2>3. QED
    BY <1>2, <2>1, <2>2 DEF StoreFails
<1>3. ASSUME NEW m \in Msgs, Count(m) PROVE [Archive!Next]_(Archive!vars)
  BY <1>3, <1>a DEF Count, stores
<1>4. ASSUME NEW t \in Callers, Query(t) PROVE [Archive!Next]_(Archive!vars)
  BY <1>4, <1>a DEF Query, stores, history
<1>5. ASSUME NEW t \in Callers, RequestFlush(t) PROVE [Archive!Next]_(Archive!vars)
  BY <1>5, <1>a DEF RequestFlush, stores
<1>6. ASSUME NEW t \in Flushers, Acquire(t) PROVE [Archive!Next]_(Archive!vars)
  BY <1>6, <1>a DEF Acquire, stores, history
<1>7. ASSUME NEW t \in Flushers, ReadKeys(t) PROVE [Archive!Next]_(Archive!vars)
  BY <1>7, <1>a DEF ReadKeys, stores, history
<1>8. ASSUME NEW t \in Flushers, NoKeys(t) PROVE [Archive!Next]_(Archive!vars)
  BY <1>8, <1>a DEF NoKeys, stores
<1>9. ASSUME NEW t \in Flushers, NEW m \in Msgs, ReadOne(t, m) PROVE [Archive!Next]_(Archive!vars)
  BY <1>9, <1>a DEF ReadOne, stores, history
<1>10. ASSUME NEW t \in Flushers, Commit(t) PROVE [Archive!Next]_(Archive!vars)
  <2>1. Moved(batch[t])
    BY <1>10 DEF Commit, history
  <2>2. QED
    BY <2>1, <1>b
<1>11. ASSUME NEW t \in Flushers, NothingRead(t) PROVE [Archive!Next]_(Archive!vars)
  BY <1>11, <1>a DEF NothingRead, Swallow
<1>12. ASSUME NEW t \in Flushers, FlushFails(t) PROVE [Archive!Next]_(Archive!vars)
  <2>1. CASE UNCHANGED db
    BY <1>12, <2>1, <1>a DEF FlushFails, Swallow
  <2>2. CASE db' = db \cup batch[t]
    <3>1. Moved(batch[t])
      BY <1>12, <2>2 DEF FlushFails, Swallow
    <3>2. QED
      BY <3>1, <1>b
  <2>3. QED
    BY <1>12, <2>1, <2>2 DEF FlushFails
<1>13. ASSUME NEW t \in Flushers, NEW m \in Msgs, DeleteOne(t, m) PROVE [Archive!Next]_(Archive!vars)
  <2>1. m \in db \cup emptied
    BY <1>13 DEF DeleteOne
  <2>2. QED
    BY <1>13, <2>1 DEF DeleteOne, history, Archive!vars
<1>14. ASSUME NEW t \in Flushers, DeleteFails(t) PROVE [Archive!Next]_(Archive!vars)
  BY <1>14, <1>a DEF DeleteFails, stores
<1>15. ASSUME NEW t \in Flushers, Finish(t) PROVE [Archive!Next]_(Archive!vars)
  BY <1>15, <1>a DEF Finish, stores
<1>16. ASSUME NEW o \in Owners, NEW k \in Kinds, EmptyKeys(o, k) PROVE [Archive!Next]_(Archive!vars)
  BY <1>16, <1>a DEF EmptyKeys, stores, history
<1>17. ASSUME NEW o \in Owners, EmptyEnds(o) PROVE [Archive!Next]_(Archive!vars)
  BY <1>17, <1>a DEF EmptyEnds, stores, history
<1>18. ASSUME NEW o \in Owners, NEW m \in Msgs, EmptyOne(o, m) PROVE [Archive!Next]_(Archive!vars)
  <2>1. CASE m \in redis \ db
    <3>1. Archive!Discard(m)
      BY <1>18, <2>1 DEF EmptyOne, Archive!Discard
    <3>2. QED
      BY <3>1 DEF Archive!Next
  <2>2. CASE m \notin redis \ db
    BY <1>18, <2>2 DEF EmptyOne, Archive!vars
  <2>3. QED
    BY <2>1, <2>2
<1>19. CASE Restart
  BY <1>19, <1>a DEF Restart, stores, history
<1>20. CASE Terminated \/ UNCHANGED vars
  BY <1>20, <1>a DEF Terminated, vars, stores, history
<1>21. QED
  BY <1>1, <1>2, <1>3, <1>4, <1>5, <1>6, <1>7, <1>8, <1>9, <1>10,
     <1>11, <1>12, <1>13, <1>14, <1>15, <1>16, <1>17, <1>18, <1>19, <1>20 DEF Next, Flush

\* What the buffer does to messages is what the archive promises: a message
\* is archived or stays, and only the owner discards one.
THEOREM BufferImplementsArchive == Spec => ArchiveSpec
<1>1. Init => Archive!Init
  BY DEF Init, Archive!Init
<1>2. SafeInv /\ [Next]_vars => [Archive!Next]_(Archive!vars)
  BY ArchiveStep
<1>3. QED
  BY <1>1, <1>2, SafeInvariant, PTL DEF Spec, ArchiveSpec, Archive!Spec

-----------------------------------------------------------------------------
(* The lock                                                                *)

\* The holder of flush_lock is the one task in the critical section, and while
\* it reads it has a key to read.
LockHeld ==
  /\ \A t \in Flushers : pc[t] \in InFlush <=> lock = t
  /\ \A t \in Flushers : pc[t] = "read" => todo[t] # {}

\* A task that leaves the critical section gives the lock back.
LEMMA Released ==
  ASSUME LockHeld, NEW t \in Flushers, pc[t] \in InFlush, Release,
         pc'[t] \notin InFlush,
         \A s \in Flushers : s # t => pc'[s] = pc[s] /\ todo'[s] = todo[s]
  PROVE  LockHeld'
<1>1. lock = t /\ lock' = Free /\ Free \notin Flushers
  BY MessageBufferAssumption DEF LockHeld, Release, Callers, Flushers
<1>2. \A s \in Flushers : pc'[s] \notin InFlush
  BY <1>1 DEF LockHeld
<1>3. \A s \in Flushers : pc'[s] # "read"
  BY <1>2 DEF InFlush
<1>4. QED
  BY <1>1, <1>2, <1>3 DEF LockHeld

\* One that asks for a flush is outside.
LEMMA LockStep == ASSUME TypeOK, LockHeld, [Next]_vars PROVE LockHeld'
<1> USE MessageBufferAssumption DEF LockHeld, InFlush, Goto, Callers, Flushers, Tasks, TypeOK
<1>1. ASSUME NEW m \in Msgs, Store(m) PROVE LockHeld'
  BY <1>1 DEF Store, flushes
<1>2. ASSUME NEW m \in Msgs, StoreFails(m) PROVE LockHeld'
  BY <1>2 DEF StoreFails, flushes
<1>3. ASSUME NEW m \in Msgs, Count(m) PROVE LockHeld'
  <2>1. UNCHANGED <<lock, todo>> /\ pc[m] = "stored"
    BY <1>3 DEF Count, flushes
  <2>2. pc'[m] \in {"waiting", "done"} /\ \A s \in Tasks : s # m => pc'[s] = pc[s]
    BY <1>3, CountFrame DEF Count
  <2>3. QED
    BY <2>1, <2>2
<1>4. ASSUME NEW t \in Callers, Query(t) PROVE LockHeld'
  BY <1>4 DEF Query, NoFlush, flushes
<1>5. ASSUME NEW t \in Callers, RequestFlush(t) PROVE LockHeld'
  BY <1>5 DEF RequestFlush, AskFlush, FlushOf, ReadOf, flushes
<1>6. ASSUME NEW t \in Flushers, Acquire(t) PROVE LockHeld'
  BY <1>6 DEF Acquire, flushes
<1>7. ASSUME NEW t \in Flushers, ReadKeys(t) PROVE LockHeld'
  BY <1>7 DEF ReadKeys
<1>8. ASSUME NEW t \in Flushers, NoKeys(t) PROVE LockHeld'
  <2>1. pc[t] \in InFlush /\ Release /\ \A s \in Flushers : s # t => todo'[s] = todo[s]
    BY <1>8 DEF NoKeys, flushes
  <2>2. pc'[t] \in {"waiting", "query", "blind", "done"} /\ \A s \in Tasks : s # t => pc'[s] = pc[s]
    BY <1>8, ReturnFrame DEF NoKeys, flushes
  <2>3. QED
    BY <2>1, <2>2, Released
<1>9. ASSUME NEW t \in Flushers, NEW m \in Msgs, ReadOne(t, m) PROVE LockHeld'
  BY <1>9 DEF ReadOne
<1>10. ASSUME NEW t \in Flushers, Commit(t) PROVE LockHeld'
  BY <1>10 DEF Commit
<1>11. ASSUME NEW t \in Flushers, NothingRead(t) PROVE LockHeld'
  <2>1. pc[t] \in InFlush /\ Release /\ \A s \in Flushers : s # t => todo'[s] = todo[s]
    BY <1>11 DEF NothingRead, Swallow, Forget
  <2>2. pc'[t] \in {"waiting", "query", "blind", "done"} /\ \A s \in Tasks : s # t => pc'[s] = pc[s]
    BY <1>11, ReturnFrame DEF NothingRead, Swallow, Forget
  <2>3. QED
    BY <2>1, <2>2, Released
<1>12. ASSUME NEW t \in Flushers, FlushFails(t) PROVE LockHeld'
  <2>1. pc[t] \in InFlush /\ Release /\ \A s \in Flushers : s # t => todo'[s] = todo[s]
    BY <1>12 DEF FlushFails, Swallow, Forget
  <2>2. pc'[t] \in {"waiting", "query", "blind", "done"} /\ \A s \in Tasks : s # t => pc'[s] = pc[s]
    BY <1>12, ReturnFrame DEF FlushFails, Swallow, Forget
  <2>3. QED
    BY <2>1, <2>2, Released
<1>13. ASSUME NEW t \in Flushers, NEW m \in Msgs, DeleteOne(t, m) PROVE LockHeld'
  BY <1>13 DEF DeleteOne
<1>14. ASSUME NEW t \in Flushers, DeleteFails(t) PROVE LockHeld'
  <2>1. pc[t] \in InFlush /\ Release /\ pc'[t] \notin InFlush
    BY <1>14 DEF DeleteFails, NoFlush
  <2>2. \A s \in Flushers : s # t => pc'[s] = pc[s] /\ todo'[s] = todo[s]
    BY <1>14 DEF DeleteFails, NoFlush, Forget
  <2>3. QED
    BY <2>1, <2>2, Released
<1>15. ASSUME NEW t \in Flushers, Finish(t) PROVE LockHeld'
  <2>1. pc[t] \in InFlush /\ Release /\ \A s \in Flushers : s # t => todo'[s] = todo[s]
    BY <1>15 DEF Finish, Forget
  <2>2. pc'[t] \in {"waiting", "query", "blind", "done"} /\ \A s \in Tasks : s # t => pc'[s] = pc[s]
    BY <1>15, ReturnFrame DEF Finish, Forget
  <2>3. QED
    BY <2>1, <2>2, Released
<1>16. ASSUME NEW o \in Owners, NEW k \in Kinds, EmptyKeys(o, k) PROVE LockHeld'
  BY <1>16 DEF EmptyKeys
<1>17. ASSUME NEW o \in Owners, EmptyEnds(o) PROVE LockHeld'
  BY <1>17 DEF EmptyEnds
<1>18. ASSUME NEW o \in Owners, NEW m \in Msgs, EmptyOne(o, m) PROVE LockHeld'
  BY <1>18 DEF EmptyOne
<1>19. CASE Restart
  BY <1>19 DEF Restart
<1>20. CASE Terminated \/ UNCHANGED vars
  BY <1>20 DEF Terminated, vars, flushes
<1>21. QED
  BY <1>1, <1>2, <1>3, <1>4, <1>5, <1>6, <1>7, <1>8, <1>9, <1>10,
     <1>11, <1>12, <1>13, <1>14, <1>15, <1>16, <1>17, <1>18, <1>19, <1>20 DEF Next, Flush

\* The safety half of FlushReturns: two flushes never overlap, whichever of the two
\* procedures they run, and the lock is never held by a task that has left, by
\* whatever way, or by one that was never in.
THEOREM FlushesExclude == Spec => []LockHeld
<1>1. Init => LockHeld
  BY MessageBufferAssumption DEF Init, LockHeld, InFlush, Callers, Flushers, Tasks
<1>2. SafeInv /\ LockHeld /\ [Next]_vars => LockHeld'
  BY LockStep DEF SafeInv
<1>3. QED
  BY <1>1, <1>2, SafeInvariant, PTL DEF Spec
=============================================================================
