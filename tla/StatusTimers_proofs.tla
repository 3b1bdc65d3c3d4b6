------------------------- MODULE StatusTimers_proofs -------------------------
(***************************************************************************)
(* Proofs about the status queue and the inactivity timers, for any sets   *)
(* of channels, commands and workers and any number of restarts.           *)
(***************************************************************************)
EXTENDS StatusTimers, TLAPS

-----------------------------------------------------------------------------
(* Type correctness                                                        *)

\* A command has a channel until it ends, a worker from its lookup to its pop.
HasChannel ==
  /\ \A m \in Mods : cmd[m] # "none" => at[m] \in Chans
  /\ \A w \in Workers : wpc[w] \in {"closing", "popping"} => cur[w] \in Chans

LEMMA StepType ==
  ASSUME TypeOK, HasChannel, [Next]_vars
  PROVE  TypeOK' /\ HasChannel'
<1> USE DEF TypeOK, HasChannel, Statuses, Commands,
            inMemory, discord, tasks, workers, history
<1>1. ASSUME NEW c \in Chans, NewTicket(c) PROVE TypeOK' /\ HasChannel'
  BY <1>1 DEF NewTicket, QueueAutomatic, Restricted, Disarms
<1>2. ASSUME NEW c \in Chans, StaffReply(c) PROVE TypeOK' /\ HasChannel'
  BY <1>2 DEF StaffReply, QueueAutomatic, Restricted, Disarms
<1>3. ASSUME NEW c \in Chans, UserReply(c) PROVE TypeOK' /\ HasChannel'
  BY <1>3 DEF UserReply, QueueAutomatic, Restricted, Disarms
<1>4. ASSUME NEW c \in Chans, UserReplyEnds(c) PROVE TypeOK' /\ HasChannel'
  BY <1>4 DEF UserReplyEnds, QueueAutomatic, Restricted, Disarms
<1>5. ASSUME NEW c \in Chans, Inactive(c) PROVE TypeOK' /\ HasChannel'
  BY <1>5 DEF Inactive, QueueManual
<1>6. ASSUME NEW c \in Chans, MarkNSFW(c) PROVE TypeOK' /\ HasChannel'
  BY <1>6 DEF MarkNSFW
<1>7. ASSUME NEW c \in Chans, NEW s \in {"new", "alert", "wait", "kept"}, SetStatus(c, s) PROVE TypeOK' /\ HasChannel'
  BY <1>7 DEF SetStatus, QueueManual
<1>8. ASSUME NEW m \in Mods, NEW c \in Chans, Active(m, c) PROVE TypeOK' /\ HasChannel'
  BY <1>8 DEF Active, Begins
<1>9. ASSUME NEW m \in Mods, NEW c \in Chans, Close(m, c) PROVE TypeOK' /\ HasChannel'
  BY <1>9 DEF Close, Begins
<1>10. ASSUME NEW m \in Mods, ActiveSet(m) PROVE TypeOK' /\ HasChannel'
  BY <1>10 DEF ActiveSet, QueueManual, Ends
<1>11. ASSUME NEW m \in Mods, CloseSet(m) PROVE TypeOK' /\ HasChannel'
  BY <1>11 DEF CloseSet, Record, RecordFails, Ends
<1>12. ASSUME NEW c \in Chans, ChannelDeleted(c) PROVE TypeOK' /\ HasChannel'
  BY <1>12 DEF ChannelDeleted
<1>13. ASSUME NEW c \in Chans, Expire(c) PROVE TypeOK' /\ HasChannel'
  BY <1>13 DEF Expire
<1>14. ASSUME NEW w \in Workers, Ready(w) PROVE TypeOK' /\ HasChannel'
  BY <1>14 DEF Ready
<1>15. ASSUME NEW w \in Workers, NEW c \in Chans, CollectExpired(w, c) PROVE TypeOK' /\ HasChannel'
  BY <1>15 DEF CollectExpired, Take, WorkerAt, Expired
<1>16. ASSUME NEW w \in Workers, NEW c \in Chans, NextExpired(w, c) PROVE TypeOK' /\ HasChannel'
  BY <1>16 DEF NextExpired, Take, WorkerAt
<1>17. ASSUME NEW w \in Workers, CloseExpired(w) PROVE TypeOK' /\ HasChannel'
  BY <1>17 DEF CloseExpired, Record, RecordFails, WorkerAt
<1>18. ASSUME NEW w \in Workers, PopTimer(w) PROVE TypeOK' /\ HasChannel'
  BY <1>18 DEF PopTimer, AfterPop, WorkerAt
<1>19. CASE StatusPass
  BY <1>19 DEF StatusPass, Collected
<1>20. CASE Restart
  BY <1>20 DEF Restart
<1>21. CASE UNCHANGED vars
  BY <1>21 DEF vars
<1>22. QED
  BY <1>1, <1>2, <1>3, <1>4, <1>5, <1>6, <1>7, <1>8, <1>9, <1>10, <1>11, <1>12,
     <1>13, <1>14, <1>15, <1>16, <1>17, <1>18, <1>19, <1>20, <1>21 DEF Next, TimerPass, Command

-----------------------------------------------------------------------------
(* The timers                                                              *)

\* Only the channel of a ticket has a timer.
ArmedHasTicket == \A c \in Chans : timer[c] # "off" => c \in channels \cup closed

\* A timer armed while an +active is under way in its channel is on record.
ActiveDisarmed ==
  \A m \in Mods :
    cmd[m] = "active" /\ timer[at[m]] # "off" => at[m] \in raced \cup closed

TimerInv ==
  /\ ArmedIsInactive
  /\ ArmedHasTicket
  /\ ActiveDisarmed

LEMMA StepTimer ==
  ASSUME TypeOK, HasChannel, TimerInv, [Next]_vars
  PROVE  TimerInv'
<1> USE DEF TypeOK, HasChannel, TimerInv, ArmedIsInactive, ArmedHasTicket, ActiveDisarmed,
            inMemory, discord, tasks, workers, history
<1>1. ASSUME NEW c \in Chans, NewTicket(c) PROVE TimerInv'
  BY <1>1 DEF NewTicket, QueueAutomatic, Restricted, Disarms
<1>2. ASSUME NEW c \in Chans, StaffReply(c) PROVE TimerInv'
  BY <1>2 DEF StaffReply, QueueAutomatic, Restricted, Disarms
<1>3. ASSUME NEW c \in Chans, UserReply(c) PROVE TimerInv'
  BY <1>3 DEF UserReply, QueueAutomatic, Restricted, Disarms
<1>4. ASSUME NEW c \in Chans, UserReplyEnds(c) PROVE TimerInv'
  BY <1>4 DEF UserReplyEnds, QueueAutomatic, Restricted, Disarms
<1>5. ASSUME NEW c \in Chans, Inactive(c) PROVE TimerInv'
  BY <1>5 DEF Inactive, QueueManual
<1>6. ASSUME NEW c \in Chans, MarkNSFW(c) PROVE TimerInv'
  BY <1>6 DEF MarkNSFW
<1>7. ASSUME NEW c \in Chans, NEW s \in {"new", "alert", "wait", "kept"}, SetStatus(c, s) PROVE TimerInv'
  BY <1>7 DEF SetStatus, QueueManual
<1>8. ASSUME NEW m \in Mods, NEW c \in Chans, Active(m, c) PROVE TimerInv'
  BY <1>8 DEF Active, Begins
<1>9. ASSUME NEW m \in Mods, NEW c \in Chans, Close(m, c) PROVE TimerInv'
  BY <1>9 DEF Close, Begins
<1>10. ASSUME NEW m \in Mods, ActiveSet(m) PROVE TimerInv'
  BY <1>10 DEF ActiveSet, QueueManual, Ends
<1>11. ASSUME NEW m \in Mods, CloseSet(m) PROVE TimerInv'
  BY <1>11 DEF CloseSet, Record, RecordFails, Ends
<1>12. ASSUME NEW c \in Chans, ChannelDeleted(c) PROVE TimerInv'
  BY <1>12 DEF ChannelDeleted
<1>13. ASSUME NEW c \in Chans, Expire(c) PROVE TimerInv'
  BY <1>13 DEF Expire
<1>14. ASSUME NEW w \in Workers, Ready(w) PROVE TimerInv'
  BY <1>14 DEF Ready
<1>15. ASSUME NEW w \in Workers, NEW c \in Chans, CollectExpired(w, c) PROVE TimerInv'
  BY <1>15 DEF CollectExpired, Take, WorkerAt, Expired
<1>16. ASSUME NEW w \in Workers, NEW c \in Chans, NextExpired(w, c) PROVE TimerInv'
  BY <1>16 DEF NextExpired, Take, WorkerAt
<1>17. ASSUME NEW w \in Workers, CloseExpired(w) PROVE TimerInv'
  BY <1>17 DEF CloseExpired, Record, RecordFails, WorkerAt
<1>18. ASSUME NEW w \in Workers, PopTimer(w) PROVE TimerInv'
  BY <1>18 DEF PopTimer, AfterPop, WorkerAt
<1>19. CASE StatusPass
  BY <1>19 DEF StatusPass, Collected
<1>20. CASE Restart
  BY <1>20 DEF Restart
<1>21. CASE UNCHANGED vars
  BY <1>21 DEF vars
<1>22. QED
  BY <1>1, <1>2, <1>3, <1>4, <1>5, <1>6, <1>7, <1>8, <1>9, <1>10, <1>11, <1>12,
     <1>13, <1>14, <1>15, <1>16, <1>17, <1>18, <1>19, <1>20, <1>21 DEF Next, TimerPass, Command

\* Channels, commands, workers and timers agree in every state of the model.
THEOREM TimersInvariant == Spec => [](TypeOK /\ HasChannel /\ TimerInv)
<1>1. Init => TypeOK
  BY StatusTimersAssumption DEF Init, TypeOK, Statuses, Commands
<1>2. Init => HasChannel /\ TimerInv
  BY DEF Init, HasChannel, TimerInv, ArmedIsInactive, ArmedHasTicket, ActiveDisarmed
<1>3. TypeOK /\ HasChannel /\ TimerInv /\ [Next]_vars => (TypeOK /\ HasChannel /\ TimerInv)'
  BY StepType, StepTimer
<1>4. QED
  BY <1>1, <1>2, <1>3, PTL DEF Spec

\* The queue, the timers and every task of the workers and commands stay in
\* their types.
THEOREM TimerTypes == Spec => []TypeOK
<1>1. TypeOK /\ HasChannel /\ TimerInv => TypeOK
  OBVIOUS
<1>2. QED
  BY <1>1, TimersInvariant, PTL

\* Whatever the staff, the user and any number of workers do, a ticket that will
\* be closed for inactivity is queued as inactive, unless an +inactive ran
\* into an +active or the ticket is closed.
THEOREM ArmedShowsInactive == Spec => []ArmedIsInactive
<1>1. TypeOK /\ HasChannel /\ TimerInv => ArmedIsInactive
  BY DEF TimerInv
<1>2. QED
  BY <1>1, TimersInvariant, PTL

\* A relayed message of the user ends with the ticket's timer gone, also when
\* an +inactive came between remove_timer and set_emoji.
THEOREM ReplyTakesTimer == Spec => ReplyDisarms
<1> DEFINE Disarmed ==
      \A c \in Chans \ (closed \cup raced) : UserReplyEnds(c) => timer'[c] = "off"
<1>1. TypeOK /\ HasChannel /\ TimerInv /\ [Next]_vars => [Disarmed]_vars
  <2> SUFFICES ASSUME TypeOK, ArmedIsInactive,
                      NEW c \in Chans \ (closed \cup raced), UserReplyEnds(c)
               PROVE  timer'[c] = "off"
    BY DEF TimerInv
  <2>1. CASE timer[c] = "off"
    BY <2>1 DEF UserReplyEnds, QueueAutomatic, TypeOK
  <2>2. CASE timer[c] # "off"
    <3>1. status[c] = "inactive"
      BY <2>2 DEF ArmedIsInactive
    <3>2. ~Restricted(status[c], "alert") /\ Disarms(status[c], "alert")
      BY <3>1 DEF Restricted, Disarms
    <3>3. QED
      BY <3>2 DEF UserReplyEnds, QueueAutomatic, TypeOK
  <2>3. QED
    BY <2>1, <2>2
<1>2. QED
  BY <1>1, TimersInvariant, PTL DEF Spec, ReplyDisarms

-----------------------------------------------------------------------------
(* Tickets announced to close                                              *)

\* A ticket announced to close has its timer, unless a pop or a restart lost it.
PromiseHasTimer == \A c \in promised \ dropped : timer[c] # "off"

\* Nothing is announced of a closed ticket.
PromisedIsOpen == promised \cap closed = {}

LEMMA StepPromise ==
  ASSUME TypeOK, HasChannel, PromiseHasTimer, PromisedIsOpen, [Next]_vars
  PROVE  PromiseHasTimer' /\ PromisedIsOpen'
<1> USE DEF TypeOK, HasChannel, PromiseHasTimer, PromisedIsOpen,
            inMemory, discord, tasks, workers, history
<1>1. ASSUME NEW c \in Chans, NewTicket(c) PROVE PromiseHasTimer' /\ PromisedIsOpen'
  BY <1>1 DEF NewTicket, QueueAutomatic, Restricted, Disarms
<1>2. ASSUME NEW c \in Chans, StaffReply(c) PROVE PromiseHasTimer' /\ PromisedIsOpen'
  BY <1>2 DEF StaffReply, QueueAutomatic, Restricted, Disarms
<1>3. ASSUME NEW c \in Chans, UserReply(c) PROVE PromiseHasTimer' /\ PromisedIsOpen'
  BY <1>3 DEF UserReply, QueueAutomatic, Restricted, Disarms
<1>4. ASSUME NEW c \in Chans, UserReplyEnds(c) PROVE PromiseHasTimer' /\ PromisedIsOpen'
  BY <1>4 DEF UserReplyEnds, QueueAutomatic, Restricted, Disarms
<1>5. ASSUME NEW c \in Chans, Inactive(c) PROVE PromiseHasTimer' /\ PromisedIsOpen'
  BY <1>5 DEF Inactive
<1>6. ASSUME NEW c \in Chans, MarkNSFW(c) PROVE PromiseHasTimer' /\ PromisedIsOpen'
  BY <1>6 DEF MarkNSFW
<1>7. ASSUME NEW c \in Chans, NEW s \in {"new", "alert", "wait", "kept"}, SetStatus(c, s) PROVE PromiseHasTimer' /\ PromisedIsOpen'
  BY <1>7 DEF SetStatus
<1>8. ASSUME NEW m \in Mods, NEW c \in Chans, Active(m, c) PROVE PromiseHasTimer' /\ PromisedIsOpen'
  BY <1>8 DEF Active, Begins
<1>9. ASSUME NEW m \in Mods, NEW c \in Chans, Close(m, c) PROVE PromiseHasTimer' /\ PromisedIsOpen'
  BY <1>9 DEF Close, Begins
<1>10. ASSUME NEW m \in Mods, ActiveSet(m) PROVE PromiseHasTimer' /\ PromisedIsOpen'
  BY <1>10 DEF ActiveSet, Ends
<1>11. ASSUME NEW m \in Mods, CloseSet(m) PROVE PromiseHasTimer' /\ PromisedIsOpen'
  BY <1>11 DEF CloseSet, Record, RecordFails, Ends
<1>12. ASSUME NEW c \in Chans, ChannelDeleted(c) PROVE PromiseHasTimer' /\ PromisedIsOpen'
  BY <1>12 DEF ChannelDeleted
<1>13. ASSUME NEW c \in Chans, Expire(c) PROVE PromiseHasTimer' /\ PromisedIsOpen'
  BY <1>13 DEF Expire
<1>14. ASSUME NEW w \in Workers, Ready(w) PROVE PromiseHasTimer' /\ PromisedIsOpen'
  BY <1>14 DEF Ready
<1>15. ASSUME NEW w \in Workers, NEW c \in Chans, CollectExpired(w, c) PROVE PromiseHasTimer' /\ PromisedIsOpen'
  BY <1>15 DEF CollectExpired, Take, WorkerAt
<1>16. ASSUME NEW w \in Workers, NEW c \in Chans, NextExpired(w, c) PROVE PromiseHasTimer' /\ PromisedIsOpen'
  BY <1>16 DEF NextExpired, Take, WorkerAt
<1>17. ASSUME NEW w \in Workers, CloseExpired(w) PROVE PromiseHasTimer' /\ PromisedIsOpen'
  BY <1>17 DEF CloseExpired, Record, RecordFails, WorkerAt
<1>18. ASSUME NEW w \in Workers, PopTimer(w) PROVE PromiseHasTimer' /\ PromisedIsOpen'
  BY <1>18 DEF PopTimer, AfterPop, WorkerAt
<1>19. CASE StatusPass
  BY <1>19 DEF StatusPass
<1>20. CASE Restart
  BY <1>20 DEF Restart
<1>21. CASE UNCHANGED vars
  BY <1>21 DEF vars
<1>22. QED
  BY <1>1, <1>2, <1>3, <1>4, <1>5, <1>6, <1>7, <1>8, <1>9, <1>10, <1>11, <1>12,
     <1>13, <1>14, <1>15, <1>16, <1>17, <1>18, <1>19, <1>20, <1>21 DEF Next, TimerPass, Command

\* The safety half of PromiseKept: however replies, commands, workers and failing
\* closes interleave, a ticket announced to close is open and has the timer that
\* will close it, unless a restart or a failing close lost the timer.
THEOREM AnnouncedHasTimer == Spec => [](PromiseHasTimer /\ PromisedIsOpen)
<1>1. Init => PromiseHasTimer /\ PromisedIsOpen
  BY DEF Init, PromiseHasTimer, PromisedIsOpen
<1>2. /\ TypeOK /\ HasChannel /\ TimerInv
      /\ PromiseHasTimer /\ PromisedIsOpen /\ [Next]_vars
      => (PromiseHasTimer /\ PromisedIsOpen)'
  BY StepPromise
<1>3. QED
  BY <1>1, <1>2, TimersInvariant, PTL DEF Spec

-----------------------------------------------------------------------------
(* The ticket                                                              *)

\* Who is about to close a ticket has seen its channel, whatever became of it.
CloserHasTicket ==
  /\ \A m \in Mods : cmd[m] = "close" => at[m] \in channels \cup closed
  /\ \A w \in Workers : wpc[w] = "closing" => cur[w] \in channels \cup closed

LEMMA StepCloser ==
  ASSUME TypeOK, HasChannel, CloserHasTicket, [Next]_vars
  PROVE  CloserHasTicket'
<1> USE DEF TypeOK, HasChannel, CloserHasTicket,
            inMemory, discord, tasks, workers, history
<1>1. ASSUME NEW c \in Chans, NewTicket(c) PROVE CloserHasTicket'
  BY <1>1 DEF NewTicket, QueueAutomatic, Restricted, Disarms
<1>2. ASSUME NEW c \in Chans, StaffReply(c) PROVE CloserHasTicket'
  BY <1>2 DEF StaffReply, QueueAutomatic, Restricted, Disarms
<1>3. ASSUME NEW c \in Chans, UserReply(c) PROVE CloserHasTicket'
  BY <1>3 DEF UserReply, QueueAutomatic, Restricted, Disarms
<1>4. ASSUME NEW c \in Chans, UserReplyEnds(c) PROVE CloserHasTicket'
  BY <1>4 DEF UserReplyEnds, QueueAutomatic, Restricted, Disarms
<1>5. ASSUME NEW c \in Chans, Inactive(c) PROVE CloserHasTicket'
  BY <1>5 DEF Inactive
<1>6. ASSUME NEW c \in Chans, MarkNSFW(c) PROVE CloserHasTicket'
  BY <1>6 DEF MarkNSFW
<1>7. ASSUME NEW c \in Chans, NEW s \in {"new", "alert", "wait", "kept"}, SetStatus(c, s) PROVE CloserHasTicket'
  BY <1>7 DEF SetStatus
<1>8. ASSUME NEW m \in Mods, NEW c \in Chans, Active(m, c) PROVE CloserHasTicket'
  BY <1>8 DEF Active, Begins
<1>9. ASSUME NEW m \in Mods, NEW c \in Chans, Close(m, c) PROVE CloserHasTicket'
  BY <1>9 DEF Close, Begins
<1>10. ASSUME NEW m \in Mods, ActiveSet(m) PROVE CloserHasTicket'
  BY <1>10 DEF ActiveSet, Ends
<1>11. ASSUME NEW m \in Mods, CloseSet(m) PROVE CloserHasTicket'
  BY <1>11 DEF CloseSet, Record, RecordFails, Ends
<1>12. ASSUME NEW c \in Chans, ChannelDeleted(c) PROVE CloserHasTicket'
  BY <1>12 DEF ChannelDeleted
<1>13. ASSUME NEW c \in Chans, Expire(c) PROVE CloserHasTicket'
  BY <1>13 DEF Expire
<1>14. ASSUME NEW w \in Workers, Ready(w) PROVE CloserHasTicket'
  BY <1>14 DEF Ready
<1>15. ASSUME NEW w \in Workers, NEW c \in Chans, CollectExpired(w, c) PROVE CloserHasTicket'
  BY <1>15 DEF CollectExpired, Take, WorkerAt
<1>16. ASSUME NEW w \in Workers, NEW c \in Chans, NextExpired(w, c) PROVE CloserHasTicket'
  BY <1>16 DEF NextExpired, Take, WorkerAt
<1>17. ASSUME NEW w \in Workers, CloseExpired(w) PROVE CloserHasTicket'
  BY <1>17 DEF CloseExpired, Record, RecordFails, WorkerAt
<1>18. ASSUME NEW w \in Workers, PopTimer(w) PROVE CloserHasTicket'
  BY <1>18 DEF PopTimer, AfterPop, WorkerAt
<1>19. CASE StatusPass
  BY <1>19 DEF StatusPass
<1>20. CASE Restart
  BY <1>20 DEF Restart
<1>21. CASE UNCHANGED vars
  BY <1>21 DEF vars
<1>22. QED
  BY <1>1, <1>2, <1>3, <1>4, <1>5, <1>6, <1>7, <1>8, <1>9, <1>10, <1>11, <1>12,
     <1>13, <1>14, <1>15, <1>16, <1>17, <1>18, <1>19, <1>20, <1>21 DEF Next, TimerPass, Command

\* The step a close takes: the row, if it was still open, is closed.
LEMMA RecordStep ==
  ASSUME TypeOK, NEW c \in Chans, c \in channels \cup closed,
         closed' \in {closed, closed \cup {c}}, UNCHANGED channels
  PROVE  [Promise!Next]_(Promise!vars)
<1>1. CASE c \in closed
  <2>1. UNCHANGED <<channels, closed>>
    BY <1>1
  <2>2. QED
    BY <2>1 DEF Promise!vars
<1>2. CASE c \notin closed /\ closed' = closed
  BY <1>2 DEF Promise!vars
<1>3. CASE c \notin closed /\ closed' = closed \cup {c}
  <2>1. (channels \cup closed)' = channels \cup closed
    BY <1>3
  <2>2. Promise!Close(c)
    BY <1>3, <2>1 DEF Promise!Close
  <2>3. QED
    BY <2>2 DEF Promise!Next
<1>4. QED
  BY <1>1, <1>2, <1>3

\* Every step is one of the ticket, or leaves it alone.
LEMMA TicketStep ==
  ASSUME TypeOK, HasChannel, CloserHasTicket, [Next]_vars
  PROVE  [Promise!Next]_(Promise!vars)
<1> USE DEF discord
<1>a. ASSUME UNCHANGED <<channels, closed>> PROVE [Promise!Next]_(Promise!vars)
  BY <1>a DEF Promise!vars
<1>1. ASSUME NEW c \in Chans, NewTicket(c) PROVE [Promise!Next]_(Promise!vars)
  <2>1. Promise!Open(c)
    BY <1>1 DEF NewTicket, Promise!Open
  <2>2. QED
    BY <2>1 DEF Promise!Next
<1>2. ASSUME NEW c \in Chans, StaffReply(c) \/ UserReply(c) \/ UserReplyEnds(c)
      PROVE  [Promise!Next]_(Promise!vars)
  BY <1>2, <1>a DEF StaffReply, UserReply, UserReplyEnds
<1>3. ASSUME NEW c \in Chans, Inactive(c) \/ MarkNSFW(c) PROVE [Promise!Next]_(Promise!vars)
  BY <1>3, <1>a DEF Inactive, MarkNSFW
<1>4. ASSUME NEW c \in Chans, NEW s, SetStatus(c, s) PROVE [Promise!Next]_(Promise!vars)
  BY <1>4, <1>a DEF SetStatus
<1>5. ASSUME NEW m \in Mods, NEW c \in Chans, Active(m, c) \/ Close(m, c)
      PROVE  [Promise!Next]_(Promise!vars)
  BY <1>5, <1>a DEF Active, Close
<1>6. ASSUME NEW m \in Mods, ActiveSet(m) PROVE [Promise!Next]_(Promise!vars)
  BY <1>6, <1>a DEF ActiveSet
<1>7. ASSUME NEW m \in Mods, CloseSet(m) PROVE [Promise!Next]_(Promise!vars)
  <2>1. at[m] \in Chans /\ at[m] \in channels \cup closed
    BY <1>7 DEF CloseSet, HasChannel, CloserHasTicket
  <2>2. closed' \in {closed, closed \cup {at[m]}} /\ UNCHANGED channels
    BY <1>7 DEF CloseSet, Record, RecordFails
  <2>3. QED
    BY <2>1, <2>2, RecordStep
<1>8. ASSUME NEW c \in Chans, ChannelDeleted(c) PROVE [Promise!Next]_(Promise!vars)
  <2>1. Promise!Delete(c)
    BY <1>8 DEF ChannelDeleted, Promise!Delete
  <2>2. QED
    BY <2>1 DEF Promise!Next
<1>9. ASSUME NEW c \in Chans, Expire(c) PROVE [Promise!Next]_(Promise!vars)
  BY <1>9, <1>a DEF Expire
<1>10. ASSUME NEW w \in Workers, Ready(w) \/ PopTimer(w) PROVE [Promise!Next]_(Promise!vars)
  BY <1>10, <1>a DEF Ready, PopTimer
<1>11. ASSUME NEW w \in Workers, NEW c \in Chans, CollectExpired(w, c) \/ NextExpired(w, c)
       PROVE  [Promise!Next]_(Promise!vars)
  BY <1>11, <1>a DEF CollectExpired, NextExpired
<1>12. ASSUME NEW w \in Workers, CloseExpired(w) PROVE [Promise!Next]_(Promise!vars)
  <2>1. cur[w] \in Chans /\ cur[w] \in channels \cup closed
    BY <1>12 DEF CloseExpired, HasChannel, CloserHasTicket
  <2>2. closed' \in {closed, closed \cup {cur[w]}} /\ UNCHANGED channels
    BY <1>12 DEF CloseExpired, Record, RecordFails
  <2>3. QED
    BY <2>1, <2>2, RecordStep
<1>13. CASE StatusPass \/ Restart \/ UNCHANGED vars
  BY <1>13, <1>a DEF StatusPass, Restart, vars
<1>14. QED
  BY <1>1, <1>2, <1>3, <1>4, <1>5, <1>6, <1>7, <1>8, <1>9, <1>10, <1>11, <1>12, <1>13
     DEF Next, TimerPass, Command

\* Seen from the statuses and timers, too, a ticket is opened once, closed once and
\* loses its channel only then, however many commands and workers close it.
THEOREM TimersImplementTicket == Spec => TicketSpec
<1>1. Init => Promise!Init /\ CloserHasTicket
  BY DEF Init, Promise!Init, CloserHasTicket
<1>2. TypeOK /\ HasChannel /\ TimerInv /\ CloserHasTicket /\ [Next]_vars => CloserHasTicket'
  BY StepCloser
<1>3. TypeOK /\ HasChannel /\ TimerInv /\ CloserHasTicket /\ [Next]_vars
      => [Promise!Next]_(Promise!vars)
  BY TicketStep
<1>4. QED
  BY <1>1, <1>2, <1>3, TimersInvariant, PTL DEF Spec, TicketSpec, Promise!Spec
=============================================================================
