----------------------- MODULE TicketLifecycle_proofs -----------------------
(***************************************************************************)
(* Proofs about the tickets of a user, for any sets of servers, forms,     *)
(* messages and closes and any number of restarts.                         *)
(***************************************************************************)
EXTENDS TicketLifecycle, TLAPS

-----------------------------------------------------------------------------
(* The inductive invariant                                                 *)

\* A form that was not submitted, or has not come to its INSERT, has no row; one
\* that is shown was not submitted.
NotInserted ==
  \A f \in Forms :
    /\ f \notin opening => rows[f] = "none"
    /\ pc[f] = "form" => f \notin opening
    /\ pc[f] \in {"creating", "inserting"} => f \in opening /\ rows[f] = "none"

\* Unless a close overtook the INSERT, the channel is there for it.
HasChannel == \A f \in Forms \ early : pc[f] = "inserting" => f \in channels

\* What a reader has still to write to the hash was recorded.
LeftIsRecorded == \A t \in Readers : \A f \in left[t] : rows[f] # "none"

\* A close is for a ticket until it ends.
CloseHasTicket ==
  \A k \in Closes :
    pc[k] \in {"updating", "uncaching", "unlinking", "deleting"} => at[k] \in Forms

\* Past its UPDATE, the ticket is closed, or the close came before the row.
ClosedFirst ==
  \A k \in Closes :
    pc[k] \in {"uncaching", "unlinking", "deleting"} =>
      at[k] \in early \/ rows[at[k]] = "closed"

\* The bot deletes the channel of a ticket only when its row is closed; the
\* one exception is a close that overtook the INSERT.
DeletedIsClosed ==
  \A f \in Forms \ early : rows[f] = "open" => f \in channels

\* What the stores and the tasks say of each other, types apart.
RecordInv ==
  /\ CachedIsRecorded
  /\ DeletedIsClosed
  /\ NotInserted
  /\ HasChannel
  /\ LeftIsRecorded
  /\ ClosedFirst

LifecycleInv == TypeOK /\ CloseHasTicket /\ RecordInv

-----------------------------------------------------------------------------
(* Type correctness                                                        *)

\* A lookup leads a reader to one of the places readers go to.
LEMMA VerdictType == \A t, S : Verdict(t, S) \in ReaderPCs
BY DEF Verdict, ReaderPCs

LEMMA OpenType == OpenRows \subseteq Forms
BY DEF OpenRows

LEMMA StepType ==
  ASSUME TypeOK, CloseHasTicket, [Next]_vars
  PROVE  TypeOK' /\ CloseHasTicket'
<1> USE TicketLifecycleAssumption, VerdictType, OpenType
    DEF TypeOK, CloseHasTicket, Goto, Forget, Leave, Tasks, Readers, ReaderPCs, ClosePCs,
        redis, readers, closes, history
<1>1. ASSUME NEW t \in Readers, Lookup(t) PROVE TypeOK' /\ CloseHasTicket'
  BY <1>1 DEF Lookup
<1>2. ASSUME NEW t \in Readers, LoadRows(t) PROVE TypeOK' /\ CloseHasTicket'
  BY <1>2 DEF LoadRows
<1>3. ASSUME NEW t \in Readers, NEW f \in Forms, Fill(t, f) PROVE TypeOK' /\ CloseHasTicket'
  BY <1>3 DEF Fill, SetField
<1>4. ASSUME NEW t \in Readers, SetExpiry(t) PROVE TypeOK' /\ CloseHasTicket'
  BY <1>4 DEF SetExpiry, ExpirySet
<1>5. ASSUME NEW t \in Readers, ReadFails(t) PROVE TypeOK' /\ CloseHasTicket'
  BY <1>5 DEF ReadFails, SetField
<1>6. ASSUME NEW f \in Forms, Submit(f) PROVE TypeOK' /\ CloseHasTicket'
  BY <1>6 DEF Submit
<1>7. ASSUME NEW f \in Forms, CreateChannel(f) PROVE TypeOK' /\ CloseHasTicket'
  BY <1>7 DEF CreateChannel
<1>8. ASSUME NEW f \in Forms, CreateFails(f) PROVE TypeOK' /\ CloseHasTicket'
  BY <1>8 DEF CreateFails
<1>9. ASSUME NEW f \in Forms, InsertRow(f) PROVE TypeOK' /\ CloseHasTicket'
  BY <1>9 DEF InsertRow
<1>10. ASSUME NEW f \in Forms, InsertFails(f) PROVE TypeOK' /\ CloseHasTicket'
  BY <1>10 DEF InsertFails
<1>11. ASSUME NEW k \in Closes, UpdateRow(k) PROVE TypeOK' /\ CloseHasTicket'
  BY <1>11 DEF UpdateRow, Closed
<1>12. ASSUME NEW k \in Closes, Uncache(k) PROVE TypeOK' /\ CloseHasTicket'
  BY <1>12 DEF Uncache, DeleteField
<1>13. ASSUME NEW k \in Closes, Unlink(k) PROVE TypeOK' /\ CloseHasTicket'
  BY <1>13 DEF Unlink
<1>14. ASSUME NEW k \in Closes, CloseFails(k) PROVE TypeOK' /\ CloseHasTicket'
  BY <1>14 DEF CloseFails, DeleteField, Closed
<1>15. ASSUME NEW k \in Closes, DeleteChannel(k) PROVE TypeOK' /\ CloseHasTicket'
  BY <1>15 DEF DeleteChannel, Deletes
<1>16. ASSUME NEW k \in Closes, NEW f \in Forms, Close(k, f) PROVE TypeOK' /\ CloseHasTicket'
  BY <1>16 DEF Close
<1>17. CASE HashExpires
  BY <1>17 DEF HashExpires
<1>18. CASE Restart
  BY <1>18 DEF Restart
<1>19. CASE Terminated \/ UNCHANGED vars
  BY <1>19 DEF Terminated, vars
<1>20. QED
  BY <1>1, <1>2, <1>3, <1>4, <1>5, <1>6, <1>7, <1>8, <1>9, <1>10, <1>11, <1>12, <1>13,
     <1>14, <1>15, <1>16, <1>17, <1>18, <1>19 DEF Next, Read, Open, Proceed

-----------------------------------------------------------------------------
(* The properties                                                          *)

LEMMA StepRecord ==
  ASSUME TypeOK, CloseHasTicket, RecordInv, [Next]_vars
  PROVE  RecordInv'
<1> USE TicketLifecycleAssumption
    DEF TypeOK, RecordInv, CachedIsRecorded, DeletedIsClosed, NotInserted, HasChannel,
        LeftIsRecorded, CloseHasTicket, ClosedFirst,
        Goto, Forget, Leave, Tasks, Readers, redis, readers, closes, history
<1>1. ASSUME NEW t \in Readers, Lookup(t) PROVE RecordInv'
  BY <1>1 DEF Lookup, Verdict
<1>2. ASSUME NEW t \in Readers, LoadRows(t) PROVE RecordInv'
  BY <1>2 DEF LoadRows, Verdict, OpenRows
<1>3. ASSUME NEW t \in Readers, NEW f \in Forms, Fill(t, f) PROVE RecordInv'
  BY <1>3 DEF Fill, SetField
<1>4. ASSUME NEW t \in Readers, SetExpiry(t) PROVE RecordInv'
  BY <1>4 DEF SetExpiry, ExpirySet, Verdict
<1>5. ASSUME NEW t \in Readers, ReadFails(t) PROVE RecordInv'
  BY <1>5 DEF ReadFails, SetField
<1>6. ASSUME NEW f \in Forms, Submit(f) PROVE RecordInv'
  BY <1>6 DEF Submit
<1>7. ASSUME NEW f \in Forms, CreateChannel(f) PROVE RecordInv'
  BY <1>7 DEF CreateChannel
<1>8. ASSUME NEW f \in Forms, CreateFails(f) PROVE RecordInv'
  BY <1>8 DEF CreateFails
<1>9. ASSUME NEW f \in Forms, InsertRow(f) PROVE RecordInv'
  BY <1>9 DEF InsertRow
<1>10. ASSUME NEW f \in Forms, InsertFails(f) PROVE RecordInv'
  BY <1>10 DEF InsertFails
<1>11. ASSUME NEW k \in Closes, UpdateRow(k) PROVE RecordInv'
  BY <1>11 DEF UpdateRow, Closed
<1>12. ASSUME NEW k \in Closes, Uncache(k) PROVE RecordInv'
  BY <1>12 DEF Uncache, DeleteField
<1>13. ASSUME NEW k \in Closes, Unlink(k) PROVE RecordInv'
  BY <1>13 DEF Unlink
<1>14. ASSUME NEW k \in Closes, CloseFails(k) PROVE RecordInv'
  BY <1>14 DEF CloseFails, DeleteField, Closed
<1>15. ASSUME NEW k \in Closes, DeleteChannel(k) PROVE RecordInv'
  BY <1>15 DEF DeleteChannel, Deletes
<1>16. ASSUME NEW k \in Closes, NEW f \in Forms, Close(k, f) PROVE RecordInv'
  BY <1>16 DEF Close
<1>17. CASE HashExpires
  BY <1>17 DEF HashExpires
<1>18. CASE Restart
  BY <1>18 DEF Restart
<1>19. CASE Terminated \/ UNCHANGED vars
  BY <1>19 DEF Terminated, vars
<1>20. QED
  BY <1>1, <1>2, <1>3, <1>4, <1>5, <1>6, <1>7, <1>8, <1>9, <1>10, <1>11, <1>12, <1>13,
     <1>14, <1>15, <1>16, <1>17, <1>18, <1>19 DEF Next, Read, Open, Proceed

\* The stores, the readers and the closes agree in every state of the model.
THEOREM LifecycleInvariant == Spec => []LifecycleInv
<1>1. Init => LifecycleInv
  <2>1. Init => TypeOK
    <3>1. Init => ttl \in BOOLEAN /\ cut \in BOOLEAN
      BY DEF Init
    <3>2. Init => /\ rows \in [Forms -> {"none", "open", "closed"}]
                  /\ cached \in [Guilds -> Forms \cup {None}]
                  /\ channels \subseteq Forms
                  /\ guild \in [Forms -> Guilds]
                  /\ opening \subseteq Forms
                  /\ restarts \in Nat
                  /\ early \subseteq Forms
                  /\ stuck \subseteq Forms
      BY DEF Init
    <3>3. Init => /\ pc \in [Tasks -> ReaderPCs \cup ClosePCs]
                  /\ read \in [Readers -> SUBSET Forms]
                  /\ left \in [Readers -> SUBSET Forms]
                  /\ at \in [Closes -> Forms \cup {None}]
                  /\ sent \subseteq Closes
      BY DEF Init, ReaderPCs
    <3>4. QED
      BY <3>1, <3>2, <3>3 DEF TypeOK
  <2>2. Init => CloseHasTicket /\ ClosedFirst /\ NotInserted /\ HasChannel
    BY DEF Init, CloseHasTicket, ClosedFirst, NotInserted, HasChannel, Tasks, Readers
  <2>3. Init => CachedIsRecorded /\ DeletedIsClosed /\ LeftIsRecorded
    BY DEF Init, CachedIsRecorded, DeletedIsClosed, LeftIsRecorded
  <2>4. QED
    BY <2>1, <2>2, <2>3 DEF LifecycleInv, RecordInv
<1>2. LifecycleInv /\ [Next]_vars => LifecycleInv'
  BY StepType, StepRecord DEF LifecycleInv
<1>3. QED
  BY <1>1, <1>2, PTL DEF Spec

\* The rows, the hash, the channels and every task stay in their types; in
\* particular a close has a ticket until it ends.
THEOREM LifecycleTypes == Spec => []TypeOK
<1>1. LifecycleInv => TypeOK
  BY DEF LifecycleInv
<1>2. QED
  BY <1>1, LifecycleInvariant, PTL

\* However lookups, reloads, closes, expiry, failures and restarts interleave,
\* the hash names for a server only a recorded ticket of that server.
THEOREM HashNamesRecorded == Spec => []CachedIsRecorded
<1>1. LifecycleInv => CachedIsRecorded
  BY DEF LifecycleInv, RecordInv
<1>2. QED
  BY <1>1, LifecycleInvariant, PTL

\* close_ticket and delete_channel never take away the channel of a ticket that
\* stays open, unless the close overtook the INSERT of the ticket's row.
THEOREM OpenKeepsChannel == Spec => []DeletedIsClosed
<1>1. LifecycleInv => DeletedIsClosed
  BY DEF LifecycleInv, RecordInv
<1>2. QED
  BY <1>1, LifecycleInvariant, PTL

-----------------------------------------------------------------------------
(* The forms implement the ticket                                          *)

\* A ticket has no channel, and no close, before its channel is created.
NotCreated ==
  /\ \A f \in Forms : f \notin opening \/ pc[f] = "creating" => f \notin channels \cup early
  /\ \A k \in Closes : at[k] # None => at[k] \in opening /\ pc[at[k]] # "creating"

\* A close that finds no row finds the channel, or is not the first to find none.
Updating ==
  \A k \in Closes : pc[k] = "updating" /\ rows[at[k]] = "none" => at[k] \in channels \cup early

TicketInv == NotCreated /\ Updating

LEMMA StepTicket ==
  ASSUME LifecycleInv, TicketInv, [Next]_vars
  PROVE  TicketInv'
<1> USE TicketLifecycleAssumption
    DEF LifecycleInv, TypeOK, RecordInv, NotInserted, CloseHasTicket, ClosedFirst,
        TicketInv, NotCreated, Updating,
        Goto, Forget, Leave, Tasks, Readers, redis, readers, closes, history
<1>1. ASSUME NEW t \in Readers, Lookup(t) PROVE TicketInv'
  BY <1>1 DEF Lookup, Verdict
<1>2. ASSUME NEW t \in Readers, LoadRows(t) PROVE TicketInv'
  BY <1>2 DEF LoadRows, Verdict
<1>3. ASSUME NEW t \in Readers, NEW f \in Forms, Fill(t, f) PROVE TicketInv'
  BY <1>3 DEF Fill, SetField
<1>4. ASSUME NEW t \in Readers, SetExpiry(t) PROVE TicketInv'
  BY <1>4 DEF SetExpiry, ExpirySet, Verdict
<1>5. ASSUME NEW t \in Readers, ReadFails(t) PROVE TicketInv'
  BY <1>5 DEF ReadFails, SetField
<1>6. ASSUME NEW f \in Forms, Submit(f) PROVE TicketInv'
  BY <1>6 DEF Submit
<1>7. ASSUME NEW f \in Forms, CreateChannel(f) PROVE TicketInv'
  BY <1>7 DEF CreateChannel
<1>8. ASSUME NEW f \in Forms, CreateFails(f) PROVE TicketInv'
  BY <1>8 DEF CreateFails
<1>9. ASSUME NEW f \in Forms, InsertRow(f) PROVE TicketInv'
  BY <1>9 DEF InsertRow
<1>10. ASSUME NEW f \in Forms, InsertFails(f) PROVE TicketInv'
  BY <1>10 DEF InsertFails
<1>11. ASSUME NEW k \in Closes, UpdateRow(k) PROVE TicketInv'
  BY <1>11 DEF UpdateRow, Closed
<1>12. ASSUME NEW k \in Closes, Uncache(k) PROVE TicketInv'
  BY <1>12 DEF Uncache, DeleteField
<1>13. ASSUME NEW k \in Closes, Unlink(k) PROVE TicketInv'
  BY <1>13 DEF Unlink
<1>14. ASSUME NEW k \in Closes, CloseFails(k) PROVE TicketInv'
  BY <1>14 DEF CloseFails, DeleteField, Closed
<1>15. ASSUME NEW k \in Closes, DeleteChannel(k) PROVE TicketInv'
  BY <1>15 DEF DeleteChannel, Deletes
<1>16. ASSUME NEW k \in Closes, NEW f \in Forms, Close(k, f) PROVE TicketInv'
  BY <1>16 DEF Close
<1>17. CASE HashExpires
  BY <1>17 DEF HashExpires
<1>18. CASE Restart
  BY <1>18 DEF Restart
<1>19. CASE Terminated \/ UNCHANGED vars
  BY <1>19 DEF Terminated, vars
<1>20. QED
  BY <1>1, <1>2, <1>3, <1>4, <1>5, <1>6, <1>7, <1>8, <1>9, <1>10, <1>11, <1>12, <1>13,
     <1>14, <1>15, <1>16, <1>17, <1>18, <1>19 DEF Next, Read, Open, Proceed

\* What the steps do to the rows and channels is what a ticket may do.
LEMMA PromiseStep ==
  ASSUME LifecycleInv, TicketInv, [Next]_vars
  PROVE  [Promise!Next]_(Promise!vars)
<1> USE DEF LifecycleInv, TypeOK
<1>a. ASSUME UNCHANGED <<rows, channels, early>> PROVE [Promise!Next]_(Promise!vars)
  BY <1>a DEF Promise!vars
<1>b. ASSUME NEW f \in Forms, f \notin channels \cup early, rows[f] = "none",
             channels' = channels \cup {f}, UNCHANGED <<rows, early>>
      PROVE  [Promise!Next]_(Promise!vars)
  <2>1. Promise!Create(f)
    BY <1>b DEF Promise!Create
  <2>2. QED
    BY <2>1 DEF Promise!Next
<1>c. ASSUME NEW f \in Forms, f \in channels \cup early, rows[f] = "none",
             rows' = [rows EXCEPT ![f] = "open"], UNCHANGED <<channels, early>>
      PROVE  [Promise!Next]_(Promise!vars)
  <2>1. Promise!Insert(f)
    BY <1>c DEF Promise!Insert
  <2>2. QED
    BY <2>1 DEF Promise!Next
<1>d. ASSUME NEW f \in Forms, rows' = [rows EXCEPT ![f] = Closed(f)], UNCHANGED <<channels, early>>
      PROVE  [Promise!Next]_(Promise!vars)
  <2>1. CASE rows[f] = "open"
    <3>1. Promise!Close(f)
      BY <1>d, <2>1 DEF Promise!Close, Closed
    <3>2. QED
      BY <3>1 DEF Promise!Next
  <2>2. CASE rows[f] # "open"
    <3>1. rows' = rows
      BY <1>d, <2>2 DEF Closed
    <3>2. QED
      BY <1>a, <1>d, <3>1
  <2>3. QED
    BY <2>1, <2>2
<1>e. ASSUME NEW f \in Forms, f \in channels \cup early, rows[f] = "none",
             early' = early \cup {f}, UNCHANGED <<rows, channels>>
      PROVE  [Promise!Next]_(Promise!vars)
  <2>1. CASE f \in early
    BY <1>a, <1>e, <2>1
  <2>2. CASE f \notin early
    <3>1. Promise!Overtake(f)
      BY <1>e, <2>2 DEF Promise!Overtake
    <3>2. QED
      BY <3>1 DEF Promise!Next
  <2>3. QED
    BY <2>1, <2>2
<1>f. ASSUME NEW f \in Forms, f \in early \/ rows[f] = "closed",
             channels' = channels \ {f}, UNCHANGED <<rows, early>>
      PROVE  [Promise!Next]_(Promise!vars)
  <2>1. CASE f \in channels
    <3>1. Promise!Delete(f)
      BY <1>f, <2>1 DEF Promise!Delete
    <3>2. QED
      BY <3>1 DEF Promise!Next
  <2>2. CASE f \notin channels
    BY <1>a, <1>f, <2>2
  <2>3. QED
    BY <2>1, <2>2
<1>1. ASSUME NEW t \in Readers, Lookup(t) \/ Read(t) PROVE [Promise!Next]_(Promise!vars)
  BY <1>1, <1>a DEF Lookup, Read, LoadRows, Fill, SetExpiry, ReadFails, history
<1>2. ASSUME NEW f \in Forms, Submit(f) PROVE [Promise!Next]_(Promise!vars)
  BY <1>2, <1>a DEF Submit, history
<1>3. ASSUME NEW f \in Forms, Open(f) PROVE [Promise!Next]_(Promise!vars)
  <2>1. CASE CreateChannel(f)
    <3>1. f \notin channels \cup early /\ rows[f] = "none"
      BY <2>1 DEF CreateChannel, TicketInv, NotCreated, RecordInv, NotInserted
    <3>2. QED
      BY <2>1, <3>1, <1>b DEF CreateChannel, history
  <2>2. CASE CreateFails(f)
    BY <2>2, <1>a DEF CreateFails, history
  <2>3. CASE InsertRow(f) \/ InsertFails(f)
    <3>1. f \in channels \cup early /\ rows[f] = "none"
      BY <2>3 DEF InsertRow, InsertFails, RecordInv, NotInserted, HasChannel
    <3>2. QED
      BY <2>3, <3>1, <1>a, <1>c DEF InsertRow, InsertFails, history
  <2>4. QED
    BY <1>3, <2>1, <2>2, <2>3 DEF Open
<1>4. ASSUME NEW k \in Closes, NEW f \in Forms, Close(k, f) PROVE [Promise!Next]_(Promise!vars)
  BY <1>4, <1>a DEF Close, history
<1>5. ASSUME NEW k \in Closes, UpdateRow(k) PROVE [Promise!Next]_(Promise!vars)
  <2>1. at[k] \in Forms
    BY <1>5 DEF UpdateRow, CloseHasTicket
  <2>2. CASE rows[at[k]] = "none"
    <3>1. at[k] \in channels \cup early /\ rows' = rows
      BY <1>5, <2>1, <2>2 DEF UpdateRow, Closed, TicketInv, Updating
    <3>2. QED
      BY <1>5, <2>1, <2>2, <3>1, <1>e DEF UpdateRow
  <2>3. CASE rows[at[k]] # "none"
    BY <1>5, <2>1, <2>3, <1>d DEF UpdateRow
  <2>4. QED
    BY <2>2, <2>3
<1>6. ASSUME NEW k \in Closes, Uncache(k) \/ Unlink(k) PROVE [Promise!Next]_(Promise!vars)
  BY <1>6, <1>a DEF Uncache, Unlink, history
<1>7. ASSUME NEW k \in Closes, CloseFails(k) PROVE [Promise!Next]_(Promise!vars)
  <2>1. at[k] \in Forms
    BY <1>7 DEF CloseFails, CloseHasTicket
  <2>2. QED
    BY <1>7, <2>1, <1>a, <1>d DEF CloseFails
<1>8. ASSUME NEW k \in Closes, DeleteChannel(k) PROVE [Promise!Next]_(Promise!vars)
  <2>1. at[k] \in Forms /\ (at[k] \in early \/ rows[at[k]] = "closed")
    BY <1>8 DEF DeleteChannel, CloseHasTicket, RecordInv, ClosedFirst
  <2>2. QED
    BY <1>8, <2>1, <1>a, <1>f DEF DeleteChannel
<1>9. CASE HashExpires \/ Restart \/ Terminated \/ UNCHANGED vars
  BY <1>9, <1>a DEF HashExpires, Restart, Terminated, vars, history
<1>10. QED
  BY <1>1, <1>2, <1>3, <1>4, <1>5, <1>6, <1>7, <1>8, <1>9 DEF Next, Proceed

\* However opening, closing, failures and restarts interleave, each ticket gets one
\* channel and one row, a closed one is not opened again, and a channel goes only
\* after the close, or after one that came before the row.
THEOREM LifecycleImplementsTicket == Spec => TicketSpec
<1>1. Init => Promise!Init /\ TicketInv
  BY TicketLifecycleAssumption
     DEF Init, Promise!Init, TicketInv, NotCreated, Updating, Tasks, Readers
<1>2. LifecycleInv /\ TicketInv /\ [Next]_vars => TicketInv'
  BY StepTicket
<1>3. LifecycleInv /\ TicketInv /\ [Next]_vars => [Promise!Next]_(Promise!vars)
  BY PromiseStep
<1>4. QED
  BY <1>1, <1>2, <1>3, LifecycleInvariant, PTL DEF Spec, TicketSpec, Promise!Spec

-----------------------------------------------------------------------------
(* Who is to do what must happen                                           *)

\* A closed ticket that still has its channel has a close on its way to delete it.
Attended ==
  \A f \in channels \ stuck : rows[f] = "closed" =>
    \E k \in Closes : at[k] = f /\ pc[k] \in {"uncaching", "unlinking", "deleting"}

\* A hash without an expiry has a reader that is about to set it.
Expiring ==
  CachedTickets # {} /\ ~ttl /\ ~cut => \E t \in Readers : pc[t] = "expiring"

LEMMA StepAttended ==
  ASSUME LifecycleInv, Attended, [Next]_vars
  PROVE  Attended'
<1> USE TicketLifecycleAssumption
    DEF LifecycleInv, TypeOK, RecordInv, NotInserted, CloseHasTicket,
        Goto, Tasks, Readers, redis, readers, closes, history
<1> SUFFICES ASSUME NEW f \in (channels \ stuck)', rows'[f] = "closed"
             PROVE  \E k \in Closes :
                      at'[k] = f /\ pc'[k] \in {"uncaching", "unlinking", "deleting"}
  BY DEF Attended
<1> DEFINE Deletion == \E k \in Closes :
             at'[k] = f /\ pc'[k] \in {"uncaching", "unlinking", "deleting"}
<1>a. ASSUME f \in channels, f \notin stuck, rows[f] = "closed"
      PROVE  \E k \in Closes : at[k] = f /\ pc[k] \in {"uncaching", "unlinking", "deleting"}
  BY <1>a DEF Attended
<1>b. ASSUME rows'[f] = rows[f], f \in channels, stuck' = stuck, at' = at,
             \A k \in Closes : pc'[k] = pc[k]
      PROVE  Deletion
  BY <1>a, <1>b
<1>1. ASSUME NEW t \in Readers, Lookup(t) \/ LoadRows(t) PROVE Deletion
  BY <1>1, <1>b DEF Lookup, LoadRows
<1>2. ASSUME NEW t \in Readers, NEW g \in Forms, Fill(t, g) PROVE Deletion
  BY <1>2, <1>b DEF Fill
<1>3. ASSUME NEW t \in Readers, SetExpiry(t) PROVE Deletion
  BY <1>3, <1>b DEF SetExpiry
<1>4. ASSUME NEW t \in Readers, ReadFails(t) PROVE Deletion
  BY <1>4, <1>b DEF ReadFails
<1>5. ASSUME NEW g \in Forms, Submit(g) \/ CreateFails(g) PROVE Deletion
  BY <1>5, <1>b DEF Submit, CreateFails
<1>6. ASSUME NEW g \in Forms, CreateChannel(g) PROVE Deletion
  BY <1>6, <1>b DEF CreateChannel
<1>7. ASSUME NEW g \in Forms, InsertRow(g) \/ InsertFails(g) PROVE Deletion
  BY <1>7, <1>b DEF InsertRow, InsertFails
<1>8. ASSUME NEW k \in Closes, NEW g \in Forms, Close(k, g) PROVE Deletion
  <2>1. f \in channels /\ f \notin stuck /\ rows[f] = "closed"
    BY <1>8 DEF Close
  <2>2. PICK j \in Closes : at[j] = f /\ pc[j] \in {"uncaching", "unlinking", "deleting"}
    BY <1>a, <2>1
  <2>3. at'[j] = f /\ pc'[j] = pc[j]
    BY <1>8, <2>2 DEF Close
  <2>4. QED
    BY <2>2, <2>3
<1>9. ASSUME NEW k \in Closes, UpdateRow(k) PROVE Deletion
  <2>1. CASE at[k] = f
    <3>1. at'[k] = f /\ pc'[k] = "uncaching"
      BY <1>9, <2>1 DEF UpdateRow
    <3>2. QED
      BY <3>1
  <2>2. CASE at[k] # f
    <3>1. f \in channels /\ f \notin stuck /\ rows[f] = "closed"
      BY <1>9, <2>2 DEF UpdateRow
    <3>2. PICK j \in Closes : at[j] = f /\ pc[j] \in {"uncaching", "unlinking", "deleting"}
      BY <1>a, <3>1
    <3>3. at'[j] = f /\ pc'[j] = pc[j]
      BY <1>9, <3>2 DEF UpdateRow
    <3>4. QED
      BY <3>2, <3>3
  <2>3. QED
    BY <2>1, <2>2
<1>10. ASSUME NEW k \in Closes, Uncache(k) \/ Unlink(k) PROVE Deletion
  <2>1. PICK j \in Closes : at[j] = f /\ pc[j] \in {"uncaching", "unlinking", "deleting"}
    BY <1>10, <1>a DEF Uncache, Unlink
  <2>2. at'[j] = f /\ pc'[j] \in {"uncaching", "unlinking", "deleting"}
    BY <1>10, <2>1 DEF Uncache, Unlink
  <2>3. QED
    BY <2>2
<1>11. ASSUME NEW k \in Closes, CloseFails(k) PROVE Deletion
  <2>1. at[k] # f /\ f \in channels /\ f \notin stuck
    BY <1>11 DEF CloseFails
  <2>2. rows[f] = "closed"
    BY <1>11, <2>1 DEF CloseFails
  <2>3. PICK j \in Closes : at[j] = f /\ pc[j] \in {"uncaching", "unlinking", "deleting"}
    BY <1>a, <2>1, <2>2
  <2>4. at'[j] = f /\ pc'[j] = pc[j]
    BY <1>11, <2>1, <2>3 DEF CloseFails, Leave
  <2>5. QED
    BY <2>3, <2>4
<1>12. ASSUME NEW k \in Closes, DeleteChannel(k) PROVE Deletion
  <2>1. at[k] # f /\ f \in channels /\ f \notin stuck /\ rows[f] = "closed"
    BY <1>12 DEF DeleteChannel
  <2>2. PICK j \in Closes : at[j] = f /\ pc[j] \in {"uncaching", "unlinking", "deleting"}
    BY <1>a, <2>1
  <2>3. at'[j] = f /\ pc'[j] = pc[j]
    BY <1>12, <2>1, <2>2 DEF DeleteChannel, Leave
  <2>4. QED
    BY <2>2, <2>3
<1>13. CASE HashExpires \/ Terminated \/ UNCHANGED vars
  BY <1>13, <1>b DEF HashExpires, Terminated, vars
<1>14. CASE Restart
  <2>1. f \in channels /\ f \notin stuck /\ rows[f] = "closed"
    BY <1>14 DEF Restart
  <2>2. \A k \in Closes : at[k] # f
    BY <1>14, <2>1 DEF Restart
  <2>3. QED
    BY <1>a, <2>1, <2>2
<1>15. QED
  BY <1>1, <1>2, <1>3, <1>4, <1>5, <1>6, <1>7, <1>8, <1>9, <1>10, <1>11, <1>12, <1>13,
     <1>14 DEF Next, Read, Open, Proceed

LEMMA StepExpiring ==
  ASSUME LifecycleInv, Expiring, [Next]_vars
  PROVE  Expiring'
<1> USE TicketLifecycleAssumption
    DEF LifecycleInv, TypeOK, Goto, Tasks, Readers, redis, readers, closes, history
<1> SUFFICES ASSUME CachedTickets' # {}, ~ttl', ~cut'
             PROVE  \E t \in Readers : pc'[t] = "expiring"
  BY DEF Expiring
<1> DEFINE Setter == \E t \in Readers : pc'[t] = "expiring"
<1>a. ASSUME CachedTickets # {}, ~ttl, ~cut
      PROVE  \E t \in Readers : pc[t] = "expiring"
  BY <1>a DEF Expiring
<1>b. ASSUME UNCHANGED redis PROVE CachedTickets # {} /\ ~ttl
  BY <1>b DEF CachedTickets
<1>c. ASSUME CachedTickets # {}, ~ttl, ~cut,
             \A t \in Readers : pc[t] = "expiring" => pc'[t] = "expiring"
      PROVE  Setter
  BY <1>a, <1>c
<1>1. ASSUME NEW t \in Readers, Lookup(t) \/ LoadRows(t) PROVE Setter
  <2>1. CachedTickets # {} /\ ~ttl /\ ~cut
    BY <1>1, <1>b DEF Lookup, LoadRows
  <2>2. \A r \in Readers : pc[r] = "expiring" => pc'[r] = "expiring"
    BY <1>1 DEF Lookup, LoadRows
  <2>3. QED
    BY <1>c, <2>1, <2>2
<1>2. ASSUME NEW t \in Readers, NEW f \in Forms, Fill(t, f) PROVE Setter
  BY <1>2 DEF Fill
<1>3. ASSUME NEW t \in Readers, SetExpiry(t) PROVE Setter
  <2>1. CachedTickets' = CachedTickets
    BY <1>3 DEF SetExpiry, CachedTickets
  <2>2. QED
    BY <1>3, <2>1 DEF SetExpiry, ExpirySet
<1>4. ASSUME NEW t \in Readers, ReadFails(t) PROVE Setter
  <2>1. UNCHANGED redis /\ ~cut /\ pc[t] # "expiring"
    BY <1>4 DEF ReadFails
  <2>2. CachedTickets # {} /\ ~ttl
    BY <1>b, <2>1
  <2>3. \A r \in Readers : pc[r] = "expiring" => pc'[r] = "expiring"
    BY <1>4, <2>1 DEF ReadFails
  <2>4. QED
    BY <1>c, <2>1, <2>2, <2>3
<1>5. ASSUME NEW f \in Forms, Submit(f) \/ Open(f) PROVE Setter
  <2>1. CachedTickets # {} /\ ~ttl /\ ~cut
    BY <1>5, <1>b DEF Submit, Open, CreateChannel, CreateFails, InsertRow, InsertFails
  <2>2. \A r \in Readers : pc[r] = "expiring" => pc'[r] = "expiring"
    BY <1>5 DEF Submit, Open, CreateChannel, CreateFails, InsertRow, InsertFails
  <2>3. QED
    BY <1>c, <2>1, <2>2
<1>6. ASSUME NEW k \in Closes, NEW f \in Forms, Close(k, f) PROVE Setter
  <2>1. CachedTickets # {} /\ ~ttl /\ ~cut
    BY <1>6, <1>b DEF Close
  <2>2. \A r \in Readers : pc[r] = "expiring" => pc'[r] = "expiring"
    BY <1>6 DEF Close
  <2>3. QED
    BY <1>c, <2>1, <2>2
<1>7. ASSUME NEW k \in Closes, Proceed(k) PROVE Setter
  <2>1. ~cut
    BY <1>7 DEF Proceed, UpdateRow, Uncache, Unlink, CloseFails, DeleteChannel
  <2>2. UNCHANGED redis \/ \E g \in Guilds \cup {guild[at[k]]} : DeleteField(g)
    BY <1>7 DEF Proceed, UpdateRow, Uncache, Unlink, CloseFails, DeleteChannel
  <2>3. ASSUME NEW g, DeleteField(g) PROVE CachedTickets # {} /\ ~ttl
    <3>1. PICK h \in Guilds : cached'[h] # None
      BY DEF CachedTickets
    <3>2. cached[h] # None
      BY <2>3, <3>1 DEF DeleteField
    <3>3. CachedTickets # {}
      BY <3>2 DEF CachedTickets
    <3>4. QED
      BY <2>3, <3>1, <3>3 DEF DeleteField
  <2>4. CachedTickets # {} /\ ~ttl
    BY <1>b, <2>2, <2>3
  <2>5. \A r \in Readers : pc[r] = "expiring" => pc'[r] = "expiring"
    BY <1>7 DEF Proceed, UpdateRow, Uncache, Unlink, CloseFails, DeleteChannel
  <2>6. QED
    BY <1>c, <2>1, <2>4, <2>5
<1>8. CASE HashExpires
  BY <1>8 DEF HashExpires, CachedTickets
<1>9. CASE Restart
  <2>1. ~cut /\ \A t \in Readers : pc[t] # "expiring"
    BY <1>9 DEF Restart
  <2>2. CachedTickets # {} /\ ~ttl
    BY <1>9, <1>b DEF Restart
  <2>3. QED
    BY <1>a, <2>1, <2>2
<1>10. CASE Terminated \/ UNCHANGED vars
  <2>1. UNCHANGED vars
    BY <1>10 DEF Terminated
  <2>2. CachedTickets # {} /\ ~ttl
    BY <1>b, <2>1 DEF vars
  <2>3. QED
    BY <1>c, <2>1, <2>2 DEF vars
<1>11. QED
  BY <1>1, <1>2, <1>3, <1>4, <1>5, <1>6, <1>7, <1>8, <1>9, <1>10 DEF Next, Read

\* The safety half of ClosedChannelGoes: as long as the channel of a closed ticket is
\* there, a close of it has still to come to delete_channel, unless one failed.
THEOREM ClosedIsAttended == Spec => []Attended
<1>1. Init => Attended
  BY DEF Init, Attended
<1>2. LifecycleInv /\ Attended /\ [Next]_vars => Attended'
  BY StepAttended
<1>3. QED
  BY <1>1, <1>2, LifecycleInvariant, PTL DEF Spec

\* The safety half of StaleEntryGoes: however many readers fill the hash while closes
\* empty it, either it has an expiry, or one of them will set it, or a failure cut
\* that reader off.
THEOREM HashExpiresOrWill == Spec => []Expiring
<1>1. Init => Expiring
  BY DEF Init, Expiring, CachedTickets
<1>2. LifecycleInv /\ Expiring /\ [Next]_vars => Expiring'
  BY StepExpiring
<1>3. QED
  BY <1>1, <1>2, LifecycleInvariant, PTL DEF Spec
=============================================================================
