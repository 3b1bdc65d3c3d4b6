---------------------------- MODULE Relay_proofs ----------------------------
(***************************************************************************)
(* Proofs about the messages of a ticket, for any number of messages,      *)
(* commands, events, failing calls and restarts: a reply with a link is    *)
(* whole, the log is complete, the channel and the DM agree when all is    *)
(* quiet, and the log of a comment follows its text.                       *)
(***************************************************************************)
EXTENDS Relay, TLAPS

\* A command or an event that is under way is about a message of its kind, and a
\* command that has found its reply comes after the routing of it.
Targeted ==
  /\ \A x \in Commands : pc[x] \in {"find", "dm", "log", "ticket", "bare"} => target[x] \in Replies
  /\ \A x \in Commands : pc[x] \in {"dm", "log", "ticket", "bare"} => pc[target[x]] = "ended"
  /\ \A x \in Events : pc[x] \in {"find", "log"} => target[x] \in Comments

\* A reply is linked by the last step of its routing, recorded by the one before;
\* only then commands change it.  A snip's own message is deleted elsewhere.
Routed ==
  \A r \in Replies :
    /\ r \in linked => pc[r] = "ended"
    /\ pc[r] = "link" => r \in counted /\ ticket[r] # "none"
    /\ dm[r] \notin {"none", "first"} => pc[r] = "ended"
    /\ pc[r] = "erase" => r \notin snips
    /\ pc[r] = "idle" => r \notin erased

\* The text of an edit in the DM comes from an edit of that reply which has come
\* to the log, and so does a deletion.
Edited ==
  \A r \in Replies :
    /\ dm[r] \in Edits => target[dm[r]] = r /\ pc[dm[r]] \notin {"idle", "find", "dm"}
    /\ dm[r] = "gone" => \E x \in Deletes : target[x] = r /\ pc[x] \notin {"idle", "find", "dm"}
                                              /\ Logs(x, "gone", r)

\* A task that was not begun is about nothing; an edit without an embed has
\* failed to find the thread.
Aimless ==
  /\ \A x \in Commands \cup Events : pc[x] = "idle" => target[x] = None
  /\ \A x \in Commands : pc[x] = "bare" => x \in hurt

\* No call about the reply has failed, and no edit has overtaken another.
Clean(r) == r \notin crossed \cup hurt /\ \A x \in Commands : target[x] = r => x \notin hurt

\* x has changed the DM of r and not yet its receipt.
Between(x, r) == target[x] = r /\ pc[x] \in {"log", "ticket", "bare"}

\* How far the receipt of a reply is behind its DM, or ahead of it.
Track(r) ==
  /\ pc[r] \in {"idle", "check", "erase", "receipt"} => ticket[r] = "none" /\ dm[r] = "none"
  /\ pc[r] = "deliver" => ticket[r] = "first" /\ dm[r] = "none"
  /\ pc[r] \in {"log", "record", "link"} => ticket[r] = "first" /\ dm[r] = "first"
  /\ pc[r] = "ended" =>
       /\ dm[r] = "gone" => ticket[r] = "gone" \/ \E x \in Deletes : Between(x, r)
       /\ dm[r] # "gone" =>
            /\ ticket[r] # "gone"
            /\ ticket[r] = dm[r] \/ (dm[r] \in Edits /\ Between(dm[r], r))
            /\ \A e \in Edits : Between(e, r) => dm[r] = e
            /\ \A x \in Deletes : ~Between(x, r)

Tracked == \A r \in Replies : Clean(r) => Track(r)

\* No call about the comment has failed, and its log was linked at every change.
CleanComment(c) == c \notin missed \cup hurt /\ \A x \in Events : target[x] = c => x \notin hurt

\* An event of the set S about c is still to change the log.
Pending(S, c) == \E x \in S : target[x] = c /\ pc[x] \in {"find", "log"}

\* A deletion that the log has to show.
Lost(c) == ticket[c] = "gone" /\ said[c] \notin Plus

\* What the log of a clean comment lacks, an event that is under way will bring.
Follow(c) ==
  /\ pc[c] \in {"record", "log"} /\ Lost(c) => Pending(Removals, c)
  /\ pc[c] = "log" => draft[c] = said[c] \/ Pending(Changes, c)
  /\ pc[c] \in {"link", "ended"} =>
       /\ Lost(c) => log[c] = {"gone"} \/ Pending(Removals, c)
       /\ ~Lost(c) =>
            \/ log[c] = {said[c]}
            \/ Pending(Changes, c) /\ \E v \in Versions \ {"gone"} : log[c] = {v}
       /\ "gone" \in log[c] => log[c] = {"gone"} /\ Lost(c)

\* The text of a comment, until its log is there.
Commented ==
  /\ \A c \in Comments :
       /\ said[c] # "gone" /\ draft[c] # "gone"
       /\ c \notin missed => ticket[c] \in {said[c], "gone"}
       /\ pc[c] \in {"idle", "record", "log"} => log[c] = {}
       /\ c \in linked => pc[c] = "ended"
       /\ pc[c] = "idle" => ticket[c] = "none" /\ said[c] = "none"
  /\ \A x \in Events : pc[x] = "log" => pc[target[x]] = "ended"
  /\ \A x \in Removals : pc[x] \in {"find", "log"} => Lost(target[x])

Followed == \A c \in Comments : CleanComment(c) => Follow(c)

IInv ==
  /\ TypeOK /\ Targeted /\ Routed /\ Edited /\ LinkedIsWhole /\ LogComplete
  /\ Aimless /\ Tracked /\ Commented /\ Followed

-----------------------------------------------------------------------------
(* What the actions with several endings do, whichever ending it is.        *)

\* x ends, perhaps with a failed call, its author perhaps told.
Ends(x) ==
  /\ pc' = [pc EXCEPT ![x] = "ended"]
  /\ hurt' = hurt \/ hurt' = hurt \cup {x}
  /\ told' = told \/ told' = told \cup {x}

\* x goes on to l.
Goes(x, l) ==
  /\ pc' = [pc EXCEPT ![x] = l]
  /\ hurt' = hurt \/ hurt' = hurt \cup {x}
  /\ told' = told \/ told' = told \cup {x}

LEMMA EndsTellingEnds ==
  ASSUME NEW x, NEW where, NEW fine \in BOOLEAN, EndsTelling(x, where, fine)
  PROVE  Ends(x)
<1>1. PICK ok \in Outcomes(where) :
         /\ Proceeds(x, "ended", fine /\ ok)
         /\ told' = IF ok THEN told \cup {x} ELSE told
  BY DEF EndsTelling
<1>2. QED
  BY <1>1 DEF Ends, Proceeds, Goto

LEMMA FailsEnds ==
  ASSUME NEW r, Fails(r)
  PROVE  Ends(r)
<1>1. CASE EndsTelling(r, "ticket", FALSE)
  BY <1>1, EndsTellingEnds
<1>2. CASE Proceeds(r, "ended", FALSE) /\ UNCHANGED told
  BY <1>2 DEF Ends, Proceeds, Goto
<1>3. QED
  BY <1>1, <1>2 DEF Fails

LEMMA CheckReplyGoes ==
  ASSUME NEW r, CheckReply(r)
  PROVE  /\ pc[r] \in {"check", "receipt"}
         /\ \/ Goes(r, AfterCheck(r)) /\ pc[r] = "check"
            \/ Ends(r)
         /\ UNCHANGED <<target, copies, texts, records, erased, faults>>
<1>1. CASE pc[r] = "check" /\ Goto(r, AfterCheck(r)) /\ UNCHANGED <<told, hurt>>
  BY <1>1 DEF CheckReply, Goes, Goto
<1>2. CASE pc[r] \in {"check", "receipt"} /\ EndsTelling(r, "ticket", TRUE)
  BY <1>2, EndsTellingEnds DEF CheckReply
<1>3. CASE pc[r] \in {"check", "receipt"} /\ Fails(r)
  BY <1>3, FailsEnds DEF CheckReply
<1>4. QED
  BY <1>1, <1>2, <1>3 DEF CheckReply

LEMMA RecordReplyGoes ==
  ASSUME NEW r, RecordReply(r)
  PROVE  /\ pc[r] = "record"
         /\ \/ Goes(r, "link") /\ counted' = counted \cup {r} /\ ticket[r] # "none"
            \/ Ends(r) /\ UNCHANGED counted
         /\ UNCHANGED <<target, copies, texts, linked, closed, restarts, erased, faults>>
<1>1. CASE Fails(r) /\ UNCHANGED counted
  BY <1>1, FailsEnds DEF RecordReply
<1>2. CASE Goto(r, "link") /\ counted' = counted \cup {r} /\ ticket[r] # "none" /\ UNCHANGED <<told, hurt>>
  BY <1>2 DEF RecordReply, Goes, Goto
<1>3. QED
  BY <1>1, <1>2 DEF RecordReply

LEMMA LinkReplyGoes ==
  ASSUME NEW r, LinkReply(r)
  PROVE  /\ pc[r] = "link"
         /\ Ends(r)
         /\ linked' = linked \/ (linked' = linked \cup {r} /\ HasCopies(r))
         /\ UNCHANGED <<target, copies, texts, counted, closed, restarts, erased, faults>>
<1>1. CASE Fails(r) /\ UNCHANGED linked
  BY <1>1, FailsEnds DEF LinkReply
<1>2. CASE HasCopies(r) /\ Goto(r, "ended") /\ linked' = linked \cup {r} /\ UNCHANGED <<told, hurt>>
  BY <1>2 DEF LinkReply, Ends, Goto
<1>3. QED
  BY <1>1, <1>2 DEF LinkReply

LEMMA CheckTextGoes ==
  ASSUME NEW t, CheckText(t)
  PROVE  /\ pc[t] = "check"
         /\ Goes(t, "receipt") \/ Ends(t)
         /\ UNCHANGED <<target, copies, texts, records, erased, faults>>
<1>1. CASE Goto(t, "receipt") /\ UNCHANGED <<told, hurt>>
  BY <1>1 DEF CheckText, Goes, Goto
<1>2. CASE EndsTelling(t, "dm", TRUE)
  BY <1>2, EndsTellingEnds DEF CheckText
<1>3. QED
  BY <1>1, <1>2 DEF CheckText

LEMMA RecordTextGoes ==
  ASSUME NEW t, RecordText(t)
  PROVE  /\ pc[t] = "record"
         /\ Ends(t)
         /\ counted' = counted \/ counted' = counted \cup {t}
         /\ UNCHANGED <<target, copies, texts, linked, closed, restarts, erased, faults>>
<1>1. CASE EndsTelling(t, "dm", FALSE) /\ UNCHANGED counted
  BY <1>1, EndsTellingEnds DEF RecordText
<1>2. CASE Goto(t, "ended") /\ counted' = counted \cup {t} /\ UNCHANGED <<told, hurt>>
  BY <1>2 DEF RecordText, Ends, Goto
<1>3. QED
  BY <1>1, <1>2 DEF RecordText

LEMMA FindGoes ==
  ASSUME NEW x, Find(x)
  PROVE  /\ pc[x] = "find"
         /\ (Goes(x, "dm") /\ Found(target[x])) \/ Ends(x)
         /\ UNCHANGED <<target, copies, texts, records, erased, faults>>
<1>1. CASE Found(target[x]) /\ Goto(x, "dm") /\ UNCHANGED <<told, hurt>>
  BY <1>1 DEF Find, Goes, Goto
<1>2. CASE EndsTelling(x, "ticket", TRUE)
  BY <1>2, EndsTellingEnds DEF Find
<1>3. CASE EndsTelling(x, "ticket", FALSE)
  BY <1>3, EndsTellingEnds DEF Find
<1>4. QED
  BY <1>1, <1>2, <1>3 DEF Find

LEMMA ChangeLogGoes ==
  ASSUME NEW x, ChangeLog(x)
  PROVE  /\ pc[x] = "log"
         /\ Goes(x, "ticket") \/ (Goes(x, "bare") /\ x \in hurt') \/ (Ends(x) /\ x \in hurt')
         /\ \/ /\ log' = [log EXCEPT ![target[x]] = @ \cup {Changed(x, "first")}]
               /\ unlogged' = unlogged
            \/ /\ log' = [log EXCEPT ![target[x]] = @]
               /\ unlogged' = unlogged \cup {x}
            \/ /\ log' = log
               /\ unlogged' = unlogged \cup {x}
         /\ UNCHANGED <<target, ticket, dm, texts, records, erased, missed, crossed>>
<1>1. CASE \E ok \in Outcomes("log") :
             /\ Proceeds(x, AfterLog(x), ok)
             /\ log' = [log EXCEPT ![target[x]] = IF ok THEN @ \cup {Changed(x, "first")} ELSE @]
             /\ unlogged' = IF ok THEN unlogged ELSE unlogged \cup {x}
             /\ UNCHANGED told
  <2>1. PICK ok \in Outcomes("log") :
             /\ Proceeds(x, AfterLog(x), ok)
             /\ log' = [log EXCEPT ![target[x]] = IF ok THEN @ \cup {Changed(x, "first")} ELSE @]
             /\ unlogged' = IF ok THEN unlogged ELSE unlogged \cup {x}
             /\ UNCHANGED told
    BY <1>1
  <2>2. Goes(x, "ticket")
    BY <2>1 DEF Goes, Proceeds, Goto, AfterLog
  <2>3. CASE ok
    BY <2>1, <2>2, <2>3 DEF ChangeLog
  <2>4. CASE ~ok
    BY <2>1, <2>2, <2>4 DEF ChangeLog
  <2>5. QED
    BY <2>3, <2>4
<1>2. CASE NoThread(x) /\ unlogged' = unlogged \cup {x} /\ UNCHANGED log
  <2>1. PICK ok \in Outcomes("ticket") :
             /\ told' = IF ok THEN told \cup {x} ELSE told
             /\ Proceeds(x, IF x \in Edits THEN "bare" ELSE "ticket", FALSE)
    BY <1>2 DEF NoThread
  <2>2. (Goes(x, "ticket") \/ Goes(x, "bare")) /\ x \in hurt'
    BY <2>1 DEF Goes, Proceeds, Goto
  <2>3. QED
    BY <1>2, <2>2 DEF ChangeLog
<1>3. CASE NoLogMessage(x) /\ unlogged' = unlogged \cup {x} /\ UNCHANGED log
  <2>1. x \in hurt'
    BY <1>3 DEF NoLogMessage, EndsTelling, Proceeds
  <2>2. QED
    BY <1>3, <2>1, EndsTellingEnds DEF ChangeLog, NoLogMessage
<1>4. QED
  BY <1>1, <1>2, <1>3 DEF ChangeLog
-----------------------------------------------------------------------------
LEMMA StepType ==
  ASSUME IInv, [Next]_vars
  PROVE  TypeOK'
<1> USE RelayAssumption DEF IInv, TypeOK, Messages, Commands, Events, Tasks, Words, Versions, Labels,
    copies, texts, records, answers, faults, Goto, Proceeds, Outcomes, Targeted, Routed
<1>1. ASSUME NEW r \in Replies, Reply(r) PROVE TypeOK'
  BY <1>1 DEF Reply
<1>2. ASSUME NEW r \in Replies, Snip(r) PROVE TypeOK'
  BY <1>2 DEF Snip
<1>3. ASSUME NEW r \in Replies, CheckReply(r) PROVE TypeOK'
  BY <1>3, CheckReplyGoes DEF Ends, Goes, AfterCheck
<1>4. ASSUME NEW r \in Replies, Erase(r) PROVE TypeOK'
  BY <1>4 DEF Erase
<1>5. ASSUME NEW r \in Replies, Receipt(r) PROVE TypeOK'
  BY <1>5 DEF Receipt
<1>6. ASSUME NEW r \in Replies, Deliver(r) PROVE TypeOK'
  BY <1>6 DEF Deliver
<1>7. ASSUME NEW m \in Replies \cup Texts, LogNew(m, "first", "record") PROVE TypeOK'
  BY <1>7 DEF LogNew
<1>8. ASSUME NEW r \in Replies, RecordReply(r) PROVE TypeOK'
  BY <1>8, RecordReplyGoes DEF Ends, Goes
<1>9. ASSUME NEW r \in Replies, LinkReply(r) PROVE TypeOK'
  BY <1>9, LinkReplyGoes DEF Ends, HasCopies
<1>10. ASSUME NEW t \in Texts, Text(t) PROVE TypeOK'
  BY <1>10 DEF Text
<1>11. ASSUME NEW t \in Texts, CheckText(t) PROVE TypeOK'
  BY <1>11, CheckTextGoes DEF Ends, Goes
<1>12. ASSUME NEW t \in Texts, ReceiptText(t) PROVE TypeOK'
  BY <1>12 DEF ReceiptText, AfterReceipt
<1>13. ASSUME NEW t \in Texts, DeliverText(t) PROVE TypeOK'
  BY <1>13 DEF DeliverText
<1>14. ASSUME NEW t \in Texts, RecordText(t) PROVE TypeOK'
  BY <1>14, RecordTextGoes DEF Ends
<1>15. ASSUME NEW c \in Comments, Comment(c) PROVE TypeOK'
  BY <1>15 DEF Comment
<1>16. ASSUME NEW c \in Comments, ReadComment(c) PROVE TypeOK'
  BY <1>16 DEF ReadComment
<1>17. ASSUME NEW c \in Comments, LogComment(c) PROVE TypeOK'
  BY <1>17 DEF LogComment, LogNew
<1>18. ASSUME NEW c \in Comments, LinkComment(c) PROVE TypeOK'
  BY <1>18 DEF LinkComment
<1>19. ASSUME NEW x \in Commands, NEW r \in Replies, Command(x, r) PROVE TypeOK'
  BY <1>19 DEF Command
<1>20. ASSUME NEW x \in Commands, Find(x) PROVE TypeOK'
  BY <1>20, FindGoes DEF Ends, Goes, Found
<1>21. ASSUME NEW x \in Commands, ChangeDM(x) PROVE TypeOK'
  BY <1>21 DEF ChangeDM, AfterDM, Changed
<1>22. ASSUME NEW x \in Commands, ChangeLog(x) PROVE TypeOK'
  BY <1>22, ChangeLogGoes DEF Ends, Goes, Changed
<1>23. ASSUME NEW x \in Commands, ChangeTicket(x) PROVE TypeOK'
  BY <1>23 DEF ChangeTicket, Shown, Changed
<1>24. ASSUME NEW x \in Events, NEW c \in Comments, Event(x, c) PROVE TypeOK'
  BY <1>24 DEF Event
<1>25. ASSUME NEW x \in Events, FindLog(x) PROVE TypeOK'
  BY <1>25 DEF FindLog
<1>26. ASSUME NEW x \in Events, ChangeCommentLog(x) PROVE TypeOK'
  BY <1>26 DEF ChangeCommentLog, TextOf
<1>27. CASE ClearLinks
  BY <1>27 DEF ClearLinks
<1>28. CASE Restart
  BY <1>28 DEF Restart, Running
<1>29. CASE UNCHANGED vars
  BY <1>29 DEF vars
<1>30. ASSUME NEW c \in Comments, Evict(c) PROVE TypeOK'
  BY <1>30 DEF Evict
<1>31. QED
  BY <1>1, <1>2, <1>3, <1>4, <1>5, <1>6, <1>7, <1>8, <1>9, <1>10, <1>11, <1>12, <1>13, <1>14, <1>15, <1>16, <1>17, <1>18, <1>19, <1>20, <1>21, <1>22, <1>23, <1>24, <1>25, <1>26, <1>27, <1>28, <1>29, <1>30
     DEF Next, RouteToDM, RouteToServer, StoreComment, ChangeReply, ChangeComment

LEMMA StepTargeted ==
  ASSUME IInv, [Next]_vars
  PROVE  Targeted'
<1> USE RelayAssumption DEF IInv, TypeOK, Messages, Commands, Events, Tasks, Words, Versions, Labels,
    copies, texts, records, answers, faults, Goto, Proceeds, Outcomes, Targeted, Routed
<1>1. ASSUME NEW r \in Replies, Reply(r) PROVE Targeted'
  BY <1>1 DEF Reply
<1>2. ASSUME NEW r \in Replies, Snip(r) PROVE Targeted'
  BY <1>2 DEF Snip
<1>3. ASSUME NEW r \in Replies, CheckReply(r) PROVE Targeted'
  BY <1>3, CheckReplyGoes DEF Ends, Goes, AfterCheck
<1>4. ASSUME NEW r \in Replies, Erase(r) PROVE Targeted'
  BY <1>4 DEF Erase
<1>5. ASSUME NEW r \in Replies, Receipt(r) PROVE Targeted'
  BY <1>5 DEF Receipt
<1>6. ASSUME NEW r \in Replies, Deliver(r) PROVE Targeted'
  BY <1>6 DEF Deliver
<1>7. ASSUME NEW m \in Replies \cup Texts, LogNew(m, "first", "record") PROVE Targeted'
  BY <1>7 DEF LogNew
<1>8. ASSUME NEW r \in Replies, RecordReply(r) PROVE Targeted'
  BY <1>8, RecordReplyGoes DEF Ends, Goes
<1>9. ASSUME NEW r \in Replies, LinkReply(r) PROVE Targeted'
  BY <1>9, LinkReplyGoes DEF Ends, HasCopies
<1>10. ASSUME NEW t \in Texts, Text(t) PROVE Targeted'
  BY <1>10 DEF Text
<1>11. ASSUME NEW t \in Texts, CheckText(t) PROVE Targeted'
  BY <1>11, CheckTextGoes DEF Ends, Goes
<1>12. ASSUME NEW t \in Texts, ReceiptText(t) PROVE Targeted'
  BY <1>12 DEF ReceiptText, AfterReceipt
<1>13. ASSUME NEW t \in Texts, DeliverText(t) PROVE Targeted'
  BY <1>13 DEF DeliverText
<1>14. ASSUME NEW t \in Texts, RecordText(t) PROVE Targeted'
  BY <1>14, RecordTextGoes DEF Ends
<1>15. ASSUME NEW c \in Comments, Comment(c) PROVE Targeted'
  BY <1>15 DEF Comment
<1>16. ASSUME NEW c \in Comments, ReadComment(c) PROVE Targeted'
  BY <1>16 DEF ReadComment
<1>17. ASSUME NEW c \in Comments, LogComment(c) PROVE Targeted'
  BY <1>17 DEF LogComment, LogNew
<1>18. ASSUME NEW c \in Comments, LinkComment(c) PROVE Targeted'
  BY <1>18 DEF LinkComment
<1>19. ASSUME NEW x \in Commands, NEW r \in Replies, Command(x, r) PROVE Targeted'
  BY <1>19 DEF Command
<1>20. ASSUME NEW x \in Commands, Find(x) PROVE Targeted'
  BY <1>20, FindGoes DEF Ends, Goes, Found
<1>21. ASSUME NEW x \in Commands, ChangeDM(x) PROVE Targeted'
  BY <1>21 DEF ChangeDM, AfterDM, Changed
<1>22. ASSUME NEW x \in Commands, ChangeLog(x) PROVE Targeted'
  BY <1>22, ChangeLogGoes DEF Ends, Goes, Changed
<1>23. ASSUME NEW x \in Commands, ChangeTicket(x) PROVE Targeted'
  BY <1>23 DEF ChangeTicket, Shown, Changed
<1>24. ASSUME NEW x \in Events, NEW c \in Comments, Event(x, c) PROVE Targeted'
  BY <1>24 DEF Event
<1>25. ASSUME NEW x \in Events, FindLog(x) PROVE Targeted'
  BY <1>25 DEF FindLog
<1>26. ASSUME NEW x \in Events, ChangeCommentLog(x) PROVE Targeted'
  BY <1>26 DEF ChangeCommentLog, TextOf
<1>27. CASE ClearLinks
  BY <1>27 DEF ClearLinks
<1>28. CASE Restart
  BY <1>28 DEF Restart, Running
<1>29. CASE UNCHANGED vars
  BY <1>29 DEF vars
<1>30. ASSUME NEW c \in Comments, Evict(c) PROVE Targeted'
  BY <1>30 DEF Evict
<1>31. QED
  BY <1>1, <1>2, <1>3, <1>4, <1>5, <1>6, <1>7, <1>8, <1>9, <1>10, <1>11, <1>12, <1>13, <1>14, <1>15, <1>16, <1>17, <1>18, <1>19, <1>20, <1>21, <1>22, <1>23, <1>24, <1>25, <1>26, <1>27, <1>28, <1>29, <1>30
     DEF Next, RouteToDM, RouteToServer, StoreComment, ChangeReply, ChangeComment

LEMMA StepRouted ==
  ASSUME IInv, [Next]_vars
  PROVE  Routed'
<1> USE RelayAssumption DEF IInv, TypeOK, Messages, Commands, Events, Tasks, Words, Versions, Labels,
    copies, texts, records, answers, faults, Goto, Proceeds, Outcomes, Targeted, Routed
<1>1. ASSUME NEW r \in Replies, Reply(r) PROVE Routed'
  BY <1>1 DEF Reply
<1>2. ASSUME NEW r \in Replies, Snip(r) PROVE Routed'
  BY <1>2 DEF Snip
<1>3. ASSUME NEW r \in Replies, CheckReply(r) PROVE Routed'
  BY <1>3, CheckReplyGoes DEF Ends, Goes, AfterCheck
<1>4. ASSUME NEW r \in Replies, Erase(r) PROVE Routed'
  BY <1>4 DEF Erase
<1>5. ASSUME NEW r \in Replies, Receipt(r) PROVE Routed'
  BY <1>5 DEF Receipt
<1>6. ASSUME NEW r \in Replies, Deliver(r) PROVE Routed'
  BY <1>6 DEF Deliver
<1>7. ASSUME NEW m \in Replies \cup Texts, LogNew(m, "first", "record") PROVE Routed'
  BY <1>7 DEF LogNew
<1>8. ASSUME NEW r \in Replies, RecordReply(r) PROVE Routed'
  BY <1>8, RecordReplyGoes DEF Ends, Goes
<1>9. ASSUME NEW r \in Replies, LinkReply(r) PROVE Routed'
  BY <1>9, LinkReplyGoes DEF Ends, HasCopies
<1>10. ASSUME NEW t \in Texts, Text(t) PROVE Routed'
  BY <1>10 DEF Text
<1>11. ASSUME NEW t \in Texts, CheckText(t) PROVE Routed'
  BY <1>11, CheckTextGoes DEF Ends, Goes
<1>12. ASSUME NEW t \in Texts, ReceiptText(t) PROVE Routed'
  BY <1>12 DEF ReceiptText, AfterReceipt
<1>13. ASSUME NEW t \in Texts, DeliverText(t) PROVE Routed'
  BY <1>13 DEF DeliverText
<1>14. ASSUME NEW t \in Texts, RecordText(t) PROVE Routed'
  BY <1>14, RecordTextGoes DEF Ends
<1>15. ASSUME NEW c \in Comments, Comment(c) PROVE Routed'
  BY <1>15 DEF Comment
<1>16. ASSUME NEW c \in Comments, ReadComment(c) PROVE Routed'
  BY <1>16 DEF ReadComment
<1>17. ASSUME NEW c \in Comments, LogComment(c) PROVE Routed'
  BY <1>17 DEF LogComment, LogNew
<1>18. ASSUME NEW c \in Comments, LinkComment(c) PROVE Routed'
  BY <1>18 DEF LinkComment
<1>19. ASSUME NEW x \in Commands, NEW r \in Replies, Command(x, r) PROVE Routed'
  BY <1>19 DEF Command
<1>20. ASSUME NEW x \in Commands, Find(x) PROVE Routed'
  BY <1>20, FindGoes DEF Ends, Goes, Found
<1>21. ASSUME NEW x \in Commands, ChangeDM(x) PROVE Routed'
  BY <1>21 DEF ChangeDM, AfterDM, Changed
<1>22. ASSUME NEW x \in Commands, ChangeLog(x) PROVE Routed'
  BY <1>22, ChangeLogGoes DEF Ends, Goes, Changed
<1>23. ASSUME NEW x \in Commands, ChangeTicket(x) PROVE Routed'
  BY <1>23 DEF ChangeTicket, Shown, Changed
<1>24. ASSUME NEW x \in Events, NEW c \in Comments, Event(x, c) PROVE Routed'
  BY <1>24 DEF Event
<1>25. ASSUME NEW x \in Events, FindLog(x) PROVE Routed'
  BY <1>25 DEF FindLog
<1>26. ASSUME NEW x \in Events, ChangeCommentLog(x) PROVE Routed'
  BY <1>26 DEF ChangeCommentLog, TextOf
<1>27. CASE ClearLinks
  BY <1>27 DEF ClearLinks
<1>28. CASE Restart
  BY <1>28 DEF Restart, Running
<1>29. CASE UNCHANGED vars
  BY <1>29 DEF vars
<1>30. ASSUME NEW c \in Comments, Evict(c) PROVE Routed'
  BY <1>30 DEF Evict
<1>31. QED
  BY <1>1, <1>2, <1>3, <1>4, <1>5, <1>6, <1>7, <1>8, <1>9, <1>10, <1>11, <1>12, <1>13, <1>14, <1>15, <1>16, <1>17, <1>18, <1>19, <1>20, <1>21, <1>22, <1>23, <1>24, <1>25, <1>26, <1>27, <1>28, <1>29, <1>30
     DEF Next, RouteToDM, RouteToServer, StoreComment, ChangeReply, ChangeComment

LEMMA StepWhole ==
  ASSUME IInv, [Next]_vars
  PROVE  LinkedIsWhole'
<1> USE RelayAssumption DEF IInv, TypeOK, Messages, Commands, Events, Tasks, Words, Versions, Labels,
    copies, texts, records, answers, faults, Goto, Proceeds, Outcomes, Routed, Targeted, LinkedIsWhole
<1>1. ASSUME NEW r \in Replies, Reply(r) PROVE LinkedIsWhole'
  BY <1>1 DEF Reply
<1>2. ASSUME NEW r \in Replies, Snip(r) PROVE LinkedIsWhole'
  BY <1>2 DEF Snip
<1>3. ASSUME NEW r \in Replies, CheckReply(r) PROVE LinkedIsWhole'
  BY <1>3, CheckReplyGoes DEF Ends, Goes, AfterCheck
<1>4. ASSUME NEW r \in Replies, Erase(r) PROVE LinkedIsWhole'
  BY <1>4 DEF Erase
<1>5. ASSUME NEW r \in Replies, Receipt(r) PROVE LinkedIsWhole'
  BY <1>5 DEF Receipt
<1>6. ASSUME NEW r \in Replies, Deliver(r) PROVE LinkedIsWhole'
  BY <1>6 DEF Deliver
<1>7. ASSUME NEW m \in Replies \cup Texts, LogNew(m, "first", "record") PROVE LinkedIsWhole'
  BY <1>7 DEF LogNew
<1>8. ASSUME NEW r \in Replies, RecordReply(r) PROVE LinkedIsWhole'
  BY <1>8, RecordReplyGoes DEF Ends, Goes
<1>9. ASSUME NEW r \in Replies, LinkReply(r) PROVE LinkedIsWhole'
  BY <1>9, LinkReplyGoes DEF Ends, HasCopies
<1>10. ASSUME NEW t \in Texts, Text(t) PROVE LinkedIsWhole'
  BY <1>10 DEF Text
<1>11. ASSUME NEW t \in Texts, CheckText(t) PROVE LinkedIsWhole'
  BY <1>11, CheckTextGoes DEF Ends, Goes
<1>12. ASSUME NEW t \in Texts, ReceiptText(t) PROVE LinkedIsWhole'
  BY <1>12 DEF ReceiptText, AfterReceipt
<1>13. ASSUME NEW t \in Texts, DeliverText(t) PROVE LinkedIsWhole'
  BY <1>13 DEF DeliverText
<1>14. ASSUME NEW t \in Texts, RecordText(t) PROVE LinkedIsWhole'
  BY <1>14, RecordTextGoes DEF Ends
<1>15. ASSUME NEW c \in Comments, Comment(c) PROVE LinkedIsWhole'
  BY <1>15 DEF Comment
<1>16. ASSUME NEW c \in Comments, ReadComment(c) PROVE LinkedIsWhole'
  BY <1>16 DEF ReadComment
<1>17. ASSUME NEW c \in Comments, LogComment(c) PROVE LinkedIsWhole'
  BY <1>17 DEF LogComment, LogNew
<1>18. ASSUME NEW c \in Comments, LinkComment(c) PROVE LinkedIsWhole'
  BY <1>18 DEF LinkComment
<1>19. ASSUME NEW x \in Commands, NEW r \in Replies, Command(x, r) PROVE LinkedIsWhole'
  BY <1>19 DEF Command
<1>20. ASSUME NEW x \in Commands, Find(x) PROVE LinkedIsWhole'
  BY <1>20, FindGoes DEF Ends, Goes, Found
<1>21. ASSUME NEW x \in Commands, ChangeDM(x) PROVE LinkedIsWhole'
  BY <1>21 DEF ChangeDM, AfterDM, Changed
<1>22. ASSUME NEW x \in Commands, ChangeLog(x) PROVE LinkedIsWhole'
  BY <1>22, ChangeLogGoes DEF Ends, Goes, Changed
<1>23. ASSUME NEW x \in Commands, ChangeTicket(x) PROVE LinkedIsWhole'
  BY <1>23 DEF ChangeTicket, Shown, Changed
<1>24. ASSUME NEW x \in Events, NEW c \in Comments, Event(x, c) PROVE LinkedIsWhole'
  BY <1>24 DEF Event
<1>25. ASSUME NEW x \in Events, FindLog(x) PROVE LinkedIsWhole'
  BY <1>25 DEF FindLog
<1>26. ASSUME NEW x \in Events, ChangeCommentLog(x) PROVE LinkedIsWhole'
  BY <1>26 DEF ChangeCommentLog, TextOf
<1>27. CASE ClearLinks
  BY <1>27 DEF ClearLinks
<1>28. CASE Restart
  BY <1>28 DEF Restart, Running
<1>29. CASE UNCHANGED vars
  BY <1>29 DEF vars
<1>30. ASSUME NEW c \in Comments, Evict(c) PROVE LinkedIsWhole'
  BY <1>30 DEF Evict
<1>31. QED
  BY <1>1, <1>2, <1>3, <1>4, <1>5, <1>6, <1>7, <1>8, <1>9, <1>10, <1>11, <1>12, <1>13, <1>14, <1>15, <1>16, <1>17, <1>18, <1>19, <1>20, <1>21, <1>22, <1>23, <1>24, <1>25, <1>26, <1>27, <1>28, <1>29, <1>30
     DEF Next, RouteToDM, RouteToServer, StoreComment, ChangeReply, ChangeComment

LEMMA StepEdited ==
  ASSUME IInv, [Next]_vars
  PROVE  Edited'
<1> USE RelayAssumption DEF IInv, TypeOK, Messages, Commands, Events, Tasks, Words, Versions, Labels,
    copies, texts, records, answers, faults, Goto, Proceeds, Outcomes, Targeted, Routed, Edited, Logs
<1>1. ASSUME NEW r \in Replies, Reply(r) PROVE Edited'
  BY <1>1 DEF Reply
<1>2. ASSUME NEW r \in Replies, Snip(r) PROVE Edited'
  BY <1>2 DEF Snip
<1>3. ASSUME NEW r \in Replies, CheckReply(r) PROVE Edited'
  BY <1>3, CheckReplyGoes DEF Ends, Goes, AfterCheck
<1>4. ASSUME NEW r \in Replies, Erase(r) PROVE Edited'
  BY <1>4 DEF Erase
<1>5. ASSUME NEW r \in Replies, Receipt(r) PROVE Edited'
  BY <1>5 DEF Receipt
<1>6. ASSUME NEW r \in Replies, Deliver(r) PROVE Edited'
  BY <1>6 DEF Deliver
<1>7. ASSUME NEW m \in Replies \cup Texts, LogNew(m, "first", "record") PROVE Edited'
  BY <1>7 DEF LogNew
<1>8. ASSUME NEW r \in Replies, RecordReply(r) PROVE Edited'
  BY <1>8, RecordReplyGoes DEF Ends, Goes
<1>9. ASSUME NEW r \in Replies, LinkReply(r) PROVE Edited'
  BY <1>9, LinkReplyGoes DEF Ends, HasCopies
<1>10. ASSUME NEW t \in Texts, Text(t) PROVE Edited'
  BY <1>10 DEF Text
<1>11. ASSUME NEW t \in Texts, CheckText(t) PROVE Edited'
  BY <1>11, CheckTextGoes DEF Ends, Goes
<1>12. ASSUME NEW t \in Texts, ReceiptText(t) PROVE Edited'
  BY <1>12 DEF ReceiptText, AfterReceipt
<1>13. ASSUME NEW t \in Texts, DeliverText(t) PROVE Edited'
  BY <1>13 DEF DeliverText
<1>14. ASSUME NEW t \in Texts, RecordText(t) PROVE Edited'
  BY <1>14, RecordTextGoes DEF Ends
<1>15. ASSUME NEW c \in Comments, Comment(c) PROVE Edited'
  BY <1>15 DEF Comment
<1>16. ASSUME NEW c \in Comments, ReadComment(c) PROVE Edited'
  BY <1>16 DEF ReadComment
<1>17. ASSUME NEW c \in Comments, LogComment(c) PROVE Edited'
  BY <1>17 DEF LogComment, LogNew
<1>18. ASSUME NEW c \in Comments, LinkComment(c) PROVE Edited'
  BY <1>18 DEF LinkComment
<1>19. ASSUME NEW x \in Commands, NEW r \in Replies, Command(x, r) PROVE Edited'
  BY <1>19 DEF Command
<1>20. ASSUME NEW x \in Commands, Find(x) PROVE Edited'
  BY <1>20, FindGoes DEF Ends, Goes, Found
<1>21. ASSUME NEW x \in Commands, ChangeDM(x) PROVE Edited'
  BY <1>21 DEF ChangeDM, AfterDM, Changed
<1>22. ASSUME NEW x \in Commands, ChangeLog(x) PROVE Edited'
  BY <1>22, ChangeLogGoes DEF Ends, Goes, Changed
<1>23. ASSUME NEW x \in Commands, ChangeTicket(x) PROVE Edited'
  BY <1>23 DEF ChangeTicket, Shown, Changed
<1>24. ASSUME NEW x \in Events, NEW c \in Comments, Event(x, c) PROVE Edited'
  BY <1>24 DEF Event
<1>25. ASSUME NEW x \in Events, FindLog(x) PROVE Edited'
  BY <1>25 DEF FindLog
<1>26. ASSUME NEW x \in Events, ChangeCommentLog(x) PROVE Edited'
  BY <1>26 DEF ChangeCommentLog, TextOf
<1>27. CASE ClearLinks
  BY <1>27 DEF ClearLinks
<1>28. CASE Restart
  BY <1>28 DEF Restart, Running
<1>29. CASE UNCHANGED vars
  BY <1>29 DEF vars
<1>30. ASSUME NEW c \in Comments, Evict(c) PROVE Edited'
  BY <1>30 DEF Evict
<1>31. QED
  BY <1>1, <1>2, <1>3, <1>4, <1>5, <1>6, <1>7, <1>8, <1>9, <1>10, <1>11, <1>12, <1>13, <1>14, <1>15, <1>16, <1>17, <1>18, <1>19, <1>20, <1>21, <1>22, <1>23, <1>24, <1>25, <1>26, <1>27, <1>28, <1>29, <1>30
     DEF Next, RouteToDM, RouteToServer, StoreComment, ChangeReply, ChangeComment

LEMMA StepLog ==
  ASSUME IInv, [Next]_vars
  PROVE  LogComplete'
<1> USE RelayAssumption DEF IInv, TypeOK, Messages, Commands, Events, Tasks, Words, Versions, Labels,
    copies, texts, records, answers, faults, Goto, Proceeds, Outcomes, Targeted, Routed, Edited, Logs, LogComplete
<1>1. ASSUME NEW r \in Replies, Reply(r) PROVE LogComplete'
  BY <1>1 DEF Reply
<1>2. ASSUME NEW r \in Replies, Snip(r) PROVE LogComplete'
  BY <1>2 DEF Snip
<1>3. ASSUME NEW r \in Replies, CheckReply(r) PROVE LogComplete'
  BY <1>3, CheckReplyGoes DEF Ends, Goes, AfterCheck
<1>4. ASSUME NEW r \in Replies, Erase(r) PROVE LogComplete'
  BY <1>4 DEF Erase
<1>5. ASSUME NEW r \in Replies, Receipt(r) PROVE LogComplete'
  BY <1>5 DEF Receipt
<1>6. ASSUME NEW r \in Replies, Deliver(r) PROVE LogComplete'
  BY <1>6 DEF Deliver
<1>7. ASSUME NEW m \in Replies \cup Texts, LogNew(m, "first", "record") PROVE LogComplete'
  BY <1>7 DEF LogNew
<1>8. ASSUME NEW r \in Replies, RecordReply(r) PROVE LogComplete'
  BY <1>8, RecordReplyGoes DEF Ends, Goes
<1>9. ASSUME NEW r \in Replies, LinkReply(r) PROVE LogComplete'
  BY <1>9, LinkReplyGoes DEF Ends, HasCopies
<1>10. ASSUME NEW t \in Texts, Text(t) PROVE LogComplete'
  BY <1>10 DEF Text
<1>11. ASSUME NEW t \in Texts, CheckText(t) PROVE LogComplete'
  BY <1>11, CheckTextGoes DEF Ends, Goes
<1>12. ASSUME NEW t \in Texts, ReceiptText(t) PROVE LogComplete'
  BY <1>12 DEF ReceiptText, AfterReceipt
<1>13. ASSUME NEW t \in Texts, DeliverText(t) PROVE LogComplete'
  BY <1>13 DEF DeliverText
<1>14. ASSUME NEW t \in Texts, RecordText(t) PROVE LogComplete'
  BY <1>14, RecordTextGoes DEF Ends
<1>15. ASSUME NEW c \in Comments, Comment(c) PROVE LogComplete'
  BY <1>15 DEF Comment
<1>16. ASSUME NEW c \in Comments, ReadComment(c) PROVE LogComplete'
  BY <1>16 DEF ReadComment
<1>17. ASSUME NEW c \in Comments, LogComment(c) PROVE LogComplete'
  BY <1>17 DEF LogComment, LogNew
<1>18. ASSUME NEW c \in Comments, LinkComment(c) PROVE LogComplete'
  BY <1>18 DEF LinkComment
<1>19. ASSUME NEW x \in Commands, NEW r \in Replies, Command(x, r) PROVE LogComplete'
  BY <1>19 DEF Command
<1>20. ASSUME NEW x \in Commands, Find(x) PROVE LogComplete'
  BY <1>20, FindGoes DEF Ends, Goes, Found
<1>21. ASSUME NEW x \in Commands, ChangeDM(x) PROVE LogComplete'
  BY <1>21 DEF ChangeDM, AfterDM, Changed
<1>22. ASSUME NEW x \in Commands, ChangeLog(x) PROVE LogComplete'
  BY <1>22, ChangeLogGoes DEF Ends, Goes, Changed
<1>23. ASSUME NEW x \in Commands, ChangeTicket(x) PROVE LogComplete'
  BY <1>23 DEF ChangeTicket, Shown, Changed
<1>24. ASSUME NEW x \in Events, NEW c \in Comments, Event(x, c) PROVE LogComplete'
  BY <1>24 DEF Event
<1>25. ASSUME NEW x \in Events, FindLog(x) PROVE LogComplete'
  BY <1>25 DEF FindLog
<1>26. ASSUME NEW x \in Events, ChangeCommentLog(x) PROVE LogComplete'
  BY <1>26 DEF ChangeCommentLog, TextOf
<1>27. CASE ClearLinks
  BY <1>27 DEF ClearLinks
<1>28. CASE Restart
  BY <1>28 DEF Restart, Running
<1>29. CASE UNCHANGED vars
  BY <1>29 DEF vars
<1>30. ASSUME NEW c \in Comments, Evict(c) PROVE LogComplete'
  BY <1>30 DEF Evict
<1>31. QED
  BY <1>1, <1>2, <1>3, <1>4, <1>5, <1>6, <1>7, <1>8, <1>9, <1>10, <1>11, <1>12, <1>13, <1>14, <1>15, <1>16, <1>17, <1>18, <1>19, <1>20, <1>21, <1>22, <1>23, <1>24, <1>25, <1>26, <1>27, <1>28, <1>29, <1>30
     DEF Next, RouteToDM, RouteToServer, StoreComment, ChangeReply, ChangeComment

LEMMA StepAimless ==
  ASSUME IInv, [Next]_vars
  PROVE  Aimless'
<1> USE RelayAssumption DEF IInv, TypeOK, Messages, Commands, Events, Tasks, Words, Versions, Labels,
    copies, texts, records, answers, faults, Goto, Proceeds, Outcomes, Targeted, Aimless
<1>1. ASSUME NEW r \in Replies, Reply(r) PROVE Aimless'
  BY <1>1 DEF Reply
<1>2. ASSUME NEW r \in Replies, Snip(r) PROVE Aimless'
  BY <1>2 DEF Snip
<1>3. ASSUME NEW r \in Replies, CheckReply(r) PROVE Aimless'
  BY <1>3, CheckReplyGoes DEF Ends, Goes, AfterCheck
<1>4. ASSUME NEW r \in Replies, Erase(r) PROVE Aimless'
  BY <1>4 DEF Erase
<1>5. ASSUME NEW r \in Replies, Receipt(r) PROVE Aimless'
  BY <1>5 DEF Receipt
<1>6. ASSUME NEW r \in Replies, Deliver(r) PROVE Aimless'
  BY <1>6 DEF Deliver
<1>7. ASSUME NEW m \in Replies \cup Texts, LogNew(m, "first", "record") PROVE Aimless'
  BY <1>7 DEF LogNew
<1>8. ASSUME NEW r \in Replies, RecordReply(r) PROVE Aimless'
  BY <1>8, RecordReplyGoes DEF Ends, Goes
<1>9. ASSUME NEW r \in Replies, LinkReply(r) PROVE Aimless'
  BY <1>9, LinkReplyGoes DEF Ends, HasCopies
<1>10. ASSUME NEW t \in Texts, Text(t) PROVE Aimless'
  BY <1>10 DEF Text
<1>11. ASSUME NEW t \in Texts, CheckText(t) PROVE Aimless'
  BY <1>11, CheckTextGoes DEF Ends, Goes
<1>12. ASSUME NEW t \in Texts, ReceiptText(t) PROVE Aimless'
  BY <1>12 DEF ReceiptText, AfterReceipt
<1>13. ASSUME NEW t \in Texts, DeliverText(t) PROVE Aimless'
  BY <1>13 DEF DeliverText
<1>14. ASSUME NEW t \in Texts, RecordText(t) PROVE Aimless'
  BY <1>14, RecordTextGoes DEF Ends
<1>15. ASSUME NEW c \in Comments, Comment(c) PROVE Aimless'
  BY <1>15 DEF Comment
<1>16. ASSUME NEW c \in Comments, ReadComment(c) PROVE Aimless'
  BY <1>16 DEF ReadComment
<1>17. ASSUME NEW c \in Comments, LogComment(c) PROVE Aimless'
  BY <1>17 DEF LogComment, LogNew
<1>18. ASSUME NEW c \in Comments, LinkComment(c) PROVE Aimless'
  BY <1>18 DEF LinkComment
<1>19. ASSUME NEW x \in Commands, NEW r \in Replies, Command(x, r) PROVE Aimless'
  BY <1>19 DEF Command
<1>20. ASSUME NEW x \in Commands, Find(x) PROVE Aimless'
  BY <1>20, FindGoes DEF Ends, Goes, Found
<1>21. ASSUME NEW x \in Commands, ChangeDM(x) PROVE Aimless'
  BY <1>21 DEF ChangeDM, AfterDM, Changed
<1>22. ASSUME NEW x \in Commands, ChangeLog(x) PROVE Aimless'
  BY <1>22, ChangeLogGoes DEF Ends, Goes, Changed
<1>23. ASSUME NEW x \in Commands, ChangeTicket(x) PROVE Aimless'
  BY <1>23 DEF ChangeTicket, Shown, Changed
<1>24. ASSUME NEW x \in Events, NEW c \in Comments, Event(x, c) PROVE Aimless'
  BY <1>24 DEF Event
<1>25. ASSUME NEW x \in Events, FindLog(x) PROVE Aimless'
  BY <1>25 DEF FindLog
<1>26. ASSUME NEW x \in Events, ChangeCommentLog(x) PROVE Aimless'
  BY <1>26 DEF ChangeCommentLog, TextOf
<1>27. CASE ClearLinks
  BY <1>27 DEF ClearLinks
<1>28. CASE Restart
  BY <1>28 DEF Restart, Running
<1>29. CASE UNCHANGED vars
  BY <1>29 DEF vars
<1>30. ASSUME NEW c \in Comments, Evict(c) PROVE Aimless'
  BY <1>30 DEF Evict
<1>31. QED
  BY <1>1, <1>2, <1>3, <1>4, <1>5, <1>6, <1>7, <1>8, <1>9, <1>10, <1>11, <1>12, <1>13, <1>14, <1>15, <1>16, <1>17, <1>18, <1>19, <1>20, <1>21, <1>22, <1>23, <1>24, <1>25, <1>26, <1>27, <1>28, <1>29, <1>30
     DEF Next, RouteToDM, RouteToServer, StoreComment, ChangeReply, ChangeComment

\* A step about a text or a comment, which leaves all replies alone ...
NotReplies ==
  \/ \E t \in Texts : Text(t) \/ RouteToServer(t)
  \/ \E c \in Comments : Comment(c) \/ StoreComment(c) \/ Evict(c)
  \/ \E x \in Events : (\E c \in Comments : Event(x, c)) \/ ChangeComment(x)

RepliesKept ==
  /\ \A r \in Replies : pc'[r] = pc[r] /\ ticket'[r] = ticket[r] /\ dm'[r] = dm[r]
  /\ \A r \in Replies : r \in hurt' <=> r \in hurt
  /\ \A x \in Commands : pc'[x] = pc[x] /\ target'[x] = target[x]
  /\ \A x \in Commands : x \in hurt' <=> x \in hurt
  /\ crossed' = crossed

\* ... and one about a reply or a text, which leaves all comments alone.
NotComments ==
  \/ \E r \in Replies : Reply(r) \/ Snip(r) \/ RouteToDM(r)
  \/ \E t \in Texts : Text(t) \/ RouteToServer(t)
  \/ \E x \in Commands : (\E r \in Replies : Command(x, r)) \/ ChangeReply(x)

CommentsKept ==
  /\ \A c \in Comments : pc'[c] = pc[c] /\ ticket'[c] = ticket[c] /\ log'[c] = log[c]
  /\ \A c \in Comments : (c \in hurt' <=> c \in hurt) /\ (c \in linked' <=> c \in linked)
  /\ \A x \in Events : pc'[x] = pc[x] /\ target'[x] = target[x]
  /\ \A x \in Events : x \in hurt' <=> x \in hurt
  /\ said' = said /\ draft' = draft /\ missed' = missed

LEMMA OthersLeaveReplies ==
  ASSUME IInv, NotReplies
  PROVE  RepliesKept
<1> USE RelayAssumption DEF IInv, TypeOK, Messages, Commands, Events, Tasks, Words, Versions, Labels,
    copies, texts, records, answers, faults, Goto, Proceeds, Outcomes, Targeted, RepliesKept
<1>1. ASSUME NEW t \in Texts, Text(t) PROVE RepliesKept
  BY <1>1 DEF Text
<1>2. ASSUME NEW t \in Texts, CheckText(t) PROVE RepliesKept
  BY <1>2, CheckTextGoes DEF Ends, Goes
<1>3. ASSUME NEW t \in Texts, ReceiptText(t) PROVE RepliesKept
  BY <1>3 DEF ReceiptText, AfterReceipt
<1>4. ASSUME NEW t \in Texts, DeliverText(t) PROVE RepliesKept
  BY <1>4 DEF DeliverText
<1>5. ASSUME NEW t \in Texts, RecordText(t) PROVE RepliesKept
  BY <1>5, RecordTextGoes DEF Ends
<1>6. ASSUME NEW t \in Texts, LogNew(t, "first", "record") PROVE RepliesKept
  BY <1>6 DEF LogNew
<1>7. ASSUME NEW c \in Comments, Comment(c) PROVE RepliesKept
  BY <1>7 DEF Comment
<1>8. ASSUME NEW c \in Comments, ReadComment(c) PROVE RepliesKept
  BY <1>8 DEF ReadComment
<1>9. ASSUME NEW c \in Comments, LogComment(c) PROVE RepliesKept
  BY <1>9 DEF LogComment, LogNew
<1>10. ASSUME NEW c \in Comments, LinkComment(c) PROVE RepliesKept
  BY <1>10 DEF LinkComment
<1>11. ASSUME NEW x \in Events, NEW c \in Comments, Event(x, c) PROVE RepliesKept
  BY <1>11 DEF Event
<1>12. ASSUME NEW x \in Events, FindLog(x) PROVE RepliesKept
  BY <1>12 DEF FindLog
<1>13. ASSUME NEW x \in Events, ChangeCommentLog(x) PROVE RepliesKept
  BY <1>13 DEF ChangeCommentLog, TextOf
<1>14. ASSUME NEW c \in Comments, Evict(c) PROVE RepliesKept
  BY <1>14 DEF Evict
<1>15. QED
  BY <1>1, <1>2, <1>3, <1>4, <1>5, <1>6, <1>7, <1>8, <1>9, <1>10, <1>11, <1>12, <1>13, <1>14 DEF NotReplies, RouteToServer, StoreComment, ChangeComment, RouteToDM, ChangeReply

LEMMA OthersLeaveComments ==
  ASSUME IInv, NotComments
  PROVE  CommentsKept
<1> USE RelayAssumption DEF IInv, TypeOK, Messages, Commands, Events, Tasks, Words, Versions, Labels,
    copies, texts, records, answers, faults, Goto, Proceeds, Outcomes, Targeted, CommentsKept
<1>1. ASSUME NEW r \in Replies, Reply(r) PROVE CommentsKept
  BY <1>1 DEF Reply
<1>2. ASSUME NEW r \in Replies, Snip(r) PROVE CommentsKept
  BY <1>2 DEF Snip
<1>3. ASSUME NEW r \in Replies, CheckReply(r) PROVE CommentsKept
  BY <1>3, CheckReplyGoes DEF Ends, Goes, AfterCheck
<1>4. ASSUME NEW r \in Replies, Erase(r) PROVE CommentsKept
  BY <1>4 DEF Erase
<1>5. ASSUME NEW r \in Replies, Receipt(r) PROVE CommentsKept
  BY <1>5 DEF Receipt
<1>6. ASSUME NEW r \in Replies, Deliver(r) PROVE CommentsKept
  BY <1>6 DEF Deliver
<1>7. ASSUME NEW r \in Replies, RecordReply(r) PROVE CommentsKept
  BY <1>7, RecordReplyGoes DEF Ends, Goes
<1>8. ASSUME NEW r \in Replies, LinkReply(r) PROVE CommentsKept
  BY <1>8, LinkReplyGoes DEF Ends, HasCopies
<1>9. ASSUME NEW r \in Replies, LogNew(r, "first", "record") PROVE CommentsKept
  BY <1>9 DEF LogNew
<1>10. ASSUME NEW t \in Texts, Text(t) PROVE CommentsKept
  BY <1>10 DEF Text
<1>11. ASSUME NEW t \in Texts, CheckText(t) PROVE CommentsKept
  BY <1>11, CheckTextGoes DEF Ends, Goes
<1>12. ASSUME NEW t \in Texts, ReceiptText(t) PROVE CommentsKept
  BY <1>12 DEF ReceiptText, AfterReceipt
<1>13. ASSUME NEW t \in Texts, DeliverText(t) PROVE CommentsKept
  BY <1>13 DEF DeliverText
<1>14. ASSUME NEW t \in Texts, RecordText(t) PROVE CommentsKept
  BY <1>14, RecordTextGoes DEF Ends
<1>15. ASSUME NEW t \in Texts, LogNew(t, "first", "record") PROVE CommentsKept
  BY <1>15 DEF LogNew
<1>16. ASSUME NEW x \in Commands, NEW r \in Replies, Command(x, r) PROVE CommentsKept
  BY <1>16 DEF Command
<1>17. ASSUME NEW x \in Commands, Find(x) PROVE CommentsKept
  BY <1>17, FindGoes DEF Ends, Goes, Found
<1>18. ASSUME NEW x \in Commands, ChangeDM(x) PROVE CommentsKept
  BY <1>18 DEF ChangeDM, AfterDM, Changed
<1>19. ASSUME NEW x \in Commands, ChangeLog(x) PROVE CommentsKept
  BY <1>19, ChangeLogGoes DEF Ends, Goes, Changed
<1>20. ASSUME NEW x \in Commands, ChangeTicket(x) PROVE CommentsKept
  BY <1>20 DEF ChangeTicket, Shown, Changed
<1>21. QED
  BY <1>1, <1>2, <1>3, <1>4, <1>5, <1>6, <1>7, <1>8, <1>9, <1>10, <1>11, <1>12, <1>13, <1>14, <1>15, <1>16, <1>17, <1>18, <1>19, <1>20 DEF NotComments, RouteToServer, StoreComment, ChangeComment, RouteToDM, ChangeReply

LEMMA StepTracked ==
  ASSUME IInv, [Next]_vars
  PROVE  Tracked'
<1> USE RelayAssumption DEF IInv, TypeOK, Messages, Commands, Events, Tasks, Words, Versions, Labels,
    copies, texts, records, answers, faults, Goto, Proceeds, Outcomes, Targeted, Routed, Aimless, Tracked, Track, Clean, Between
<1>1. ASSUME NEW r \in Replies, Reply(r) PROVE Tracked'
  BY <1>1 DEF Reply
<1>2. ASSUME NEW r \in Replies, Snip(r) PROVE Tracked'
  BY <1>2 DEF Snip
<1>3. ASSUME NEW r \in Replies, CheckReply(r) PROVE Tracked'
  BY <1>3, CheckReplyGoes DEF Ends, Goes, AfterCheck
<1>4. ASSUME NEW r \in Replies, Erase(r) PROVE Tracked'
  BY <1>4 DEF Erase
<1>5. ASSUME NEW r \in Replies, Receipt(r) PROVE Tracked'
  BY <1>5 DEF Receipt
<1>6. ASSUME NEW r \in Replies, Deliver(r) PROVE Tracked'
  BY <1>6 DEF Deliver
<1>7. ASSUME NEW r \in Replies, RecordReply(r) PROVE Tracked'
  BY <1>7, RecordReplyGoes DEF Ends, Goes
<1>8. ASSUME NEW r \in Replies, LinkReply(r) PROVE Tracked'
  BY <1>8, LinkReplyGoes DEF Ends, HasCopies
<1>9. ASSUME NEW r \in Replies, LogNew(r, "first", "record") PROVE Tracked'
  BY <1>9 DEF LogNew
<1>10. ASSUME NEW x \in Commands, NEW r \in Replies, Command(x, r) PROVE Tracked'
  BY <1>10 DEF Command
<1>11. ASSUME NEW x \in Commands, Find(x) PROVE Tracked'
  BY <1>11, FindGoes DEF Ends, Goes, Found
<1>12. ASSUME NEW x \in Commands, ChangeDM(x) PROVE Tracked'
  <2> SUFFICES ASSUME NEW r \in Replies, Clean(r)' PROVE Track(r)'
    BY DEF Tracked
  <2>1. pc[x] = "dm" /\ target[x] \in Replies /\ pc[target[x]] = "ended"
    BY <1>12 DEF ChangeDM
  <2>2. Clean(r) /\ Track(r)
    BY <1>12 DEF ChangeDM
  <2>3. CASE target[x] # r
    BY <1>12, <2>1, <2>2, <2>3 DEF ChangeDM, AfterDM, Changed
  <2>4. CASE target[x] = r
    <3>1. /\ pc' = [pc EXCEPT ![x] = "log"]
          /\ dm' = [dm EXCEPT ![r] = Changed(x, @)]
          /\ x \in Edits => ~Overlaps(x)
          /\ UNCHANGED <<target, ticket>>
      <4>1. PICK ok \in Outcomes("dm") :
               /\ Proceeds(x, AfterDM(x), ok)
               /\ dm' = [dm EXCEPT ![target[x]] = IF ok THEN Changed(x, @) ELSE @]
        BY <1>12 DEF ChangeDM
      <4>2. target' = target /\ ticket' = ticket /\ ok = TRUE
        BY <1>12, <2>4, <4>1 DEF ChangeDM
      <4>3. QED
        BY <1>12, <2>4, <4>1, <4>2 DEF ChangeDM, AfterDM
    <3>2. CASE x \in Deletes
      BY <2>1, <2>2, <2>4, <3>1, <3>2 DEF Changed
    <3>3. CASE x \in Edits /\ dm[r] = "gone"
      <4>1. dm'[r] = "gone" /\ pc'[r] = "ended" /\ ticket'[r] = ticket[r]
        BY <2>1, <2>4, <3>1, <3>3 DEF Changed
      <4>2. \A y \in Deletes : Between(y, r) => Between(y, r)'
        BY <2>1, <3>1, <3>3
      <4>3. ticket[r] = "gone" \/ \E y \in Deletes : Between(y, r)'
        BY <2>1, <2>2, <2>4, <3>3, <4>2
      <4>4. QED
        BY <4>1, <4>3
    <3>4. CASE x \in Edits /\ dm[r] # "gone"
      <4>1. dm'[r] = x /\ pc'[r] = "ended" /\ ticket'[r] = ticket[r] /\ ticket[r] # "gone"
        BY <2>1, <2>2, <2>4, <3>1, <3>4 DEF Changed
      <4>2. \A y \in Edits : Between(y, r)' => y = x
        BY <2>1, <2>4, <3>1, <3>4 DEF Overlaps
      <4>3. Between(x, r)' /\ x # "gone"
        BY <2>1, <2>4, <3>1, <3>4
      <4>4. \A y \in Deletes : ~Between(y, r)'
        BY <2>2, <3>1, <3>4, <4>1
      <4>5. QED
        BY <3>4, <4>1, <4>2, <4>3, <4>4
    <3>5. QED
      BY <3>2, <3>3, <3>4
  <2>5. QED
    BY <2>3, <2>4
<1>13. ASSUME NEW x \in Commands, ChangeLog(x) PROVE Tracked'
  <2> SUFFICES ASSUME NEW r \in Replies, Clean(r)' PROVE Track(r)'
    BY DEF Tracked
  <2>1. /\ pc[x] = "log"
        /\ UNCHANGED <<target, ticket, dm, crossed>>
        /\ Goes(x, "ticket") \/ (Goes(x, "bare") /\ x \in hurt') \/ (Ends(x) /\ x \in hurt')
    BY <1>13, ChangeLogGoes
  <2>2. Clean(r) /\ Track(r)
    BY <2>1 DEF Goes, Ends
  <2>3. pc'[x] = "ended" => x \in hurt'
    BY <2>1 DEF Goes
  <2>4. pc'[r] = pc[r] /\ \A y \in Commands : Between(y, r)' <=> Between(y, r)
    BY <2>1, <2>3 DEF Goes, Ends
  <2>5. QED
    BY <2>1, <2>2, <2>4
<1>14. ASSUME NEW x \in Commands, ChangeTicket(x) PROVE Tracked'
  <2> SUFFICES ASSUME NEW r \in Replies, Clean(r)' PROVE Track(r)'
    BY DEF Tracked
  <2>1. pc[x] \in {"ticket", "bare"} /\ target[x] \in Replies /\ pc[target[x]] = "ended"
    BY <1>14 DEF ChangeTicket
  <2>2. Clean(r) /\ Track(r)
    BY <1>14 DEF ChangeTicket
  <2>3. CASE target[x] # r
    BY <1>14, <2>1, <2>2, <2>3 DEF ChangeTicket, Shown, Changed
  <2>4. CASE target[x] = r
    <3>1. /\ pc' = [pc EXCEPT ![x] = "ended"]
          /\ ticket' = [ticket EXCEPT ![r] = Changed(x, @)]
          /\ UNCHANGED <<target, dm>>
      <4>1. PICK ok \in Outcomes("ticket"), v \in Shown(x) :
               /\ Proceeds(x, "ended", ok)
               /\ ticket' = [ticket EXCEPT ![target[x]] = IF ok THEN v ELSE @]
        BY <1>14 DEF ChangeTicket
      <4>2. target' = target /\ dm' = dm /\ ok = TRUE
        BY <1>14, <2>4, <4>1 DEF ChangeTicket
      <4>3. pc[x] = "ticket"
        BY <2>1, <2>2, <2>4
      <4>4. v = Changed(x, ticket[r])
        BY <2>4, <4>1, <4>3 DEF Shown
      <4>5. QED
        BY <2>4, <4>1, <4>2, <4>4
    <3>2. ticket'[r] = Changed(x, ticket[r]) /\ dm'[r] = dm[r] /\ pc'[r] = "ended"
      BY <2>1, <2>4, <3>1
    <3>3. \A y \in Commands : Between(y, r)' <=> Between(y, r) /\ y # x
      BY <3>1
    <3>4. CASE x \in Deletes
      BY <2>1, <2>2, <2>4, <3>2, <3>3, <3>4 DEF Changed
    <3>5. CASE x \in Edits
      BY <2>1, <2>2, <2>4, <3>2, <3>3, <3>5 DEF Changed
    <3>6. QED
      BY <3>4, <3>5
  <2>5. QED
    BY <2>3, <2>4
<1>15. CASE NotReplies
  <2>0. RepliesKept
    BY <1>15, OthersLeaveReplies
  <2>1. \A r \in Replies : Clean(r)' => Clean(r)
    BY <2>0 DEF RepliesKept
  <2>2. \A r \in Replies, x \in Commands : Between(x, r)' <=> Between(x, r)
    BY <2>0 DEF RepliesKept
  <2>3. \A r \in Replies : pc'[r] = pc[r] /\ ticket'[r] = ticket[r] /\ dm'[r] = dm[r]
    BY <2>0 DEF RepliesKept
  <2>4. QED
    BY <2>1, <2>2, <2>3
<1>16. CASE ClearLinks
  BY <1>16 DEF ClearLinks
<1>17. CASE Restart
  BY <1>17 DEF Restart, Running
<1>18. CASE UNCHANGED vars
  BY <1>18 DEF vars
<1>19. QED
  BY <1>1, <1>2, <1>3, <1>4, <1>5, <1>6, <1>7, <1>8, <1>9, <1>10, <1>11, <1>12, <1>13, <1>14, <1>15, <1>16, <1>17, <1>18 DEF Next, RouteToDM, ChangeReply, NotReplies

LEMMA StepCommented ==
  ASSUME IInv, [Next]_vars
  PROVE  Commented'
<1> USE RelayAssumption DEF IInv, TypeOK, Messages, Commands, Events, Tasks, Words, Versions, Labels,
    copies, texts, records, answers, faults, Goto, Proceeds, Outcomes, Targeted, Commented, Lost
<1>1. ASSUME NEW r \in Replies, Reply(r) PROVE Commented'
  BY <1>1 DEF Reply
<1>2. ASSUME NEW r \in Replies, Snip(r) PROVE Commented'
  BY <1>2 DEF Snip
<1>3. ASSUME NEW r \in Replies, CheckReply(r) PROVE Commented'
  BY <1>3, CheckReplyGoes DEF Ends, Goes, AfterCheck
<1>4. ASSUME NEW r \in Replies, Erase(r) PROVE Commented'
  BY <1>4 DEF Erase
<1>5. ASSUME NEW r \in Replies, Receipt(r) PROVE Commented'
  BY <1>5 DEF Receipt
<1>6. ASSUME NEW r \in Replies, Deliver(r) PROVE Commented'
  BY <1>6 DEF Deliver
<1>7. ASSUME NEW m \in Replies \cup Texts, LogNew(m, "first", "record") PROVE Commented'
  BY <1>7 DEF LogNew
<1>8. ASSUME NEW r \in Replies, RecordReply(r) PROVE Commented'
  BY <1>8, RecordReplyGoes DEF Ends, Goes
<1>9. ASSUME NEW r \in Replies, LinkReply(r) PROVE Commented'
  BY <1>9, LinkReplyGoes DEF Ends, HasCopies
<1>10. ASSUME NEW t \in Texts, Text(t) PROVE Commented'
  BY <1>10 DEF Text
<1>11. ASSUME NEW t \in Texts, CheckText(t) PROVE Commented'
  BY <1>11, CheckTextGoes DEF Ends, Goes
<1>12. ASSUME NEW t \in Texts, ReceiptText(t) PROVE Commented'
  BY <1>12 DEF ReceiptText, AfterReceipt
<1>13. ASSUME NEW t \in Texts, DeliverText(t) PROVE Commented'
  BY <1>13 DEF DeliverText
<1>14. ASSUME NEW t \in Texts, RecordText(t) PROVE Commented'
  BY <1>14, RecordTextGoes DEF Ends
<1>15. ASSUME NEW c \in Comments, Comment(c) PROVE Commented'
  BY <1>15 DEF Comment
<1>16. ASSUME NEW c \in Comments, ReadComment(c) PROVE Commented'
  BY <1>16 DEF ReadComment
<1>17. ASSUME NEW c \in Comments, LogComment(c) PROVE Commented'
  BY <1>17 DEF LogComment, LogNew
<1>18. ASSUME NEW c \in Comments, LinkComment(c) PROVE Commented'
  BY <1>18 DEF LinkComment
<1>19. ASSUME NEW x \in Commands, NEW r \in Replies, Command(x, r) PROVE Commented'
  BY <1>19 DEF Command
<1>20. ASSUME NEW x \in Commands, Find(x) PROVE Commented'
  BY <1>20, FindGoes DEF Ends, Goes, Found
<1>21. ASSUME NEW x \in Commands, ChangeDM(x) PROVE Commented'
  BY <1>21 DEF ChangeDM, AfterDM, Changed
<1>22. ASSUME NEW x \in Commands, ChangeLog(x) PROVE Commented'
  BY <1>22, ChangeLogGoes DEF Ends, Goes, Changed
<1>23. ASSUME NEW x \in Commands, ChangeTicket(x) PROVE Commented'
  BY <1>23 DEF ChangeTicket, Shown, Changed
<1>24. ASSUME NEW x \in Events, NEW c \in Comments, Event(x, c) PROVE Commented'
  BY <1>24 DEF Event
<1>25. ASSUME NEW x \in Events, FindLog(x) PROVE Commented'
  BY <1>25 DEF FindLog
<1>26. ASSUME NEW x \in Events, ChangeCommentLog(x) PROVE Commented'
  BY <1>26 DEF ChangeCommentLog, TextOf
<1>27. CASE ClearLinks
  BY <1>27 DEF ClearLinks
<1>28. CASE Restart
  BY <1>28 DEF Restart, Running
<1>29. CASE UNCHANGED vars
  BY <1>29 DEF vars
<1>30. ASSUME NEW c \in Comments, Evict(c) PROVE Commented'
  BY <1>30 DEF Evict
<1>31. QED
  BY <1>1, <1>2, <1>3, <1>4, <1>5, <1>6, <1>7, <1>8, <1>9, <1>10, <1>11, <1>12, <1>13, <1>14, <1>15, <1>16, <1>17, <1>18, <1>19, <1>20, <1>21, <1>22, <1>23, <1>24, <1>25, <1>26, <1>27, <1>28, <1>29, <1>30
     DEF Next, RouteToDM, RouteToServer, StoreComment, ChangeReply, ChangeComment

LEMMA StepFollowed ==
  ASSUME IInv, [Next]_vars
  PROVE  Followed'
<1> USE RelayAssumption DEF IInv, TypeOK, Messages, Commands, Events, Tasks, Words, Versions, Labels,
    copies, texts, records, answers, faults, Goto, Proceeds, Outcomes, Targeted, Aimless, Commented, Followed, Follow, Lost, CleanComment, Pending
<1>1. ASSUME NEW c \in Comments, Comment(c) PROVE Followed'
  BY <1>1 DEF Comment
<1>2. ASSUME NEW c \in Comments, ReadComment(c) PROVE Followed'
  BY <1>2 DEF ReadComment
<1>3. ASSUME NEW c \in Comments, LogComment(c) PROVE Followed'
  <2> SUFFICES ASSUME NEW k \in Comments, CleanComment(k)' PROVE Follow(k)'
    BY DEF Followed
  <2>1. /\ pc[c] = "log"
        /\ UNCHANGED <<target, ticket, texts, missed>>
    BY <1>3 DEF LogComment, LogNew
  <2>2. PICK ok \in Outcomes("log") :
          /\ Proceeds(c, "link", ok)
          /\ log' = [log EXCEPT ![c] = IF ok THEN {draft[c]} ELSE @]
    BY <1>3 DEF LogComment, LogNew
  <2>3. CleanComment(k) /\ Follow(k)
    BY <2>1, <2>2
  <2>4. /\ Pending(Changes, k)' <=> Pending(Changes, k)
        /\ Pending(Removals, k)' <=> Pending(Removals, k)
    BY <2>1, <2>2
  <2>5. CASE c # k
    BY <2>1, <2>2, <2>3, <2>4, <2>5
  <2>6. CASE c = k
    <3>1. pc'[k] = "link" /\ log'[k] = {draft[k]} /\ draft[k] \in Versions \ {"gone"}
      BY <2>1, <2>2, <2>6
    <3>2. QED
      BY <2>1, <2>3, <2>4, <2>6, <3>1
  <2>7. QED
    BY <2>5, <2>6
<1>4. ASSUME NEW c \in Comments, LinkComment(c) PROVE Followed'
  BY <1>4 DEF LinkComment
<1>5. ASSUME NEW x \in Events, NEW c \in Comments, Event(x, c) PROVE Followed'
  <2> SUFFICES ASSUME NEW k \in Comments, CleanComment(k)' PROVE Follow(k)'
    BY DEF Followed
  <2>1. /\ pc[x] = "idle" /\ target[x] = None /\ ticket[c] \notin {"none", "gone"}
        /\ target' = [target EXCEPT ![x] = c]
        /\ ticket' = [ticket EXCEPT ![c] = IF x \in Removals THEN "gone" ELSE x]
        /\ UNCHANGED <<log, draft, linked, hurt>>
    BY <1>5 DEF Event
  <2>2. CASE c \notin cached
    <3>1. /\ pc' = [pc EXCEPT ![x] = "ended"] /\ missed' = missed \cup {c} /\ said' = said
      BY <1>5, <2>2 DEF Event
    <3>2. c # k /\ CleanComment(k) /\ Follow(k)
      BY <2>1, <3>1
    <3>3. /\ Pending(Changes, k)' <=> Pending(Changes, k)
          /\ Pending(Removals, k)' <=> Pending(Removals, k)
      BY <2>1, <3>1, <3>2
    <3>4. pc'[k] = pc[k] /\ ticket'[k] = ticket[k] /\ said'[k] = said[k]
      BY <2>1, <3>1, <3>2
    <3>5. QED
      BY <2>1, <3>2, <3>3, <3>4
  <2>3. CASE c \in cached
    <3>1. /\ pc' = [pc EXCEPT ![x] = IF x \in Removals /\ said[c] \in Plus THEN "ended" ELSE "find"]
          /\ said' = [said EXCEPT ![c] = IF x \in Removals THEN @ ELSE x]
          /\ missed' = missed
      BY <1>5, <2>3 DEF Event
    <3>2. CleanComment(k) /\ Follow(k)
      BY <2>1, <3>1
    <3>3. CASE c # k
      <4>1. /\ Pending(Changes, k)' <=> Pending(Changes, k)
            /\ Pending(Removals, k)' <=> Pending(Removals, k)
        BY <2>1, <3>1, <3>3
      <4>2. pc'[k] = pc[k] /\ ticket'[k] = ticket[k] /\ said'[k] = said[k]
        BY <2>1, <3>1, <3>3
      <4>3. QED
        BY <2>1, <3>2, <4>1, <4>2
    <3>4. CASE c = k /\ x \in Removals /\ said[k] \notin Plus
      <4>1. Pending(Removals, k)' /\ Lost(k)' /\ pc'[k] = pc[k] /\ said' = said
        BY <2>1, <3>1, <3>4
      <4>2. Pending(Changes, k) => Pending(Changes, k)'
        BY <2>1, <3>1, <3>4
      <4>3. QED
        BY <2>1, <3>2, <3>4, <4>1, <4>2
    <3>5. CASE c = k /\ x \in Removals /\ said[k] \in Plus
      <4>1. ~Lost(k) /\ ~Lost(k)' /\ pc'[k] = pc[k] /\ said' = said
        BY <2>1, <3>1, <3>5
      <4>2. Pending(Changes, k) => Pending(Changes, k)'
        BY <2>1, <3>1, <3>5
      <4>3. QED
        BY <2>1, <3>2, <3>5, <4>1, <4>2
    <3>6. CASE c = k /\ x \in Changes
      <4>1. Pending(Changes, k)' /\ ticket'[k] = x /\ pc'[k] = pc[k] /\ x # "gone"
        BY <2>1, <3>1, <3>6
      <4>2. pc[k] \in {"link", "ended"} => \E v \in Versions \ {"gone"} : log[k] = {v}
        BY <2>1, <3>2, <3>6
      <4>3. QED
        BY <2>1, <3>2, <3>6, <4>1, <4>2
    <3>7. QED
      BY <3>3, <3>4, <3>5, <3>6
  <2>4. QED
    BY <2>2, <2>3
<1>6. ASSUME NEW x \in Events, FindLog(x) PROVE Followed'
  BY <1>6 DEF FindLog
<1>7. ASSUME NEW x \in Events, ChangeCommentLog(x) PROVE Followed'
  <2> SUFFICES ASSUME NEW k \in Comments, CleanComment(k)' PROVE Follow(k)'
    BY DEF Followed
  <2>1. /\ pc[x] = "log" /\ target[x] \in Comments /\ pc[target[x]] = "ended"
        /\ UNCHANGED <<target, ticket, said, draft, missed>>
    BY <1>7 DEF ChangeCommentLog
  <2>2. PICK ok \in Outcomes("log") :
          /\ Proceeds(x, "ended", ok)
          /\ log' = [log EXCEPT ![target[x]] = IF ok /\ "gone" \notin @ THEN {TextOf(x)} ELSE @]
    BY <1>7 DEF ChangeCommentLog
  <2>3. CleanComment(k) /\ Follow(k)
    BY <2>1, <2>2
  <2>4. CASE target[x] # k
    <3>1. /\ Pending(Changes, k)' <=> Pending(Changes, k)
          /\ Pending(Removals, k)' <=> Pending(Removals, k)
      BY <2>1, <2>2, <2>4
    <3>2. pc'[k] = pc[k] /\ log'[k] = log[k]
      BY <2>1, <2>2, <2>4
    <3>3. QED
      BY <2>1, <2>3, <3>1, <3>2
  <2>5. CASE target[x] = k
    <3>1. /\ ok = TRUE /\ pc'[k] = "ended"
          /\ log'[k] = IF "gone" \in log[k] THEN log[k] ELSE {TextOf(x)}
      BY <2>1, <2>2, <2>5
    <3>2. CASE "gone" \in log[k]
      BY <2>1, <2>3, <2>5, <3>1, <3>2
    <3>3. CASE "gone" \notin log[k] /\ x \in Removals
      <4>1. log'[k] = {"gone"}
        BY <3>1, <3>3 DEF TextOf
      <4>2. Lost(k)
        BY <2>1, <2>5, <3>3
      <4>3. QED
        BY <2>1, <3>1, <4>1, <4>2
    <3>4. CASE "gone" \notin log[k] /\ x \in Changes
      <4>1. log'[k] = {said[k]} /\ said[k] # "gone"
        BY <2>5, <3>1, <3>4 DEF TextOf
      <4>2. Pending(Removals, k) => Pending(Removals, k)'
        BY <2>1, <2>2, <3>4
      <4>3. QED
        BY <2>1, <2>3, <2>5, <3>1, <3>4, <4>1, <4>2
    <3>5. QED
      BY <3>2, <3>3, <3>4
  <2>6. QED
    BY <2>4, <2>5
<1>8. CASE NotComments
  <2>0. CommentsKept
    BY <1>8, OthersLeaveComments
  <2>1. \A c \in Comments : CleanComment(c)' => CleanComment(c)
    BY <2>0 DEF CommentsKept
  <2>2. \A c \in Comments : /\ Pending(Changes, c)' <=> Pending(Changes, c)
                            /\ Pending(Removals, c)' <=> Pending(Removals, c)
    BY <2>0 DEF CommentsKept
  <2>3. /\ \A c \in Comments : pc'[c] = pc[c] /\ ticket'[c] = ticket[c] /\ log'[c] = log[c]
        /\ said' = said /\ draft' = draft
    BY <2>0 DEF CommentsKept
  <2>4. QED
    BY <2>1, <2>2, <2>3
<1>9. CASE ClearLinks
  BY <1>9 DEF ClearLinks
<1>10. CASE Restart
  BY <1>10 DEF Restart, Running
<1>11. CASE UNCHANGED vars
  BY <1>11 DEF vars
<1>12. ASSUME NEW c \in Comments, Evict(c) PROVE Followed'
  BY <1>12 DEF Evict
<1>13. QED
  BY <1>1, <1>2, <1>3, <1>4, <1>5, <1>6, <1>7, <1>8, <1>9, <1>10, <1>11, <1>12 DEF Next, StoreComment, ChangeComment, NotComments
-----------------------------------------------------------------------------
LEMMA InitIInv == Init => IInv
<1> USE RelayAssumption DEF Init, Messages, Commands, Events, Tasks, Words, Versions, Labels
<1>1. ASSUME Init PROVE TypeOK
  BY <1>1 DEF TypeOK
<1>2. ASSUME Init PROVE Targeted /\ Routed /\ Edited /\ LinkedIsWhole /\ LogComplete
  BY <1>2 DEF Targeted, Routed, Edited, LinkedIsWhole, LogComplete, Logs
<1>3. ASSUME Init PROVE Aimless /\ Tracked /\ Commented /\ Followed
  BY <1>3 DEF Aimless, Tracked, Commented, Followed, Track, Follow, Lost, Between, Pending
<1>4. QED
  BY <1>1, <1>2, <1>3 DEF IInv

LEMMA Invariant == Spec => []IInv
<1>1. IInv /\ [Next]_vars => IInv'
  BY StepType, StepTargeted, StepRouted, StepEdited, StepWhole, StepLog, StepAimless, StepTracked, StepCommented, StepFollowed DEF IInv
<1>2. QED
  BY InitIInv, <1>1, PTL DEF Spec

\* Every task is at a line of its own, every copy shows a text that somebody wrote,
\* a message is deleted once, and only the author of a task is told of a failure.
THEOREM TypeCorrect == Spec => []TypeOK
<1>1. IInv => TypeOK
  BY DEF IInv
<1>2. QED
  BY Invariant, <1>1, PTL

\* add_message_link comes last in route_to_dm, after the receipt, the DM and the
\* log: a reply with an entry in linked_msgs has them all and was recorded,
\* whichever calls Discord refused and whenever the bot restarted.
THEOREM WholeCorrect == Spec => []LinkedIsWhole
<1>1. IInv => LinkedIsWhole
  BY DEF IInv
<1>2. QED
  BY Invariant, <1>1, PTL

\* route_to_dm, reply_edit and reply_delete work on the receipt and on the message
\* in the DM in separate calls, and nothing orders two commands for one reply: when
\* all of them have ended, the channel shows what the user sees, unless a call
\* failed or one edit overtook another.
THEOREM AgreeCorrect == Spec => []AgreeWhenQuiet
<1>1. IInv => AgreeWhenQuiet
  BY RelayAssumption DEF IInv, Tracked, Track, Clean, Between, AgreeWhenQuiet, Targeted, TypeOK, Tasks, Commands
<1>2. QED
  BY Invariant, <1>1, PTL

\* edit_comment reads the text when it writes the log: whatever the order in which
\* the changes of a comment and its deletion are handled, the log has the last one,
\* unless a call failed, the log was not linked yet, or the bot was not told of a
\* change as the comment had left its cache.
THEOREM CommentCorrect == Spec => []CommentLogFollows
<1>1. IInv => CommentLogFollows
  BY RelayAssumption DEF IInv, Followed, Follow, CleanComment, Pending, Commented, Lost, Shows, CommentLogFollows, Events
<1>2. QED
  BY Invariant, <1>1, PTL

\* What the user was shown of a reply, each edit of it and its deletion are in the
\* ticket's thread, or on the way to it, or the call that should have logged them
\* failed.
THEOREM LogCorrect == Spec => []LogComplete
<1>1. IInv => LogComplete
  BY DEF IInv
<1>2. QED
  BY Invariant, <1>1, PTL

-----------------------------------------------------------------------------
(* Who is told                                                             *)

\* How far the routing of a message has brought it, unless its author was told or
\* a call failed.
Answered ==
  /\ \A r \in Replies \ (told \cup hurt) :
       /\ pc[r] \in {"log", "record", "link", "ended"} => dm[r] # "none"
       /\ pc[r] \in {"record", "link", "ended"} => log[r] # {}
  /\ \A t \in Texts \ (told \cup hurt) :
       /\ pc[t] \in {"log", "record", "ended"} => ticket[t] # "none"
       /\ pc[t] = "ended" => t \in counted

\* A task that ends with a message to its author has told him, or that call failed.
LEMMA EndsTellingAnswers ==
  ASSUME TypeOK, NEW x \in Tasks, NEW where, NEW fine \in BOOLEAN, EndsTelling(x, where, fine)
  PROVE  x \in told' \cup hurt'
<1>1. PICK ok \in Outcomes(where) :
         /\ Proceeds(x, "ended", fine /\ ok)
         /\ told' = IF ok THEN told \cup {x} ELSE told
  BY DEF EndsTelling
<1>2. QED
  BY <1>1 DEF Proceeds, Goto

LEMMA CheckReplyAnswers ==
  ASSUME TypeOK, NEW r \in Replies, CheckReply(r)
  PROVE  Goes(r, AfterCheck(r)) \/ r \in told' \cup hurt'
<1> USE DEF Tasks, Messages
<1>1. CASE Goto(r, AfterCheck(r)) /\ UNCHANGED <<told, hurt>>
  BY <1>1 DEF Goes, Goto
<1>2. CASE EndsTelling(r, "ticket", TRUE)
  BY <1>2, EndsTellingAnswers
<1>3. CASE Fails(r)
  BY <1>3, EndsTellingAnswers DEF Fails, Proceeds
<1>4. QED
  BY <1>1, <1>2, <1>3 DEF CheckReply

LEMMA CheckTextAnswers ==
  ASSUME TypeOK, NEW t \in Texts, CheckText(t)
  PROVE  Goes(t, "receipt") \/ t \in told' \cup hurt'
<1> USE DEF Tasks, Messages
<1>1. CASE Goto(t, "receipt") /\ UNCHANGED <<told, hurt>>
  BY <1>1 DEF Goes, Goto
<1>2. CASE EndsTelling(t, "dm", TRUE)
  BY <1>2, EndsTellingAnswers
<1>3. QED
  BY <1>1, <1>2 DEF CheckText

LEMMA RecordTextAnswers ==
  ASSUME TypeOK, NEW t \in Texts, RecordText(t)
  PROVE  t \in counted' \/ t \in told' \cup hurt'
<1> USE DEF Tasks, Messages
<1>1. CASE EndsTelling(t, "dm", FALSE)
  BY <1>1, EndsTellingAnswers
<1>2. QED
  BY <1>1 DEF RecordText

LEMMA StepAnswered ==
  ASSUME IInv, Answered, [Next]_vars
  PROVE  Answered'
<1> USE RelayAssumption DEF IInv, TypeOK, Messages, Commands, Events, Tasks, Words, Versions, Labels,
    copies, texts, records, answers, faults, Goto, Proceeds, Outcomes, Routed, Targeted, Answered
<1>1. ASSUME NEW r \in Replies, Reply(r) PROVE Answered'
  BY <1>1 DEF Reply
<1>2. ASSUME NEW r \in Replies, Snip(r) PROVE Answered'
  BY <1>2 DEF Snip
<1>3. ASSUME NEW r \in Replies, CheckReply(r) PROVE Answered'
  BY <1>3, CheckReplyGoes, CheckReplyAnswers DEF Ends, Goes, AfterCheck
<1>4. ASSUME NEW r \in Replies, Erase(r) PROVE Answered'
  BY <1>4 DEF Erase
<1>5. ASSUME NEW r \in Replies, Receipt(r) PROVE Answered'
  BY <1>5 DEF Receipt
<1>6. ASSUME NEW r \in Replies, Deliver(r) PROVE Answered'
  BY <1>6 DEF Deliver
<1>7. ASSUME NEW m \in Replies \cup Texts, LogNew(m, "first", "record") PROVE Answered'
  BY <1>7 DEF LogNew
<1>8. ASSUME NEW r \in Replies, RecordReply(r) PROVE Answered'
  BY <1>8, RecordReplyGoes DEF Ends, Goes
<1>9. ASSUME NEW r \in Replies, LinkReply(r) PROVE Answered'
  BY <1>9, LinkReplyGoes DEF Ends, HasCopies
<1>10. ASSUME NEW t \in Texts, Text(t) PROVE Answered'
  BY <1>10 DEF Text
<1>11. ASSUME NEW t \in Texts, CheckText(t) PROVE Answered'
  BY <1>11, CheckTextGoes, CheckTextAnswers DEF Ends, Goes
<1>12. ASSUME NEW t \in Texts, ReceiptText(t) PROVE Answered'
  BY <1>12 DEF ReceiptText, AfterReceipt
<1>13. ASSUME NEW t \in Texts, DeliverText(t) PROVE Answered'
  BY <1>13 DEF DeliverText
<1>14. ASSUME NEW t \in Texts, RecordText(t) PROVE Answered'
  BY <1>14, RecordTextGoes, RecordTextAnswers DEF Ends
<1>15. ASSUME NEW c \in Comments, Comment(c) PROVE Answered'
  BY <1>15 DEF Comment
<1>16. ASSUME NEW c \in Comments, ReadComment(c) PROVE Answered'
  BY <1>16 DEF ReadComment
<1>17. ASSUME NEW c \in Comments, LogComment(c) PROVE Answered'
  BY <1>17 DEF LogComment, LogNew
<1>18. ASSUME NEW c \in Comments, LinkComment(c) PROVE Answered'
  BY <1>18 DEF LinkComment
<1>19. ASSUME NEW x \in Commands, NEW r \in Replies, Command(x, r) PROVE Answered'
  BY <1>19 DEF Command
<1>20. ASSUME NEW x \in Commands, Find(x) PROVE Answered'
  BY <1>20, FindGoes DEF Ends, Goes, Found
<1>21. ASSUME NEW x \in Commands, ChangeDM(x) PROVE Answered'
  BY <1>21 DEF ChangeDM, AfterDM, Changed
<1>22. ASSUME NEW x \in Commands, ChangeLog(x) PROVE Answered'
  BY <1>22, ChangeLogGoes DEF Ends, Goes, Changed
<1>23. ASSUME NEW x \in Commands, ChangeTicket(x) PROVE Answered'
  BY <1>23 DEF ChangeTicket, Shown, Changed
<1>24. ASSUME NEW x \in Events, NEW c \in Comments, Event(x, c) PROVE Answered'
  BY <1>24 DEF Event
<1>25. ASSUME NEW x \in Events, FindLog(x) PROVE Answered'
  BY <1>25 DEF FindLog
<1>26. ASSUME NEW x \in Events, ChangeCommentLog(x) PROVE Answered'
  BY <1>26 DEF ChangeCommentLog, TextOf
<1>27. CASE ClearLinks
  BY <1>27 DEF ClearLinks
<1>28. CASE Restart
  BY <1>28 DEF Restart, Running
<1>29. CASE UNCHANGED vars
  BY <1>29 DEF vars
<1>30. ASSUME NEW c \in Comments, Evict(c) PROVE Answered'
  BY <1>30 DEF Evict
<1>31. QED
  BY <1>1, <1>2, <1>3, <1>4, <1>5, <1>6, <1>7, <1>8, <1>9, <1>10, <1>11, <1>12, <1>13, <1>14, <1>15, <1>16, <1>17, <1>18, <1>19, <1>20, <1>21, <1>22, <1>23, <1>24, <1>25, <1>26, <1>27, <1>28, <1>29, <1>30
     DEF Next, RouteToDM, RouteToServer, StoreComment, ChangeReply, ChangeComment

\* The safety half of Delivered: a message never ends, by whichever of the early
\* returns and whatever commands, events and restarts do meanwhile, without its
\* copies, a word to its author or a failed call.
THEOREM EndedIsAnswered == Spec => []Answered
<1>1. Init => Answered
  BY RelayAssumption DEF Init, Answered, Tasks, Messages
<1>2. IInv /\ Answered /\ [Next]_vars => Answered'
  BY StepAnswered
<1>3. QED
  BY <1>1, <1>2, Invariant, PTL DEF Spec
=============================================================================
