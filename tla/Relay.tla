------------------------------- MODULE Relay -------------------------------
(***************************************************************************)
(* The messages of one ticket: replies of the staff, relayed to the user's *)
(* direct messages (route_to_dm), and the commands that edit or delete     *)
(* them; messages of the user, relayed to the ticket channel               *)
(* (route_to_server); comments of the staff in the channel, of which the   *)
(* ticket's thread keeps a copy (store_comment).                           *)
(*                                                                         *)
(* A reply has three copies: its receipt in the ticket channel, the        *)
(* message in the DM, and the log in the thread.  The ids of the last two  *)
(* are linked in Redis to the receipt, that of a comment's log to the      *)
(* comment.  Each copy is one awaited call, and other coroutines run       *)
(* between any two.                                                        *)
(*                                                                         *)
(* Sends, edits and deletes go through Queue.call: one that Discord        *)
(* refuses gives None and raises nothing.  Fetches in the DM and in the    *)
(* thread do raise.                                                        *)
(***************************************************************************)
EXTENDS FiniteSets, Naturals

CONSTANTS
  Replies,      \* messages of the staff for the user
  Texts,        \* messages of the user
  Comments,     \* messages of the staff that stay in the channel
  Edits,        \* reply_edit commands
  Deletes,      \* reply_delete commands
  Changes,      \* changes of a comment by its author
  Removals,     \* deletions of a comment
  Plus,         \* changes to a text that begins with "+"
  Refusing,     \* which calls may fail: "ticket", "dm", "log", or "lookup"
  MaxRestarts,  \* bound on the restarts of the bot
  None          \* no reply

Messages == Replies \cup Texts \cup Comments
Commands == Edits \cup Deletes
Events == Changes \cup Removals
Tasks == Messages \cup Commands \cup Events
Words == {"none", "first", "bare", "gone"}

ASSUME RelayAssumption ==
  /\ Replies \cap (Texts \cup Comments) = {} /\ Texts \cap Comments = {}
  /\ Edits \cap Deletes = {} /\ Changes \cap Removals = {} /\ Commands \cap Events = {}
  /\ Messages \cap (Commands \cup Events) = {}
  /\ Words \cap (Edits \cup Changes) = {} /\ Plus \subseteq Changes
  /\ None \notin Messages
  /\ Refusing \subseteq {"ticket", "dm", "log", "lookup"}
  /\ MaxRestarts \in Nat

\* What a copy shows: nothing yet, the message as it was written, its files
\* without the text, the text of an edit; or it is deleted.
Versions == Words \cup Edits \cup Changes

VARIABLES
  pc,         \* where each routing or command is
  target,     \* the message a command or event is about
  ticket,     \* the copy of each message in the ticket channel
  dm,         \* its copy in the user's DM
  log,        \* the versions of it in the thread, "gone" if marked [DELETED]
  said,       \* the text of a comment, as the bot's message object has it
  draft,      \* the text store_comment has read
  snips,      \* replies that a snip command gives as a text
  cached,     \* comments in discord.py's cache of messages
  linked,     \* messages with an entry in linked_msgs
  erased,     \* replies whose own "+..." message in the channel is deleted
  counted,    \* messages given to the message buffer, their status set
  told,       \* tasks whose author was told of a failure
  closed,     \* close_ticket has cleared the links
  restarts,
  hurt,       \* history: tasks with a failed call, or ended by a restart
  unlogged,   \* history: tasks that failed to write to the log
  missed,     \* history: comments changed out of the cache, or without a link
  crossed     \* history: replies whose DM was edited during another edit

copies  == <<ticket, dm, log>>
texts   == <<said, draft, snips, cached>>
records == <<linked, counted, closed, restarts>>
answers == <<erased, told>>
faults  == <<unlogged, missed, crossed>>
vars == <<pc, target, copies, texts, records, answers, hurt, faults>>

Init ==
  /\ pc = [x \in Tasks |-> "idle"]
  /\ target = [x \in Commands \cup Events |-> None]
  /\ ticket = [m \in Messages |-> "none"]
  /\ dm = [m \in Replies \cup Texts |-> "none"]
  /\ log = [m \in Messages |-> {}]
  /\ said = [c \in Comments |-> "none"]
  /\ draft = [c \in Comments |-> "none"]
  /\ snips = {} /\ cached = {}
  /\ linked = {} /\ counted = {} /\ closed = FALSE /\ restarts = 0
  /\ erased = {} /\ told = {}
  /\ hurt = {} /\ unlogged = {} /\ missed = {} /\ crossed = {}

\* Whether a call succeeds.
Outcomes(where) == IF where \in Refusing THEN BOOLEAN ELSE {TRUE}

Goto(x, l) == pc' = [pc EXCEPT ![x] = l]

\* A task gets on to l after a call that succeeded or not.
Proceeds(x, l, ok) ==
  /\ Goto(x, l)
  /\ hurt' = IF ok THEN hurt ELSE hurt \cup {x}

\* It ends, its author being told why if that call succeeds; fine says whether
\* all went well until then.
EndsTelling(x, where, fine) ==
  \E ok \in Outcomes(where) :
    /\ Proceeds(x, "ended", fine /\ ok)
    /\ told' = IF ok THEN told \cup {x} ELSE told

-----------------------------------------------------------------------------
(* route_to_dm                                                             *)

\* A moderator writes "+...", or +reply and the like: a task is created.
Reply(r) ==
  /\ pc[r] = "idle"
  /\ Goto(r, "check")
  /\ UNCHANGED <<target, copies, texts, records, answers, hurt, faults>>

\* A snip command deletes its own message and gives the snip's text.
Snip(r) ==
  /\ pc[r] = "idle"
  /\ Goto(r, "check")
  /\ snips' = snips \cup {r}
  /\ UNCHANGED <<target, copies, said, draft, cached, records, answers, hurt, faults>>

\* Faulty variant: a snip has no message to delete, and the routing returns there.
SnipReturns(r) == IF r \in snips THEN "ended" ELSE "erase"

\* Faulty variant: a snip command's own message is deleted a second time.
ErasesAll(r) == "erase"

\* Where a reply goes on when it has passed the checks.
AfterCheck(r) == IF r \in snips THEN "receipt" ELSE "erase"

\* Any exception: message.reply, which Discord refuses when the message is
\* deleted; a snip has no message to reply to.
Fails(r) ==
  \/ /\ r \notin snips \cup erased
     /\ EndsTelling(r, "ticket", FALSE)
  \/ /\ r \in snips \cup erased
     /\ Proceeds(r, "ended", FALSE)
     /\ UNCHANGED told

\* The checks of the member, the blacklist, the thread, the length and the DM
\* channel; the one for an empty message comes after the deletion, and so do the
\* lookups for the receipt.
CheckReply(r) ==
  /\ \/ /\ pc[r] = "check"
        /\ Goto(r, AfterCheck(r))
        /\ UNCHANGED <<told, hurt>>
     \/ /\ pc[r] \in {"check", "receipt"}
        /\ EndsTelling(r, "ticket", TRUE)
     \/ /\ pc[r] \in {"check", "receipt"} /\ "lookup" \in Refusing
        /\ Fails(r)
  /\ UNCHANGED <<target, copies, texts, records, erased, faults>>

Erase(r) ==
  /\ pc[r] = "erase"
  /\ \E ok \in Outcomes("ticket") :
       /\ Proceeds(r, "receipt", ok)
       /\ erased' = IF ok THEN erased \cup {r} ELSE erased
  /\ UNCHANGED <<target, copies, texts, records, told, faults>>

\* "Message Sent [STAFF]" in the ticket channel comes first ...
Receipt(r) ==
  /\ pc[r] = "receipt"
  /\ \E ok \in Outcomes("ticket") :
       /\ Proceeds(r, "deliver", ok)
       /\ ticket' = [ticket EXCEPT ![r] = IF ok THEN "first" ELSE @]
  /\ UNCHANGED <<target, dm, log, texts, records, answers, faults>>

\* ... then the message to the user ...
Deliver(r) ==
  /\ pc[r] = "deliver"
  /\ \E ok \in Outcomes("dm") :
       /\ Proceeds(r, "log", ok)
       /\ dm' = [dm EXCEPT ![r] = IF ok THEN "first" ELSE @]
  /\ UNCHANGED <<target, ticket, log, texts, records, answers, faults>>

\* ... then the log.
LogNew(m, v, next) ==
  /\ pc[m] = "log"
  /\ \E ok \in Outcomes("log") :
       /\ Proceeds(m, next, ok)
       /\ log' = [log EXCEPT ![m] = IF ok THEN {v} ELSE @]
       /\ unlogged' = IF ok THEN unlogged ELSE unlogged \cup {m}
  /\ UNCHANGED <<target, ticket, dm, texts, records, answers, missed, crossed>>

\* add_ticket_message takes the id of the receipt, which may be None.
RecordReply(r) ==
  /\ pc[r] = "record"
  /\ \/ /\ ticket[r] = "none"
        /\ Fails(r)
        /\ UNCHANGED counted
     \/ /\ ticket[r] # "none"
        /\ Goto(r, "link")
        /\ counted' = counted \cup {r}
        /\ UNCHANGED <<told, hurt>>
  /\ UNCHANGED <<target, copies, texts, linked, closed, restarts, erased, faults>>

\* Faulty variant: the link is stored without the id of the log message.
HasDM(r) == dm[r] # "none"

\* add_message_link takes the ids of both messages, which may be None.
HasCopies(r) == dm[r] # "none" /\ log[r] # {}

LinkReply(r) ==
  /\ pc[r] = "link"
  /\ \/ /\ HasCopies(r)
        /\ Goto(r, "ended")
        /\ linked' = linked \cup {r}
        /\ UNCHANGED <<told, hurt>>
     \/ /\ ~HasCopies(r) \/ "lookup" \in Refusing
        /\ Fails(r)
        /\ UNCHANGED linked
  /\ UNCHANGED <<target, copies, texts, counted, closed, restarts, erased, faults>>

-----------------------------------------------------------------------------
(* route_to_server                                                         *)

\* The user writes to the bot, and bot_dm, or the select menu, knows the ticket.
Text(t) ==
  /\ pc[t] = "idle"
  /\ Goto(t, "check")
  /\ UNCHANGED <<target, copies, texts, records, answers, hurt, faults>>

CheckText(t) ==
  /\ pc[t] = "check"
  /\ \/ /\ Goto(t, "receipt")
        /\ UNCHANGED <<told, hurt>>
     \/ EndsTelling(t, "dm", TRUE)
  /\ UNCHANGED <<target, copies, texts, records, erased, faults>>

\* Faulty variant: a routing ends with its receipt.
EndsAtReceipt(t) == "ended"

AfterReceipt(t) == "deliver"

\* "Message Sent" goes to the user before the message goes to the ticket.
ReceiptText(t) ==
  /\ pc[t] = "receipt"
  /\ \E ok \in Outcomes("dm") :
       /\ Proceeds(t, AfterReceipt(t), ok)
       /\ dm' = [dm EXCEPT ![t] = IF ok THEN "first" ELSE @]
  /\ UNCHANGED <<target, ticket, log, texts, records, answers, faults>>

DeliverText(t) ==
  /\ pc[t] = "deliver"
  /\ \E ok \in Outcomes("ticket") :
       /\ Proceeds(t, "log", ok)
       /\ ticket' = [ticket EXCEPT ![t] = IF ok THEN "first" ELSE @]
  /\ UNCHANGED <<target, dm, log, texts, records, answers, faults>>

\* Without a receipt there is no id to record: the message gets the reaction
\* that tells of an error, and neither the timer nor the status is touched.
RecordText(t) ==
  /\ pc[t] = "record"
  /\ \/ /\ dm[t] = "none"
        /\ EndsTelling(t, "dm", FALSE)
        /\ UNCHANGED counted
     \/ /\ dm[t] # "none"
        /\ Goto(t, "ended")
        /\ counted' = counted \cup {t}
        /\ UNCHANGED <<told, hurt>>
  /\ UNCHANGED <<target, copies, texts, linked, closed, restarts, erased, faults>>

-----------------------------------------------------------------------------
(* reply_edit and reply_delete                                             *)

\* A moderator names a reply he sees in the channel.
Command(x, r) ==
  /\ pc[x] = "idle"
  /\ ticket[r] \notin {"none", "gone"}
  /\ target' = [target EXCEPT ![x] = r]
  /\ Goto(x, "find")
  /\ UNCHANGED <<copies, texts, records, answers, hurt, faults>>

\* The receipt with its embed, its link and the message in the DM are there.
Found(r) == ticket[r] \notin {"bare", "gone"} /\ r \in linked /\ dm[r] # "gone"

Find(x) ==
  /\ pc[x] = "find"
  /\ \/ /\ Found(target[x])
        /\ Goto(x, "dm")
        /\ UNCHANGED <<told, hurt>>
     \/ /\ ~Found(target[x])
        /\ EndsTelling(x, "ticket", TRUE)
     \/ /\ "lookup" \in Refusing
        /\ EndsTelling(x, "ticket", FALSE)
  /\ UNCHANGED <<target, copies, texts, records, erased, faults>>

\* Faulty variant: the thread is left as it is.
ToTicket(x) == "ticket"

AfterDM(x) == "log"

\* What a command makes of a copy that is still there.
Changed(x, old) == IF old = "gone" \/ x \in Deletes THEN "gone" ELSE x

\* Another edit has changed the DM of the same reply, not yet its receipt.
Overlaps(x) ==
  \E y \in Edits \ {x} : target[y] = target[x] /\ pc[y] \in {"log", "ticket", "bare"}

\* dm_message.edit or delete: a refusal is not noticed.
ChangeDM(x) ==
  LET r == target[x] IN
  /\ pc[x] = "dm"
  /\ \E ok \in Outcomes("dm") :
       /\ Proceeds(x, AfterDM(x), ok)
       /\ dm' = [dm EXCEPT ![r] = IF ok THEN Changed(x, @) ELSE @]
  /\ crossed' = IF x \in Edits /\ Overlaps(x) THEN crossed \cup {r} ELSE crossed
  /\ UNCHANGED <<target, ticket, log, texts, records, answers, unlogged, missed>>

\* The thread is not found: the moderator is told, and an edit goes on without
\* an embed.
NoThread(x) ==
  /\ "lookup" \in Refusing
  /\ \E ok \in Outcomes("ticket") :
       /\ told' = IF ok THEN told \cup {x} ELSE told
       /\ Proceeds(x, IF x \in Edits THEN "bare" ELSE "ticket", FALSE)

\* Its message cannot be fetched: thread_message is unbound, and that error
\* goes to the error handler.
NoLogMessage(x) ==
  /\ "log" \in Refusing
  /\ EndsTelling(x, "ticket", FALSE)

\* Faulty variant: the command ends with the log.
EndOfLog(x) == "ended"

AfterLog(x) == "ticket"

\* An edit answers the log message with the new text; a delete marks it.
ChangeLog(x) ==
  LET r == target[x] IN
  /\ pc[x] = "log"
  /\ \/ \E ok \in Outcomes("log") :
          /\ Proceeds(x, AfterLog(x), ok)
          /\ log' = [log EXCEPT ![r] = IF ok THEN @ \cup {Changed(x, "first")} ELSE @]
          /\ unlogged' = IF ok THEN unlogged ELSE unlogged \cup {x}
          /\ UNCHANGED told
     \/ /\ NoThread(x) \/ NoLogMessage(x)
        /\ unlogged' = unlogged \cup {x}
        /\ UNCHANGED log
  /\ UNCHANGED <<target, ticket, dm, texts, records, erased, missed, crossed>>

\* What an accepted call makes of the receipt.  Without an embed it is refused
\* after all, unless there are files to show.
Shown(x) ==
  LET old == ticket[target[x]] IN
  IF pc[x] = "ticket" \/ old = "gone" THEN {Changed(x, old)} ELSE {old, "bare"}

\* The receipt at last.  The success message comes whatever became of these calls.
ChangeTicket(x) ==
  /\ pc[x] \in {"ticket", "bare"}
  /\ \E ok \in Outcomes("ticket"), v \in Shown(x) :
       /\ Proceeds(x, "ended", ok)
       /\ ticket' = [ticket EXCEPT ![target[x]] = IF ok THEN v ELSE @]
  /\ UNCHANGED <<target, dm, log, texts, records, answers, faults>>

-----------------------------------------------------------------------------
(* Comments                                                                *)

\* A moderator writes in the channel.
Comment(c) ==
  /\ pc[c] = "idle"
  /\ Goto(c, "record")
  /\ ticket' = [ticket EXCEPT ![c] = "first"]
  /\ said' = [said EXCEPT ![c] = "first"]
  /\ cached' = cached \cup {c}
  /\ UNCHANGED <<target, dm, log, draft, snips, records, answers, hurt, faults>>

\* discord.py keeps the last messages only; a task goes on with its own object.
Evict(c) ==
  /\ c \in cached
  /\ cached' = cached \ {c}
  /\ UNCHANGED <<pc, target, copies, said, draft, snips, records, answers, hurt, faults>>

\* on_message records it; store_comment reads its text, and may then have files
\* to save.
ReadComment(c) ==
  /\ pc[c] = "record"
  /\ Goto(c, "log")
  /\ counted' = counted \cup {c}
  /\ draft' = [draft EXCEPT ![c] = said[c]]
  /\ UNCHANGED <<target, copies, said, snips, cached, linked, closed, restarts, answers, hurt, faults>>

LogComment(c) == LogNew(c, draft[c], "link")

\* The log's id is stored, unless there is none or Redis fails.
LinkComment(c) ==
  /\ pc[c] = "link"
  /\ \/ /\ log[c] # {}
        /\ Goto(c, "ended")
        /\ linked' = linked \cup {c}
        /\ UNCHANGED hurt
     \/ /\ log[c] = {} \/ "lookup" \in Refusing
        /\ Proceeds(c, "ended", FALSE)
        /\ UNCHANGED linked
  /\ UNCHANGED <<target, copies, texts, counted, closed, restarts, answers, faults>>

\* A comment is changed or deleted.  on_message_edit and on_message_delete come
\* for a comment in the cache, whose object has the new text at once, for all
\* the tasks that hold it; the deletion of one that begins with "+" is ignored.
Event(x, c) ==
  /\ pc[x] = "idle"
  /\ ticket[c] \notin {"none", "gone"}
  /\ target' = [target EXCEPT ![x] = c]
  /\ ticket' = [ticket EXCEPT ![c] = IF x \in Removals THEN "gone" ELSE x]
  /\ \/ /\ c \in cached
        /\ Goto(x, IF x \in Removals /\ said[c] \in Plus THEN "ended" ELSE "find")
        /\ said' = [said EXCEPT ![c] = IF x \in Removals THEN @ ELSE x]
        /\ cached' = IF x \in Removals THEN cached \ {c} ELSE cached
        /\ UNCHANGED missed
     \/ /\ c \notin cached
        /\ Goto(x, "ended")
        /\ missed' = missed \cup {c}
        /\ UNCHANGED <<said, cached>>
  /\ UNCHANGED <<dm, log, draft, snips, records, answers, hurt, unlogged, crossed>>

\* Without a link there is nothing to unpack; without the log message,
\* thread_message is unbound.
FindLog(x) ==
  LET c == target[x] IN
  /\ pc[x] = "find"
  /\ \/ /\ c \in linked /\ "gone" \notin log[c]
        /\ Goto(x, "log")
        /\ UNCHANGED <<hurt, missed>>
     \/ /\ c \notin linked
        /\ Goto(x, "ended")
        /\ missed' = missed \cup {c}
        /\ UNCHANGED hurt
     \/ /\ c \in linked /\ ("gone" \in log[c] \/ {"log", "lookup"} \cap Refusing # {})
        /\ Proceeds(x, "ended", "gone" \in log[c])
        /\ UNCHANGED missed
  /\ UNCHANGED <<target, copies, texts, records, answers, unlogged, crossed>>

\* Faulty variant: the text is the one that the event came with.
TextOfEvent(x) == IF x \in Removals THEN "gone" ELSE x

\* What the log shows next: edit_comment reads the text when it makes the call.
TextOf(x) == IF x \in Removals THEN "gone" ELSE said[target[x]]

ChangeCommentLog(x) ==
  LET c == target[x] IN
  /\ pc[x] = "log"
  /\ \E ok \in Outcomes("log") :
       /\ Proceeds(x, "ended", ok)
       /\ log' = [log EXCEPT ![c] = IF ok /\ "gone" \notin @ THEN {TextOf(x)} ELSE @]
  /\ UNCHANGED <<target, ticket, dm, texts, records, answers, faults>>

-----------------------------------------------------------------------------

\* close_ticket clears the links; the channel stays for some seconds.
ClearLinks ==
  /\ ~closed
  /\ closed' = TRUE
  /\ linked' = {}
  /\ UNCHANGED <<pc, target, copies, texts, counted, restarts, answers, hurt, faults>>

Running == {x \in Tasks : pc[x] \notin {"idle", "ended"}}

\* The bot ends and starts again: no task survives, and the cache is empty.
Restart ==
  /\ restarts < MaxRestarts
  /\ Running \cup cached # {}
  /\ cached' = {}
  /\ restarts' = restarts + 1
  /\ pc' = [x \in Tasks |-> IF x \in Running THEN "ended" ELSE pc[x]]
  /\ hurt' = hurt \cup Running
  /\ unlogged' = unlogged \cup {x \in Running : pc[x] = "log"}
  /\ UNCHANGED <<target, copies, said, draft, snips, linked, counted, closed, answers,
                 missed, crossed>>

RouteToDM(r) ==
  CheckReply(r) \/ Erase(r) \/ Receipt(r) \/ Deliver(r) \/ LogNew(r, "first", "record")
    \/ RecordReply(r) \/ LinkReply(r)
RouteToServer(t) ==
  CheckText(t) \/ ReceiptText(t) \/ DeliverText(t) \/ LogNew(t, "first", "record") \/ RecordText(t)
ChangeReply(x) == Find(x) \/ ChangeDM(x) \/ ChangeLog(x) \/ ChangeTicket(x)
StoreComment(c) == ReadComment(c) \/ LogComment(c) \/ LinkComment(c)
ChangeComment(x) == FindLog(x) \/ ChangeCommentLog(x)

Next ==
  \/ \E r \in Replies : Reply(r) \/ Snip(r) \/ RouteToDM(r)
  \/ \E t \in Texts : Text(t) \/ RouteToServer(t)
  \/ \E c \in Comments : Comment(c) \/ StoreComment(c) \/ Evict(c)
  \/ \E x \in Commands : (\E r \in Replies : Command(x, r)) \/ ChangeReply(x)
  \/ \E x \in Events : (\E c \in Comments : Event(x, c)) \/ ChangeComment(x)
  \/ ClearLinks
  \/ Restart

Spec == Init /\ [][Next]_vars

\* Tasks that were created go on; nobody has to write or to command anything.
Fairness ==
  /\ \A r \in Replies : WF_vars(RouteToDM(r))
  /\ \A t \in Texts : WF_vars(RouteToServer(t))
  /\ \A c \in Comments : WF_vars(StoreComment(c))
  /\ \A x \in Commands : WF_vars(ChangeReply(x))
  /\ \A x \in Events : WF_vars(ChangeComment(x))

FairSpec == Spec /\ Fairness

-----------------------------------------------------------------------------
(* Properties                                                              *)

Labels ==
  {"idle", "check", "erase", "receipt", "deliver", "log", "record", "link",
   "find", "dm", "ticket", "bare", "ended"}

TypeOK ==
  /\ pc \in [Tasks -> Labels]
  /\ target \in [Commands \cup Events -> Replies \cup Comments \cup {None}]
  /\ ticket \in [Messages -> Versions]
  /\ dm \in [Replies \cup Texts -> Versions]
  /\ log \in [Messages -> SUBSET Versions]
  /\ said \in [Comments -> Versions]
  /\ draft \in [Comments -> Versions]
  /\ snips \subseteq Replies
  /\ cached \subseteq Comments
  /\ linked \subseteq Replies \cup Comments
  /\ counted \subseteq Messages
  /\ closed \in BOOLEAN
  /\ restarts \in Nat
  /\ erased \subseteq Replies \ snips
  /\ told \subseteq Replies \cup Texts \cup Commands
  /\ hurt \subseteq Tasks
  /\ unlogged \subseteq Messages \cup Commands \cup Events
  /\ missed \subseteq Comments
  /\ crossed \subseteq Replies

\* What the user has been shown of a reply, or has been taken from him, is in
\* the log: a task that has changed the DM goes on to the log, or failed there.
Logs(x, v, m) == v \in log[m] \/ pc[x] = "log" \/ x \in unlogged

LogComplete ==
  \A r \in Replies :
    /\ dm[r] = "first" => Logs(r, "first", r)
    /\ dm[r] \in Edits => Logs(dm[r], dm[r], r)
    /\ dm[r] = "gone" => \E x \in Deletes : target[x] = r /\ Logs(x, "gone", r)

\* A reply that can be edited was recorded and has its three copies, so that a
\* command that finds the link does not work on None.
LinkedIsWhole ==
  \A r \in linked \cap Replies :
    r \in counted /\ ticket[r] # "none" /\ dm[r] # "none" /\ log[r] # {}

\* When a reply and the commands for it have ended, the channel shows what the
\* user sees, unless a call failed or one edit overtook another.
AgreeWhenQuiet ==
  \A r \in Replies \ (crossed \cup hurt) :
    /\ pc[r] = "ended"
    /\ \A x \in Commands : target[x] = r => pc[x] = "ended" /\ x \notin hurt
    => ticket[r] = dm[r]

\* What the log of a comment should show: the deletion of one that begins with
\* "+" is ignored.
Shows(c) == IF ticket[c] = "gone" /\ said[c] \in Plus THEN said[c] ELSE ticket[c]

\* When a comment and the events about it have been handled, its log has its
\* text, in whatever order they were, unless a call failed, the comment was
\* changed before its log was linked, or the bot got no event, as it had been
\* restarted or had too many other messages since.
CommentLogFollows ==
  \A c \in Comments \ (missed \cup hurt) :
    /\ pc[c] = "ended"
    /\ \A x \in Events : target[x] = c => pc[x] = "ended" /\ x \notin hurt
    => log[c] = {Shows(c)}

\* A message that was taken on is delivered and recorded, or its author is told,
\* or a call failed.
Delivered ==
  /\ \A r \in Replies : pc[r] = "check" ~> (dm[r] # "none" /\ log[r] # {}) \/ r \in told \cup hurt
  /\ \A t \in Texts : pc[t] = "check" ~> (ticket[t] # "none" /\ t \in counted) \/ t \in told \cup hurt

\* "Unable to DM the ticket opener.  Your last message was not sent": a
\* moderator is told when a reply did not reach the user.
UndeliveredIsTold ==
  \A r \in Replies : pc[r] = "ended" /\ dm[r] = "none" => r \in told
=============================================================================
