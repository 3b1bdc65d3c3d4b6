----------------------------- MODULE Statistics -----------------------------
(***************************************************************************)
(* The rows of tickets and of their messages, as they grow while tickets   *)
(* are opened, answered and closed, and the figures that the statistics    *)
(* commands select from them (utils/queries.py, cogs/stats.py).            *)
(*                                                                         *)
(* A figure is one operator, whatever the number of subqueries that repeat *)
(* it for one server and for all, for each time span and for the total.    *)
(* Counts are numbers; an average is its sum and its count, or None when   *)
(* there is nothing to average, which SQL gives as NULL; a comparison with *)
(* NULL is not true.  What has been flushed when the query runs is the     *)
(* concern of MessageBuffer.                                               *)
(*                                                                         *)
(* The rows are those of tickets_v2 and ticket_messages_v2, in which a     *)
(* ticket is recorded when it is opened, answered and closed.  The hourly  *)
(* figures, /export_week, /export_server_stats and /export_mod_activity    *)
(* select from the former tables, which nothing modelled here writes; they *)
(* are not modelled.  /export_week_v2 is, although MySQL refuses it        *)
(* whatever the rows: one of its subqueries has a misspelt FROM.           *)
(***************************************************************************)
EXTENDS FiniteSets, FiniteSetsExt, Integers

CONSTANTS
  Channels,   \* tickets
  Messages,   \* messages of the staff
  Mods,       \* moderators
  Timer,      \* -1, the closer of a ticket that the timer worker closed
  Servers,    \* servers
  Types,      \* the ticket types of each
  Parent,     \* the main type of each subtype, None for a main type
  Day,        \* hours in a day
  Week,       \* hours in a week
  Spans,      \* the time spans to choose from, in hours
  MaxTime,    \* bound on the time
  MaxRemovals,\* bound on the types removed from any server
  None        \* NULL

Dates == 0 .. MaxTime

\* What closerID may be.
Closers == Mods \cup {Timer}

\* Rows of tickets.
TicketRows ==
  [server : Servers, type : Types, opened : Dates, closed : Dates \cup {None}, closer : Closers \cup {None}]

ASSUME StatisticsAssumption ==
  /\ IsFiniteSet(Channels) /\ IsFiniteSet(Messages) /\ IsFiniteSet(Mods) /\ IsFiniteSet(Types)
  /\ IsFiniteSet(Servers)
  /\ Parent \in [Types -> Types \cup {None}]
  /\ \A t \in Types : Parent[t] # None => Parent[Parent[t]] = None
  /\ Day \in Nat \ {0} /\ Week \in Nat \ {0}
  /\ Spans \subseteq Nat
  /\ Timer \notin Mods
  /\ MaxTime \in Nat /\ MaxRemovals \in Nat
  /\ None \notin Closers \cup Types \cup Nat \cup (Nat \X Nat) \cup TicketRows

VARIABLES
  now,        \* the time, in hours
  tickets,    \* row of each ticket: server, type, opened, closed, closer
  messages,   \* row of each message: channel, author, kind, date
  types       \* the ticket types of each server that are left

vars == <<now, tickets, messages, types>>

Init ==
  /\ now = 0
  /\ tickets = [c \in Channels |-> None]
  /\ messages = [m \in Messages |-> None]
  /\ types = [s \in Servers |-> Types]

\* create_ticket: the row of a new ticket.
Open(c, s, t) ==
  /\ tickets[c] = None /\ t \in types[s]
  /\ tickets' = [tickets EXCEPT ![c] = [server |-> s, type |-> t, opened |-> now, closed |-> None, closer |-> None]]
  /\ UNCHANGED <<now, messages, types>>

\* Faulty variant: the closer is not recorded.
NoCloser(c, closer) ==
  /\ tickets[c] # None
  /\ tickets' = [tickets EXCEPT ![c].closed = now]
  /\ UNCHANGED <<now, messages, types>>

\* close_ticket, which also updates a ticket that is closed already.
Close(c, closer) ==
  /\ tickets[c] # None
  /\ tickets' = [tickets EXCEPT ![c].closed = now, ![c].closer = closer]
  /\ UNCHANGED <<now, messages, types>>

\* A reply ("Sent") or a comment ("Discussion").
Write(m, c, mod, kind) ==
  /\ messages[m] = None /\ tickets[c] # None
  /\ messages' = [messages EXCEPT ![m] = [channel |-> c, author |-> mod, kind |-> kind, date |-> now]]
  /\ UNCHANGED <<now, tickets, types>>

\* A type is removed; its tickets keep their type.
RemoveType(s, t) ==
  /\ t \in types[s]
  /\ Cardinality(UNION {{r} \X (Types \ types[r]) : r \in Servers}) < MaxRemovals
  /\ types' = [types EXCEPT ![s] = @ \ {t}]
  /\ UNCHANGED <<now, tickets, messages>>

Tick ==
  /\ now < MaxTime
  /\ now' = now + 1
  /\ UNCHANGED <<tickets, messages, types>>

Next ==
  \/ \E c \in Channels, s \in Servers, t \in Types : Open(c, s, t)
  \/ \E c \in Channels, closer \in Closers : Close(c, closer)
  \/ \E m \in Messages, c \in Channels, mod \in Mods, kind \in {"Sent", "Discussion"} :
       Write(m, c, mod, kind)
  \/ \E s \in Servers, t \in Types : RemoveType(s, t)
  \/ Tick

Spec == Init /\ [][Next]_vars

-----------------------------------------------------------------------------
(* Rows                                                                    *)

\* "TOTAL", or the last hours.
Intervals == Spans \cup {None}

\* date >= NOW() - INTERVAL span
Since(date, span) == date # None /\ (span = None \/ date >= now - span)

\* The tickets of some servers.
Rows(S) == {c \in Channels : tickets[c] # None /\ tickets[c].server \in S}
OpenIn(S) == {c \in Rows(S) : tickets[c].closed = None}
ClosedIn(S) == Rows(S) \ OpenIn(S)
ClosedSince(S, span) == {c \in ClosedIn(S) : Since(tickets[c].closed, span)}

Written(kind) == {m \in Messages : messages[m] # None /\ messages[m].kind = kind}

\* The messages of a kind in the tickets of some servers, since some time.
MessagesIn(S, kind, span) ==
  {m \in Written(kind) : messages[m].channel \in Rows(S) /\ Since(messages[m].date, span)}

\* first_message: MIN(date) of the replies, joined by channel.
Answered(C) == {c \in C : \E m \in Written("Sent") : messages[m].channel = c}
FirstReply(c) == Min({messages[m].date : m \in {n \in Written("Sent") : messages[n].channel = c}})

\* The sum of natural numbers.
Total(f(_), S) == Cardinality(UNION {{x} \X (1 .. f(x)) : x \in S})
Average(f(_), S) == IF S = {} THEN None ELSE <<Total(f, S), Cardinality(S)>>

\* TIMESTAMPDIFF of closing and of first reply.
Duration(c) == tickets[c].closed - tickets[c].opened
Response(c) == FirstReply(c) - tickets[c].opened

\* The messages of each ticket that has any, whoever wrote them.
Conversation(c) == {m \in Messages : messages[m] # None /\ messages[m].channel = c}
Size(c) == Cardinality(Conversation(c))
MessagesPerTicket(C) == Average(Size, {c \in C : Conversation(c) # {}})

-----------------------------------------------------------------------------
(* The message that closes a ticket                                        *)

\* Duration of a ticket and time to its first reply.
ClosingFigures(c) ==
  <<IF tickets[c].closed = None THEN None ELSE Duration(c),
    IF Answered({c}) = {} THEN None ELSE Response(c)>>

-----------------------------------------------------------------------------
(* /leaderboard                                                            *)

\* Open tickets of a server; with a time span, those closed in it.
RankOpen(s, span) ==
  Cardinality({c \in OpenIn({s}) : span = None \/ Since(tickets[c].closed, span)})

RankDuration(s, span) == Average(Duration, ClosedSince({s}, span))
RankResponse(s, span) == Average(Response, Answered(ClosedSince({s}, span)))

\* Who closed how many tickets, the timer with its own number, and who sent how
\* many replies.
RankClosed(s, closer, span) == Cardinality({c \in ClosedSince({s}, span) : tickets[c].closer = closer})
RankSent(s, mod, span) == Cardinality({m \in MessagesIn({s}, "Sent", span) : messages[m].author = mod})

-----------------------------------------------------------------------------
(* /server_stats                                                           *)

\* Open tickets and all tickets; the second value of each pair is that of all
\* servers.
ServerStats(S, span) ==
  [open |-> Cardinality(OpenIn(S)),
   all |-> Cardinality(Rows(S)),
   duration |-> Average(Duration, ClosedSince(S, span)),
   response |-> Average(Response, Answered(ClosedSince(S, span))),
   messages |-> MessagesPerTicket(ClosedSince(S, span))]

\* Which value of a pair is displayed, if any.
Shown(here, everywhere) == IF here = None \/ everywhere = 0 THEN None ELSE here

-----------------------------------------------------------------------------
(* /mod_activity                                                           *)

ClosedBy(C, closer) == {c \in C : tickets[c].closer = closer}
WrittenBy(M, mod) == {m \in M : messages[m].author = mod}

\* A pair: what is one's own, and all of the server.
Share(own, all) == <<Cardinality(own), Cardinality(all)>>

\* Faulty variant: replies are counted by the date the ticket was closed.
ByClosing(s, mod, span) ==
  LET closed == ClosedSince({s}, span)
      sent == {m \in Written("Sent") : messages[m].channel \in closed}
      chats == MessagesIn({s}, "Discussion", span) IN
  [closed |-> Share(ClosedBy(closed, mod), closed),
   sent |-> Share(WrittenBy(sent, mod), sent),
   chats |-> Share(WrittenBy(chats, mod), chats)]

\* Faulty variant: a moderator's own comments in all servers.
EveryServer(s, mod, span) ==
  LET closed == ClosedSince({s}, span)
      sent == MessagesIn({s}, "Sent", span)
      chats == MessagesIn({s}, "Discussion", span) IN
  [closed |-> Share(ClosedBy(closed, mod), closed),
   sent |-> Share(WrittenBy(sent, mod), sent),
   chats |-> Share(WrittenBy(MessagesIn(Servers, "Discussion", span), mod), chats)]

\* Closes, replies and comments of a moderator.
ModActivity(s, mod, span) ==
  LET closed == ClosedSince({s}, span)
      sent == MessagesIn({s}, "Sent", span)
      chats == MessagesIn({s}, "Discussion", span) IN
  [closed |-> Share(ClosedBy(closed, mod), closed),
   sent |-> Share(WrittenBy(sent, mod), sent),
   chats |-> Share(WrittenBy(chats, mod), chats)]

-----------------------------------------------------------------------------
(* /export_week_v2                                                         *)

InWeek(w, time) == time # None /\ time \div Week = w

OpenedInWeek(S, w) == {c \in Rows(S) : InWeek(w, tickets[c].opened)}
StillOpen(S, w) == Cardinality(OpenedInWeek(S, w) \cap OpenIn(S))
ClosedFrom(S, w) == Cardinality(OpenedInWeek(S, w) \cap ClosedIn(S))
ClosedInWeek(S, w) == {c \in ClosedIn(S) : InWeek(w, tickets[c].closed)}

\* The days with the most closings, of which SQL gives one: counted are the
\* tickets opened in the week, those still open with NULL for a day.
BusiestClosingDays(s, w) ==
  LET day(c) == IF tickets[c].closed = None THEN None ELSE tickets[c].closed \div Day
      count(d) == Cardinality({c \in OpenedInWeek({s}, w) : day(c) = d})
      days == {day(c) : c \in OpenedInWeek({s}, w)} IN
  {d \in days : \A e \in days : count(e) <= count(d)}

\* Averages of what was closed in the week, and of the first replies to what was
\* opened in it.
WeekDuration(C, w) == Average(Duration, C \cap ClosedInWeek(Servers, w))
WeekResponse(C, w) == Average(Response, Answered(C \cap OpenedInWeek(Servers, w)))
WeekMessages(S, w) == MessagesPerTicket(ClosedInWeek(S, w))

\* The messages of the staff in the week.
WrittenInWeek(s, kinds, w) ==
  {m \in UNION {MessagesIn({s}, kind, None) : kind \in kinds} : InWeek(w, messages[m].date)}

AtHour(hour, time) == time % Day = hour

\* Closings and messages in an hour of the day; the hours with the most and with
\* the least, of those that have any.
Activity(s, w, hour) ==
  Cardinality({c \in ClosedInWeek({s}, w) : AtHour(hour, tickets[c].closed)})
    + Cardinality({m \in WrittenInWeek(s, {"Sent", "Discussion"}, w) : AtHour(hour, messages[m].date)})
ActiveHours(s, w) == {hour \in 0 .. Day - 1 : Activity(s, w, hour) > 0}
MostActive(s, w) ==
  {hour \in ActiveHours(s, w) : \A other \in ActiveHours(s, w) : Activity(s, w, other) <= Activity(s, w, hour)}
LeastActive(s, w) ==
  {hour \in ActiveHours(s, w) : \A other \in ActiveHours(s, w) : Activity(s, w, other) >= Activity(s, w, hour)}

\* Faulty variant: the timer is ranked with the moderators.
AnyCloser(s, w) ==
  LET closed(mod) == Cardinality(ClosedBy(ClosedInWeek({s}, w), mod)) IN
  {mod \in Closers : closed(mod) > 0 /\ \A other \in Closers : closed(other) <= closed(mod)}

\* The moderators with the most tickets closed, where the timer's do not count;
\* those with the most messages.
TopClosers(s, w) ==
  LET closed(mod) == Cardinality(ClosedBy(ClosedInWeek({s}, w), mod)) IN
  {mod \in Mods : closed(mod) > 0 /\ \A other \in Mods : closed(other) <= closed(mod)}
TopWriters(s, kind, w) ==
  LET sent(mod) == Cardinality(WrittenBy(WrittenInWeek(s, {kind}, w), mod)) IN
  {mod \in Mods : sent(mod) > 0 /\ \A other \in Mods : sent(other) <= sent(mod)}

\* Num Mods Answering Tickets: the timer is one of them.
ModsInWeek(s, w) ==
  {tickets[c].closer : c \in ClosedInWeek({s}, w)}
    \cup {messages[m].author : m \in WrittenInWeek(s, {"Sent", "Discussion"}, w)}

-----------------------------------------------------------------------------
(* The types in /export_week_v2                                            *)

\* Faulty variant: subtypes are main types as well.
AllMain(s) == types[s]

MainTypes(s) == {t \in types[s] : Parent[t] = None}

\* The types that are counted under a main type: itself and its subtypes.
Group(s, t) == {t} \cup {u \in types[s] : Parent[u] = t}

OfType(S, T, w) == {c \in OpenedInWeek(S, w) : tickets[c].type \in T}

TypeOpened(s, t, w) == Cardinality(OfType({s}, Group(s, t), w))
SubtypeOpened(s, u, w) == Cardinality(OfType({s}, {u}, w))

\* Averages of some types.
TypeDuration(s, T, w) == WeekDuration({c \in Rows({s}) : tickets[c].type \in T}, w)
TypeResponse(s, T, w) == WeekResponse(OfType({s}, T, w), w)

-----------------------------------------------------------------------------
(* Properties                                                              *)

Weeks == 0 .. (MaxTime \div Week)

\* Types; and no date of a row is later than the time or earlier than the
\* opening of its ticket.
TypeOK ==
  /\ now \in Dates
  /\ tickets \in [Channels -> TicketRows \cup {None}]
  /\ messages \in [Messages -> [channel : Channels, author : Mods, kind : {"Sent", "Discussion"},
                                date : Dates] \cup {None}]
  /\ types \in [Servers -> SUBSET Types]
  /\ \A c \in Rows(Servers) : tickets[c].closed # None =>
       tickets[c].closer # None /\ tickets[c].closed \in tickets[c].opened .. now
  /\ \A m \in Messages : messages[m] # None => messages[m].date \in tickets[messages[m].channel].opened .. now

\* Two commands that show the same thing show the same number: the moderator
\* rankings what /mod_activity shows of one moderator, the server rankings what
\* /server_stats shows, and a closing message's figures what the server's averages
\* are made of.
CommandsAgree ==
  \A s \in Servers, span \in Intervals :
    /\ \A mod \in Mods :
         /\ RankClosed(s, mod, span) = ModActivity(s, mod, span).closed[1]
         /\ RankSent(s, mod, span) = ModActivity(s, mod, span).sent[1]
    /\ RankDuration(s, span) = ServerStats({s}, span).duration
    /\ RankResponse(s, span) = ServerStats({s}, span).response
    /\ RankOpen(s, None) = ServerStats({s}, span).open
    /\ ClosedSince({s}, span) # {} =>
         RankDuration(s, span)[1] = Total(LAMBDA c : ClosingFigures(c)[1], ClosedSince({s}, span))

\* The parts add up to what is shown as the whole: the ranking of closes, in which
\* the timer has a place, to the closes that /mod_activity shows of the server;
\* the replies and comments of the moderators to those of the server; the servers
\* to all servers.  And a server's open tickets are shown when it has any.
PartsAddUp ==
  \A span \in Intervals :
    /\ \A s \in Servers, mod \in Mods :
         /\ Total(LAMBDA closer : RankClosed(s, closer, span), Closers) = ModActivity(s, mod, span).closed[2]
         /\ \A f \in {"sent", "chats"} :
              Total(LAMBDA other : ModActivity(s, other, span)[f][1], Mods) = ModActivity(s, mod, span)[f][2]
    /\ \A f \in {"open", "all"} :
         Total(LAMBDA s : ServerStats({s}, span)[f], Servers) = ServerStats(Servers, span)[f]
    /\ \A s \in Servers :
         Shown(ServerStats({s}, span).open, ServerStats(Servers, span).open) = None => OpenIn({s}) = {}

\* The sum of an average.
Sum(average) == IF average = None THEN 0 ELSE average[1]

\* A weekly export is consistent: what was opened is still open or closed, each
\* close falls into one week, the averages of the weeks make those of all time,
\* and the moderators and hours named are those that were active.  The timer is
\* counted with the moderators that were active, but it is never named.
WeeksAddUp ==
  \A s \in Servers :
    /\ \A w \in Weeks : Cardinality(OpenedInWeek({s}, w)) = StillOpen({s}, w) + ClosedFrom({s}, w)
    /\ Total(LAMBDA w : Cardinality(ClosedInWeek({s}, w)), Weeks) = Cardinality(ClosedIn({s}))
    /\ Total(LAMBDA w : Sum(WeekDuration(Rows({s}), w)), Weeks) = Sum(RankDuration(s, None))
    /\ Total(LAMBDA w : Sum(WeekMessages({s}, w)), Weeks) = Sum(ServerStats({s}, None).messages)
    /\ Total(LAMBDA w : Sum(WeekResponse(Rows({s}), w)), Weeks) >= Sum(RankResponse(s, None))
    /\ UNION {ModsInWeek(s, w) : w \in Weeks} =
         {closer \in Closers : RankClosed(s, closer, None) > 0}
           \cup {mod \in Mods : \E f \in {"sent", "chats"} : ModActivity(s, mod, None)[f][1] > 0}
    /\ \A w \in Weeks :
         /\ TopClosers(s, w) \cup TopWriters(s, "Sent", w) \cup TopWriters(s, "Discussion", w)
              \subseteq ModsInWeek(s, w) \ {Timer}
         /\ TopClosers(s, w) = {} <=> \A c \in ClosedInWeek({s}, w) : tickets[c].closer = Timer
         /\ MostActive(s, w) = {} <=> ModsInWeek(s, w) = {}
         /\ LeastActive(s, w) = {} <=> MostActive(s, w) = {}
         /\ None \in BusiestClosingDays(s, w) => StillOpen({s}, w) > 0

\* The tickets that have a type, and its main type, in the list of types.
Typed(s) ==
  {c \in Rows({s}) :
     LET t == tickets[c].type IN t \in types[s] /\ (Parent[t] # None => Parent[t] \in types[s])}

\* The types of the weekly export count each ticket once, under its main type,
\* but not the tickets of a type that is gone or has lost its main type.
TypesAddUp ==
  \A s \in Servers, w \in Weeks :
    /\ Total(LAMBDA t : TypeOpened(s, t, w), MainTypes(s)) = Cardinality(OpenedInWeek({s}, w) \cap Typed(s))
    /\ Total(LAMBDA t : Sum(TypeDuration(s, Group(s, t), w)), MainTypes(s)) = Sum(WeekDuration(Typed(s), w))
    /\ Total(LAMBDA t : Sum(TypeResponse(s, Group(s, t), w)), MainTypes(s)) = Sum(WeekResponse(Typed(s), w))
    /\ \A t \in MainTypes(s) :
         Total(LAMBDA u : SubtypeOpened(s, u, w), Group(s, t)) = TypeOpened(s, t, w)
=============================================================================
