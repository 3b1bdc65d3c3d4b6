---------------------------- MODULE RateLimiter ----------------------------
(***************************************************************************)
(* The queue that every message, edit, delete, fetch, reaction and webhook *)
(* message of the bot goes through (classes/rate_limiter.py, patched into  *)
(* discord.py by core.py).                                                 *)
(*                                                                         *)
(* A call takes one of the places of its route, passes the gate that an    *)
(* overload of any route closes for all, takes the lock of the route,      *)
(* waits out the delay of the route and for a free slot among the requests *)
(* of the last second, and then makes up to three requests.                *)
(*                                                                         *)
(* An action is what a call does between two waits.  Times are what is     *)
(* left of them, or ages; Tick lets time pass for all.  A call may go on   *)
(* later than it could: the event loop may be busy.  Locks are taken in    *)
(* any order; asyncio's are first come, first served.                      *)
(***************************************************************************)
EXTENDS FiniteSets, Integers, Sequences

CONSTANTS
  Calls,       \* calls of the queue, each made once
  Routes,      \* kinds of requests
  Places,      \* max_concurrency of each route
  Delay,       \* delay of each route
  Max,         \* max_actions_per_sec
  Window,      \* a second
  RetryAfter,  \* what a 429 answer may ask for
  None         \* no route yet

ASSUME RateLimiterAssumption ==
  /\ IsFiniteSet(Calls) /\ IsFiniteSet(Routes)
  /\ Places \in [Routes -> Nat \ {0}]
  /\ Delay \in [Routes -> Nat]
  /\ Max \in Nat \ {0} /\ Window \in Nat \ {0}
  /\ RetryAfter \subseteq Nat
  /\ None \notin Routes

VARIABLES
  pc,      \* where each call is
  route,   \* its route
  tries,   \* the requests it has made
  wait,    \* what is left of its sleep
  gate,    \* what is left until global_reset
  reset,   \* what is left until the reset_time of each route
  stamps,  \* call_timestamps, by the call that left it
  age,     \* how long ago the first request of each call was made
  rest,    \* history: what is left of the pause of each route
  exempt   \* history: calls past the gate when it was last closed

vars == <<pc, route, tries, wait, gate, reset, stamps, age, rest, exempt>>

Long == Window + 1  \* longer ago than the window; ages do not grow further
Inside == {"asleep", "bucket", "rate", "request", "backoff"}
Locked == {"rate", "request", "backoff"}

On(r) == {c \in Calls : route[c] = r}
At(labels) == {c \in Calls : pc[c] \in labels}

Init ==
  /\ pc = [c \in Calls |-> "idle"]
  /\ route = [c \in Calls |-> None]
  /\ tries = [c \in Calls |-> 0]
  /\ wait = [c \in Calls |-> 0]
  /\ gate = 0
  /\ reset = [r \in Routes |-> 0]
  /\ stamps = <<>>
  /\ age = [c \in Calls |-> Long]
  /\ rest = [r \in Routes |-> 0]
  /\ exempt = {}

Go(c, label) == pc' = [pc EXCEPT ![c] = label]

-----------------------------------------------------------------------------
(* Waiting                                                                 *)

\* A patched method of discord.py is called.
Call(c, r) ==
  /\ pc[c] = "idle"
  /\ route' = [route EXCEPT ![c] = r]
  /\ Go(c, "place")
  /\ UNCHANGED <<tries, wait, gate, reset, stamps, age, rest, exempt>>

\* async with bucket.semaphore
Enter(c) ==
  /\ pc[c] = "place"
  /\ Cardinality(On(route[c]) \cap At(Inside \cup {"gate"})) < Places[route[c]]
  /\ Go(c, "gate")
  /\ UNCHANGED <<route, tries, wait, gate, reset, stamps, age, rest, exempt>>

\* Faulty variant: nobody waits for the gate.
OpenGate(c) ==
  /\ pc[c] = "gate" /\ At({"asleep"}) = {}
  /\ Go(c, "bucket")
  /\ UNCHANGED <<route, tries, wait, gate, reset, stamps, age, rest, exempt>>

\* async with self.global_lock: the gate is open, or the call sleeps with the
\* lock held.  The time it compares was read before the lock was taken: once there
\* was an overload, it may sleep though the gate has opened meanwhile, and longer
\* than what is left, never shorter.
PassGate(c) ==
  /\ pc[c] = "gate" /\ At({"asleep"}) = {}
  /\ \/ gate > 0 /\ Go(c, "asleep") /\ wait' = [wait EXCEPT ![c] = gate]
     \/ gate = 0 /\ exempt # {} /\ Go(c, "asleep") /\ UNCHANGED wait
     \/ gate = 0 /\ Go(c, "bucket") /\ UNCHANGED wait
  /\ UNCHANGED <<route, tries, gate, reset, stamps, age, rest, exempt>>

\* The call goes on; it does not look at the gate again.
Wake(c) ==
  /\ pc[c] = "asleep" /\ wait[c] = 0
  /\ Go(c, "bucket")
  /\ UNCHANGED <<route, tries, wait, gate, reset, stamps, age, rest, exempt>>

\* Faulty variant: the delay of the route is not waited for.
NoDelay(c) ==
  /\ pc[c] = "bucket" /\ On(route[c]) \cap At(Locked) = {}
  /\ Go(c, "rate")
  /\ UNCHANGED <<route, tries, wait, gate, reset, stamps, age, rest, exempt>>

\* async with bucket.lock, and the sleep until reset_time.
Lock(c) ==
  /\ pc[c] = "bucket" /\ On(route[c]) \cap At(Locked) = {}
  /\ Go(c, "rate")
  /\ wait' = [wait EXCEPT ![c] = reset[route[c]]]
  /\ UNCHANGED <<route, tries, gate, reset, stamps, age, rest, exempt>>

-----------------------------------------------------------------------------
(* Requests                                                                *)

\* Faulty variant: the oldest is given up whatever its age.
AnyAge(s) == IF Len(s) >= Max THEN Tail(s) ELSE s

\* _enforce_global_rate: all slots are taken, until the oldest is a second old.
Slots(s) == IF Len(s) >= Max /\ age[Head(s)] > Window THEN Tail(s) ELSE s

\* A slot is free: the timestamp is left and the first request goes out.
Request(c) ==
  /\ pc[c] = "rate" /\ wait[c] = 0
  /\ Len(Slots(stamps)) < Max
  /\ stamps' = Append(Slots(stamps), c)
  /\ age' = [age EXCEPT ![c] = 0]
  /\ tries' = [tries EXCEPT ![c] = 1]
  /\ Go(c, "request")
  /\ UNCHANGED <<route, wait, gate, reset, rest, exempt>>

\* The request succeeds.
Succeed(c) ==
  /\ pc[c] = "request"
  /\ reset' = [reset EXCEPT ![route[c]] = Delay[route[c]]]
  /\ rest' = [rest EXCEPT ![route[c]] = Delay[route[c]]]
  /\ Go(c, "done")
  /\ UNCHANGED <<route, tries, wait, gate, stamps, age, exempt>>

\* An error that is not retried: the call returns None.
Refuse(c) ==
  /\ pc[c] = "request"
  /\ Go(c, "done")
  /\ UNCHANGED <<route, tries, wait, gate, reset, stamps, age, rest, exempt>>

\* How long to wait after an overload: what a 429 answer asks for, or one second,
\* two and four.
Pauses(c) == RetryAfter \cup {Window * <<1, 2, 4>>[tries[c]]}

\* 429 or an error of the server.  All other calls are to wait, too, and it is
\* this wait that counts, shorter or not than one that was set before.
Overload(c) ==
  /\ pc[c] = "request"
  /\ \E time \in Pauses(c) :
       /\ gate' = time
       /\ wait' = [wait EXCEPT ![c] = time]
       /\ rest' = [rest EXCEPT ![route[c]] = time]
  /\ exempt' = At(Inside)
  /\ Go(c, "backoff")
  /\ UNCHANGED <<route, tries, reset, stamps, age>>

\* Faulty variant: the requests are not counted.
Forever(c) ==
  /\ pc[c] = "backoff" /\ wait[c] = 0
  /\ Go(c, "request")
  /\ UNCHANGED <<route, tries, wait, gate, reset, stamps, age, rest, exempt>>

\* Faulty variant: a fourth request.
Fourth(c) ==
  /\ pc[c] = "backoff" /\ wait[c] = 0 /\ tries[c] <= 3
  /\ tries' = [tries EXCEPT ![c] = tries[c] + 1]
  /\ Go(c, "request")
  /\ UNCHANGED <<route, wait, gate, reset, stamps, age, rest, exempt>>

\* The next request, without a timestamp and whatever the gate.
Retry(c) ==
  /\ pc[c] = "backoff" /\ wait[c] = 0 /\ tries[c] < 3
  /\ tries' = [tries EXCEPT ![c] = tries[c] + 1]
  /\ Go(c, "request")
  /\ UNCHANGED <<route, wait, gate, reset, stamps, age, rest, exempt>>

\* After the pause that follows the third the call returns None.
GiveUp(c) ==
  /\ pc[c] = "backoff" /\ wait[c] = 0 /\ tries[c] = 3
  /\ Go(c, "done")
  /\ UNCHANGED <<route, tries, wait, gate, reset, stamps, age, rest, exempt>>

Less(time) == IF time > 0 THEN time - 1 ELSE 0

\* Time passes; only what may matter still is counted.
Tick ==
  /\ gate' = Less(gate)
  /\ wait' = [c \in Calls |-> Less(wait[c])]
  /\ reset' = [r \in Routes |-> Less(reset[r])]
  /\ rest' = [r \in Routes |-> Less(rest[r])]
  /\ age' = [c \in Calls |-> IF age[c] < Long THEN age[c] + 1 ELSE Long]
  /\ UNCHANGED <<pc, route, tries, stamps, exempt>>

Step(c) ==
  \/ Enter(c) \/ PassGate(c) \/ Wake(c) \/ Lock(c) \/ Request(c)
  \/ Succeed(c) \/ Refuse(c) \/ Overload(c) \/ Retry(c) \/ GiveUp(c)

Next ==
  \/ \E c \in Calls, r \in Routes : Call(c, r)
  \/ \E c \in Calls : Step(c)
  \/ Tick

\* A call goes on when it can, time passes, and every request is answered or runs
\* into the timeout of the HTTP client.
Fairness == WF_vars(Tick) /\ \A c \in Calls : WF_vars(Step(c))

Spec == Init /\ [][Next]_vars /\ Fairness

-----------------------------------------------------------------------------
(* Properties                                                              *)

TypeOK ==
  /\ pc \in [Calls -> Inside \cup {"idle", "place", "gate", "done"}]
  /\ route \in [Calls -> Routes \cup {None}]
  /\ \A c \in Calls : pc[c] # "idle" => route[c] \in Routes
  /\ tries \in [Calls -> 0 .. 3]
  /\ \A c \in Calls : pc[c] \in {"request", "backoff"} => tries[c] > 0
  /\ wait \in [Calls -> Nat] /\ gate \in Nat
  /\ reset \in [Routes -> Nat] /\ rest \in [Routes -> Nat]
  /\ stamps \in Seq(Calls)
  /\ age \in [Calls -> 0 .. Long]
  /\ exempt \subseteq Calls

\* max_actions_per_sec: calls that are let through at the same time by different
\* routes, and wait while others take the slots, never begin more requests in any
\* second than that.  Retries do not count.
WindowHolds == Cardinality({c \in Calls : age[c] <= Window}) <= Max

Begins(c) == pc[c] # "request" /\ pc'[c] = "request"

\* A route is left in peace: no request of it, first or retried, while the delay
\* after a success or the wait after an overload lasts, whichever call had it and
\* whatever became of the gate.
RouteRests == [][\A c \in Calls : Begins(c) => rest[route[c]] = 0]_vars

\* An overload stops all other calls: as long as the gate is closed, requests are
\* made only by those that had passed it before.
GateRespected == [][\A c \in Calls : Begins(c) /\ gate > 0 => c \in exempt]_vars

\* No call waits forever, for a place, a lock, a slot or another call that is being
\* retried: the queue returns to each.
CallReturns == \A c \in Calls : pc[c] # "idle" ~> pc[c] = "done"
=============================================================================
