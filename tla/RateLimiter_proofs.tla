------------------------ MODULE RateLimiter_proofs ------------------------
(***************************************************************************)
(* Proofs about RateLimiter for all calls, routes, delays, slots and       *)
(* pauses: the types, the slots of a second, the rest of a route and the   *)
(* gate.                                                                   *)
(***************************************************************************)
EXTENDS RateLimiter, FiniteSetTheorems, TLAPS

\* Every recent first request has left its timestamp, and there are no more
\* timestamps than slots.
Stamped ==
  /\ Len(stamps) <= Max
  /\ \A c \in Calls : age[c] <= Window => \E i \in 1 .. Len(stamps) : stamps[i] = c

\* A route is worked on by one call at a time; the pause of a route is over when
\* its reset_time has come, or when the call that has its lock has slept enough.
Resting ==
  /\ \A c, d \in Calls : pc[c] \in Locked /\ pc[d] \in Locked /\ route[c] = route[d] => c = d
  /\ \A r \in Routes : (\A c \in Calls : pc[c] \in Locked => route[c] # r) => rest[r] <= reset[r]
  /\ \A c \in Calls : pc[c] \in {"rate", "backoff"} => rest[route[c]] <= wait[c]
  /\ \A c \in Calls : pc[c] = "request" => rest[route[c]] = 0

\* While the gate is closed, whoever is past it was there when it was closed last,
\* or is asleep until it opens.
Gated ==
  gate > 0 => \A c \in At(Inside) : c \in exempt \/ (pc[c] = "asleep" /\ wait[c] >= gate)

IInv == TypeOK /\ Stamped /\ Resting /\ Gated

-----------------------------------------------------------------------------
LEMMA SlotsType ==
  ASSUME TypeOK, Len(stamps) <= Max
  PROVE  /\ Slots(stamps) \in Seq(Calls)
         /\ Len(Slots(stamps)) <= Max
BY RateLimiterAssumption DEF TypeOK, Slots

\* What is given up is no longer recent.
LEMMA SlotsKept ==
  ASSUME TypeOK, Stamped, NEW c \in Calls, age[c] <= Window
  PROVE  \E i \in 1 .. Len(Slots(stamps)) : Slots(stamps)[i] = c
<1> USE RateLimiterAssumption DEF TypeOK, Stamped
<1>1. PICK i \in 1 .. Len(stamps) : stamps[i] = c
  OBVIOUS
<1>2. CASE Len(stamps) >= Max /\ age[Head(stamps)] > Window
  <2>1. i # 1
    BY <1>1, <1>2
  <2>2. /\ i - 1 \in 1 .. Len(Tail(stamps))
        /\ Tail(stamps)[i - 1] = stamps[i]
    BY <1>1, <2>1
  <2>3. QED
    BY <1>1, <1>2, <2>2 DEF Slots
<1>3. CASE ~(Len(stamps) >= Max /\ age[Head(stamps)] > Window)
  BY <1>1, <1>3 DEF Slots
<1>4. QED
  BY <1>2, <1>3

LEMMA StepType ==
  ASSUME IInv, [Next]_vars
  PROVE  TypeOK'
<1> USE RateLimiterAssumption DEF IInv, TypeOK, Inside, At, Go, Long
<1>1. ASSUME NEW c \in Calls, NEW r \in Routes, Call(c, r) PROVE TypeOK'
  BY <1>1 DEF Call
<1>2. ASSUME NEW c \in Calls, Enter(c) PROVE TypeOK'
  BY <1>2 DEF Enter
<1>3. ASSUME NEW c \in Calls, PassGate(c) PROVE TypeOK'
  <2>1. CASE gate > 0 /\ pc' = [pc EXCEPT ![c] = "asleep"] /\ wait' = [wait EXCEPT ![c] = gate]
    BY <1>3, <2>1 DEF PassGate
  <2>2. CASE gate = 0 /\ pc' = [pc EXCEPT ![c] = "asleep"] /\ UNCHANGED wait
    BY <1>3, <2>2 DEF PassGate
  <2>3. CASE gate = 0 /\ pc' = [pc EXCEPT ![c] = "bucket"] /\ UNCHANGED wait
    BY <1>3, <2>3 DEF PassGate
  <2>4. QED
    BY <1>3, <2>1, <2>2, <2>3 DEF PassGate
<1>4. ASSUME NEW c \in Calls, Wake(c) PROVE TypeOK'
  BY <1>4 DEF Wake
<1>5. ASSUME NEW c \in Calls, Lock(c) PROVE TypeOK'
  BY <1>5 DEF Lock
<1>6. ASSUME NEW c \in Calls, Request(c) PROVE TypeOK'
  BY <1>6, SlotsType DEF Request, Stamped
<1>7. ASSUME NEW c \in Calls, Succeed(c) PROVE TypeOK'
  BY <1>7 DEF Succeed
<1>8. ASSUME NEW c \in Calls, Refuse(c) PROVE TypeOK'
  BY <1>8 DEF Refuse
<1>9. ASSUME NEW c \in Calls, Overload(c) PROVE TypeOK'
  <2>1. PICK time \in Pauses(c) :
          gate' = time /\ wait' = [wait EXCEPT ![c] = time] /\ rest' = [rest EXCEPT ![route[c]] = time]
    BY <1>9 DEF Overload
  <2>2. tries[c] \in {1, 2, 3}
    BY <1>9 DEF Overload
  <2>3. Pauses(c) \subseteq Nat
    <3>1. Window * 1 \in Nat /\ Window * 2 \in Nat /\ Window * 4 \in Nat
      OBVIOUS
    <3>2. <<1, 2, 4>>[tries[c]] \in {1, 2, 4}
      BY <2>2
    <3>3. QED
      BY <3>1, <3>2 DEF Pauses
  <2>4. QED
    BY <1>9, <2>1, <2>3 DEF Overload
<1>10. ASSUME NEW c \in Calls, Retry(c) PROVE TypeOK'
  <2>1. tries[c] + 1 \in 1 .. 3
    <3>1. tries[c] \in 0 .. 3
      OBVIOUS
    <3>2. tries[c] < 3
      BY <1>10 DEF Retry
    <3>3. QED
      BY ONLY <3>1, <3>2
  <2>2. pc' = [pc EXCEPT ![c] = "request"] /\ tries' = [tries EXCEPT ![c] = tries[c] + 1]
    BY <1>10 DEF Retry
  <2>3. tries' \in [Calls -> 0 .. 3] /\ \A d \in Calls : tries'[d] > 0 \/ tries'[d] = tries[d]
    BY <2>1, <2>2
  <2>4. \A d \in Calls : pc'[d] \in {"request", "backoff"} => tries'[d] > 0
    BY <2>1, <2>2
  <2>5. QED
    BY <1>10, <2>2, <2>3, <2>4 DEF Retry
<1>11. CASE Tick
  BY <1>11 DEF Tick, Less
<1>12. CASE UNCHANGED vars
  BY <1>12 DEF vars
<1>13. ASSUME NEW c \in Calls, GiveUp(c) PROVE TypeOK'
  BY <1>13 DEF GiveUp
<1>14. QED
  BY <1>1, <1>2, <1>3, <1>4, <1>5, <1>6, <1>7, <1>8, <1>9, <1>10, <1>11, <1>12, <1>13 DEF Next, Step

LEMMA StepStamped ==
  ASSUME IInv, [Next]_vars
  PROVE  Stamped'
<1> USE RateLimiterAssumption DEF IInv, TypeOK, Long
<1>1. ASSUME NEW c \in Calls, Request(c) PROVE Stamped'
  <2> DEFINE s == Slots(stamps)
  <2>1. s \in Seq(Calls) /\ Len(s) < Max
    BY <1>1, SlotsType DEF Stamped, Request
  <2>2. stamps' = Append(s, c) /\ age' = [age EXCEPT ![c] = 0]
    BY <1>1 DEF Request
  <2>3. /\ Len(stamps') = Len(s) + 1 /\ stamps'[Len(s) + 1] = c
        /\ \A i \in 1 .. Len(s) : stamps'[i] = s[i]
    BY <2>1, <2>2
  <2>4. ASSUME NEW d \in Calls, age'[d] <= Window, d # c
        PROVE  \E i \in 1 .. Len(s) : s[i] = d
    BY <2>2, <2>4, SlotsKept
  <2>5. QED
    <3>1. Len(s) \in Nat
      BY <2>1
    <3> HIDE DEF s
    <3>2. Len(stamps') <= Max
      BY <2>1, <2>3, <3>1
    <3>3. ASSUME NEW d \in Calls, age'[d] <= Window
          PROVE  \E i \in 1 .. Len(stamps') : stamps'[i] = d
      <4>1. CASE d = c
        <5>1. Len(s) + 1 \in 1 .. Len(stamps')
          BY <2>3, <3>1
        <5>2. QED
          BY <2>3, <4>1, <5>1
      <4>2. CASE d # c
        <5>1. PICK i \in 1 .. Len(s) : s[i] = d
          BY <2>4, <3>3, <4>2
        <5>2. i \in 1 .. Len(stamps') /\ stamps'[i] = d
          BY <2>3, <3>1, <5>1
        <5>3. QED
          BY <5>2
      <4>3. QED
        BY <4>1, <4>2
    <3>4. QED
      BY <3>2, <3>3 DEF Stamped
<1>2. CASE Tick
  <2>1. \A d \in Calls : age'[d] <= Window => age[d] <= Window
    BY <1>2 DEF Tick
  <2>2. UNCHANGED stamps
    BY <1>2 DEF Tick
  <2>3. QED
    BY <2>1, <2>2 DEF Stamped
<1>3. CASE UNCHANGED <<stamps, age>>
  BY <1>3 DEF Stamped
<1>4. QED
  BY <1>1, <1>2, <1>3
     DEF Next, Step, Call, Enter, PassGate, Wake, Lock, Succeed, Refuse, Overload, Retry, GiveUp, vars

LEMMA StepResting ==
  ASSUME IInv, [Next]_vars
  PROVE  Resting'
<1> USE RateLimiterAssumption DEF IInv, TypeOK, Resting, At, On, Locked, Go
<1>1. ASSUME NEW c \in Calls, NEW r \in Routes, Call(c, r) PROVE Resting'
  BY <1>1 DEF Call
<1>2. ASSUME NEW c \in Calls, Enter(c) PROVE Resting'
  BY <1>2 DEF Enter
<1>3. ASSUME NEW c \in Calls, PassGate(c) PROVE Resting'
  <2>1. CASE gate > 0 /\ pc' = [pc EXCEPT ![c] = "asleep"] /\ wait' = [wait EXCEPT ![c] = gate]
    BY <1>3, <2>1 DEF PassGate
  <2>2. CASE gate = 0 /\ pc' = [pc EXCEPT ![c] = "asleep"] /\ UNCHANGED wait
    BY <1>3, <2>2 DEF PassGate
  <2>3. CASE gate = 0 /\ pc' = [pc EXCEPT ![c] = "bucket"] /\ UNCHANGED wait
    BY <1>3, <2>3 DEF PassGate
  <2>4. QED
    BY <1>3, <2>1, <2>2, <2>3 DEF PassGate
<1>4. ASSUME NEW c \in Calls, Wake(c) PROVE Resting'
  BY <1>4 DEF Wake
<1>5. ASSUME NEW c \in Calls, Lock(c) PROVE Resting'
  BY <1>5 DEF Lock
<1>6. ASSUME NEW c \in Calls, Request(c) PROVE Resting'
  BY <1>6 DEF Request
<1>7. ASSUME NEW c \in Calls, Succeed(c) PROVE Resting'
  BY <1>7 DEF Succeed
<1>8. ASSUME NEW c \in Calls, Refuse(c) PROVE Resting'
  BY <1>8 DEF Refuse
<1>9. ASSUME NEW c \in Calls, Overload(c) PROVE Resting'
  <2>1. PICK time \in Pauses(c) :
          wait' = [wait EXCEPT ![c] = time] /\ rest' = [rest EXCEPT ![route[c]] = time]
    BY <1>9 DEF Overload
  <2>2. pc[c] = "request" /\ pc' = [pc EXCEPT ![c] = "backoff"] /\ UNCHANGED <<route, reset>>
    BY <1>9 DEF Overload
  <2>3. time \in Nat
    BY <1>9, <2>1, StepType DEF Overload
  <2>4. ASSUME NEW d \in Calls, pc'[d] \in {"rate", "backoff"} PROVE rest'[route'[d]] <= wait'[d]
    <3>1. CASE d = c
      BY <2>1, <2>2, <2>3, <3>1
    <3>2. CASE d # c
      <4>1. pc[d] \in {"rate", "backoff"} /\ route[d] # route[c]
        BY <2>2, <2>4, <3>2
      <4>2. QED
        BY <2>1, <2>2, <3>2, <4>1
    <3>3. QED
      BY <3>1, <3>2
  <2>5. QED
    BY <2>1, <2>2, <2>4
<1>10. ASSUME NEW c \in Calls, Retry(c) PROVE Resting'
  BY <1>10 DEF Retry
<1>11. CASE Tick
  <2>1. UNCHANGED <<pc, route>>
    BY <1>11 DEF Tick
  <2>2. \A r \in Routes : rest'[r] = Less(rest[r]) /\ reset'[r] = Less(reset[r])
    BY <1>11 DEF Tick
  <2>3. \A c \in Calls : wait'[c] = Less(wait[c])
    BY <1>11 DEF Tick
  <2>4. \A m, n \in Nat : m <= n => Less(m) <= Less(n)
    BY DEF Less
  <2>5. Less(0) = 0
    BY DEF Less
  <2>6. \A r \in Routes : (\A c \in Calls : pc'[c] \in Locked => route'[c] # r) => rest'[r] <= reset'[r]
    <3>1. SUFFICES ASSUME NEW r \in Routes, \A c \in Calls : pc'[c] \in Locked => route'[c] # r
                   PROVE  rest'[r] <= reset'[r]
      OBVIOUS
    <3>2. \A c \in Calls : pc[c] \in Locked => route[c] # r
      BY <2>1, <3>1
    <3>3. rest[r] \in Nat /\ reset[r] \in Nat /\ rest[r] <= reset[r]
      BY <3>2
    <3>4. QED
      BY <2>2, <2>4, <3>3
  <2>7. \A c \in Calls : pc'[c] \in {"rate", "backoff"} => rest'[route'[c]] <= wait'[c]
    <3>1. SUFFICES ASSUME NEW c \in Calls, pc'[c] \in {"rate", "backoff"} PROVE rest'[route'[c]] <= wait'[c]
      OBVIOUS
    <3>2. pc[c] \in {"rate", "backoff"} /\ route'[c] = route[c]
      BY <2>1, <3>1
    <3>3. route[c] \in Routes
      BY <3>2
    <3>4. rest[route[c]] \in Nat /\ wait[c] \in Nat /\ rest[route[c]] <= wait[c]
      BY <3>2, <3>3
    <3>5. QED
      BY <2>2, <2>3, <2>4, <3>2, <3>3, <3>4
  <2>8. \A c \in Calls : pc'[c] = "request" => rest'[route'[c]] = 0
    BY <2>1, <2>2, <2>5
  <2>9. QED
    BY <2>1, <2>6, <2>7, <2>8
<1>12. CASE UNCHANGED vars
  BY <1>12 DEF vars
<1>13. ASSUME NEW c \in Calls, GiveUp(c) PROVE Resting'
  BY <1>13 DEF GiveUp
<1>14. QED
  BY <1>1, <1>2, <1>3, <1>4, <1>5, <1>6, <1>7, <1>8, <1>9, <1>10, <1>11, <1>12, <1>13 DEF Next, Step

LEMMA StepGated ==
  ASSUME IInv, [Next]_vars
  PROVE  Gated'
<1> USE RateLimiterAssumption DEF IInv, TypeOK, Gated, At, Inside, Go
<1>1. ASSUME NEW c \in Calls, PassGate(c) PROVE Gated'
  BY <1>1 DEF PassGate
<1>2. ASSUME NEW c \in Calls, Overload(c) PROVE Gated'
  BY <1>2 DEF Overload
<1>3. ASSUME NEW c \in Calls, Step(c), ~PassGate(c), ~Overload(c) PROVE Gated'
  BY <1>3 DEF Step, Enter, Wake, Lock, Request, Succeed, Refuse, Retry, GiveUp
<1>4. ASSUME NEW c \in Calls, NEW r \in Routes, Call(c, r) PROVE Gated'
  BY <1>4 DEF Call
<1>5. CASE Tick
  BY <1>5 DEF Tick, Less
<1>6. CASE UNCHANGED vars
  BY <1>6 DEF vars
<1>7. QED
  BY <1>1, <1>2, <1>3, <1>4, <1>5, <1>6 DEF Next

\* Stamped bounds the recent requests by the timestamps.
LEMMA StampedWindow ==
  ASSUME TypeOK, Stamped
  PROVE  WindowHolds
<1> USE RateLimiterAssumption DEF TypeOK, Stamped
<1> DEFINE recent == {c \in Calls : age[c] <= Window}
           places == {i \in 1 .. Len(stamps) : stamps[i] \in recent}
           f == [i \in places |-> stamps[i]]
<1>1. f \in Surjection(places, recent)
  BY DEF Surjection
<1>2. /\ IsFiniteSet(1 .. Len(stamps))
      /\ Cardinality(1 .. Len(stamps)) = Len(stamps)
  <2>1. Len(stamps) \in Nat
    OBVIOUS
  <2>2. \A n \in Nat : IsFiniteSet(1 .. n) /\ Cardinality(1 .. n) = n
    <3>1. SUFFICES ASSUME NEW n \in Nat PROVE IsFiniteSet(1 .. n) /\ Cardinality(1 .. n) = n
      OBVIOUS
    <3>2. 1 \in Int /\ n \in Int
      OBVIOUS
    <3>3. IsFiniteSet(1 .. n) /\ Cardinality(1 .. n) = IF 1 > n THEN 0 ELSE n - 1 + 1
      BY ONLY <3>2, FS_Interval, Zenon
    <3>4. QED
      BY <3>3
  <2>3. QED
    BY <2>1, <2>2
<1>3. places \subseteq 1 .. Len(stamps)
  OBVIOUS
<1> HIDE DEF recent, places
<1>4. IsFiniteSet(places) /\ Cardinality(places) <= Len(stamps)
  BY <1>2, <1>3, FS_Subset
<1>5. IsFiniteSet(recent) /\ Cardinality(recent) <= Cardinality(places)
  BY <1>1, <1>4, FS_Surjection DEF ExistsSurjection
<1>6. Cardinality(recent) \in Nat /\ Cardinality(places) \in Nat
  BY <1>4, <1>5, FS_CardinalityType
<1>7. Cardinality(recent) <= Max
  BY <1>4, <1>5, <1>6
<1>8. QED
  BY <1>7 DEF recent, WindowHolds

LEMMA InitIInv == Init => IInv
<1> USE RateLimiterAssumption
    DEF Init, IInv, TypeOK, Stamped, Resting, Gated, At, On, Inside, Locked, Long
<1> SUFFICES ASSUME Init PROVE IInv
  OBVIOUS
<1> QED
  OBVIOUS

\* The inductive invariant of the queue.
LEMMA Invariant == Spec => []IInv
<1>1. IInv /\ [Next]_vars => IInv'
  BY StepType, StepStamped, StepResting, StepGated DEF IInv
<1>2. QED
  BY InitIInv, <1>1, PTL DEF Spec

-----------------------------------------------------------------------------
(* The theorems                                                            *)

\* The types; no call makes more than three requests.
THEOREM TypeCorrect == Spec => []TypeOK
<1>1. IInv => TypeOK
  BY DEF IInv
<1>2. QED
  BY Invariant, <1>1, PTL

\* In no second more calls begin their requests than there are slots.
THEOREM WindowCorrect == Spec => []WindowHolds
<1>1. IInv => WindowHolds
  BY StampedWindow DEF IInv
<1>2. QED
  BY Invariant, <1>1, PTL

\* A route rests after each success and each overload.
THEOREM RestCorrect == Spec => RouteRests
<1>1. ASSUME IInv, [Next]_vars, NEW c \in Calls, Begins(c)
      PROVE  rest[route[c]] = 0
  <2> USE DEF IInv, TypeOK, Begins, Go
  <2>1. pc[c] \in {"rate", "backoff"} /\ wait[c] = 0
    BY <1>1 DEF Next, Step, Call, Enter, PassGate, Wake, Lock, Request, Succeed, Refuse, Overload, Retry, GiveUp, Tick, vars
  <2>2. rest[route[c]] <= 0 /\ route[c] \in Routes
    BY <1>1, <2>1 DEF Resting, At
  <2>3. QED
    BY <1>1, <2>2
<1>2. IInv /\ [Next]_vars => [\A c \in Calls : Begins(c) => rest[route[c]] = 0]_vars
  BY <1>1
<1>3. QED
  BY Invariant, <1>2, PTL DEF Spec, RouteRests

\* A closed gate lets only those begin that had passed it.
THEOREM GateCorrect == Spec => GateRespected
<1>1. ASSUME IInv, [Next]_vars, NEW c \in Calls, Begins(c), gate > 0
      PROVE  c \in exempt
  <2> USE DEF IInv, TypeOK, Begins, Go
  <2>1. pc[c] \in {"rate", "backoff"}
    BY <1>1 DEF Next, Step, Call, Enter, PassGate, Wake, Lock, Request, Succeed, Refuse, Overload, Retry, GiveUp, Tick, vars
  <2>2. QED
    BY <1>1, <2>1 DEF Gated, At, Inside
<1>2. IInv /\ [Next]_vars => [\A c \in Calls : Begins(c) /\ gate > 0 => c \in exempt]_vars
  BY <1>1
<1>3. QED
  BY Invariant, <1>2, PTL DEF Spec, GateRespected

-----------------------------------------------------------------------------
(* Places and locks                                                        *)

\* The calls that have a place of a route.
Busy(r) == On(r) \cap At(Inside \cup {"gate"})

\* max_concurrency: a call keeps its place through the gate, the delay and all of
\* its requests, and no route has more of them than places.
PlacesHold == \A r \in Routes : Cardinality(Busy(r)) <= Places[r]

\* The lock of the gate: one call sleeps, the others wait for it.
OneSleeps == \A c, d \in At({"asleep"}) : c = d

LEMMA BusyFinite == ASSUME NEW r PROVE IsFiniteSet(Busy(r)) /\ Cardinality(Busy(r)) \in Nat
<1>1. Busy(r) \subseteq Calls
  BY DEF Busy, On
<1>2. IsFiniteSet(Busy(r))
  BY <1>1, RateLimiterAssumption, FS_Subset
<1>3. QED
  BY <1>2, FS_CardinalityType

LEMMA StepPlaces ==
  ASSUME TypeOK, PlacesHold, [Next]_vars
  PROVE  PlacesHold'
<1> SUFFICES ASSUME NEW r \in Routes PROVE Cardinality(Busy(r)') <= Places[r]
  BY DEF PlacesHold
<1>a. Cardinality(Busy(r)) <= Places[r] /\ Places[r] \in Nat
  BY RateLimiterAssumption DEF PlacesHold
<1>b. ASSUME Busy(r)' \subseteq Busy(r) PROVE Cardinality(Busy(r)') <= Places[r]
  <2>1. Cardinality(Busy(r)') <= Cardinality(Busy(r)) /\ IsFiniteSet(Busy(r)')
    BY <1>b, BusyFinite, FS_Subset
  <2>2. Cardinality(Busy(r)') \in Nat /\ Cardinality(Busy(r)) \in Nat
    BY <2>1, BusyFinite, FS_CardinalityType
  <2>3. QED
    BY <1>a, <2>1, <2>2
<1>1. ASSUME NEW c \in Calls, Enter(c) PROVE Cardinality(Busy(r)') <= Places[r]
  <2>1. CASE route[c] = r
    <3>1. Cardinality(Busy(r)) < Places[r] /\ c \notin Busy(r)
      BY <1>1, <2>1 DEF Enter, Busy, At, Inside
    <3>2. Busy(r)' = Busy(r) \cup {c}
      BY <1>1, <2>1 DEF Enter, Busy, At, On, Inside, Go, TypeOK
    <3>3. Cardinality(Busy(r)') = Cardinality(Busy(r)) + 1
      BY <3>1, <3>2, BusyFinite, FS_AddElement
    <3>4. QED
      BY <1>a, <3>1, <3>3, BusyFinite
  <2>2. CASE route[c] # r
    <3>1. Busy(r)' \subseteq Busy(r)
      BY <1>1, <2>2 DEF Enter, Busy, At, On, Go, TypeOK
    <3>2. QED
      BY <1>b, <3>1
  <2>3. QED
    BY <2>1, <2>2
<1>2. ASSUME NEW c \in Calls, NEW q \in Routes, Call(c, q) PROVE Busy(r)' \subseteq Busy(r)
  BY <1>2 DEF Call, Busy, At, On, Inside, Go, TypeOK
<1>3. ASSUME NEW c \in Calls, Step(c), ~Enter(c) PROVE Busy(r)' \subseteq Busy(r)
  <2>1. pc[c] \in Inside \cup {"gate"} /\ UNCHANGED route
    BY <1>3 DEF Step, PassGate, Wake, Lock, Request, Succeed, Refuse, Overload, Retry, GiveUp, Inside
  <2>2. \A d \in Calls : d # c => pc'[d] = pc[d]
    BY <1>3 DEF Step, PassGate, Wake, Lock, Request, Succeed, Refuse, Overload, Retry, GiveUp, Go, TypeOK
  <2>3. QED
    BY <2>1, <2>2 DEF Busy, At, On
<1>4. ASSUME Tick \/ UNCHANGED vars PROVE Busy(r)' \subseteq Busy(r)
  <2>1. UNCHANGED <<pc, route>>
    BY <1>4 DEF Tick, vars
  <2>2. QED
    BY <2>1 DEF Busy, At, On
<1>5. QED
  BY <1>b, <1>1, <1>2, <1>3, <1>4 DEF Next

LEMMA StepSleeper ==
  ASSUME TypeOK, OneSleeps, [Next]_vars
  PROVE  OneSleeps'
<1> USE DEF TypeOK, OneSleeps, At, Go
<1>1. ASSUME NEW c \in Calls, PassGate(c) PROVE OneSleeps'
  BY <1>1 DEF PassGate
<1>2. ASSUME NEW c \in Calls, Step(c), ~PassGate(c) PROVE OneSleeps'
  BY <1>2 DEF Step, Enter, Wake, Lock, Request, Succeed, Refuse, Overload, Retry, GiveUp
<1>3. ASSUME NEW c \in Calls, NEW r \in Routes, Call(c, r) PROVE OneSleeps'
  BY <1>3 DEF Call
<1>4. CASE Tick \/ UNCHANGED vars
  BY <1>4 DEF Tick, vars
<1>5. QED
  BY <1>1, <1>2, <1>3, <1>4 DEF Next

\* No route ever has more calls under way than max_concurrency, retries and pauses
\* included, and no two calls sleep at the gate.
THEOREM PlacesCorrect == Spec => [](PlacesHold /\ OneSleeps)
<1>1. Init => PlacesHold /\ OneSleeps
  <2> SUFFICES ASSUME Init PROVE PlacesHold /\ OneSleeps
    OBVIOUS
  <2>1. \A r \in Routes : Busy(r) = {}
    BY DEF Init, Busy, At, Inside
  <2>2. \A r \in Routes : Cardinality(Busy(r)) = 0 /\ Places[r] \in Nat
    BY <2>1, FS_EmptySet, RateLimiterAssumption
  <2>3. QED
    BY <2>2 DEF PlacesHold, OneSleeps, Init, At
<1>2. IInv /\ PlacesHold /\ OneSleeps /\ [Next]_vars => (PlacesHold /\ OneSleeps)'
  BY StepPlaces, StepSleeper DEF IInv
<1>3. QED
  BY <1>1, <1>2, Invariant, PTL DEF Spec

\* A call that waits for no other call: for time or an answer, or for nothing.
Free(c) ==
  \/ pc[c] \in {"asleep", "rate", "request", "backoff"}
  \/ pc[c] = "place" /\ Cardinality(Busy(route[c])) < Places[route[c]]
  \/ pc[c] = "gate" /\ At({"asleep"}) = {}
  \/ pc[c] = "bucket" /\ On(route[c]) \cap At(Locked) = {}

\* Places, gate and locks are taken in one order: never do all calls that have not
\* returned wait for one another.
NoCircle == (\A c \in Calls : ~Free(c)) => \A c \in Calls : pc[c] \in {"idle", "done"}

\* The safety half of CallReturns.
THEOREM NeverDeadlocked == Spec => []NoCircle
<1>1. TypeOK => NoCircle
  <2> SUFFICES ASSUME TypeOK, \A c \in Calls : ~Free(c), NEW c \in Calls, pc[c] \notin {"idle", "done"}
               PROVE  FALSE
    BY DEF NoCircle
  <2>1. At(Locked) = {} /\ At({"asleep"}) = {}
    BY DEF Free, At, Locked
  <2>2. \A d \in Calls : pc[d] \notin {"gate", "bucket"} \cup {"asleep"} \cup Locked
    BY <2>1 DEF Free, At
  <2>3. pc[c] = "place" /\ route[c] \in Routes /\ Busy(route[c]) = {}
    BY <2>2 DEF TypeOK, Busy, At, Inside, Locked
  <2>4. Cardinality(Busy(route[c])) = 0 /\ Places[route[c]] \in Nat \ {0}
    BY <2>3, FS_EmptySet, RateLimiterAssumption
  <2>5. QED
    BY <2>3, <2>4 DEF Free
<1>2. QED
  BY <1>1, TypeCorrect, PTL
=============================================================================
