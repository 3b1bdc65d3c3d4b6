-------------------------- MODULE Statistics_proofs --------------------------
(***************************************************************************)
(* Proofs about the figures, for any number of tickets, messages,          *)
(* moderators, servers, types, weeks and spans.                            *)
(*                                                                         *)
(* Sums are cardinalities of sets of pairs, so that what is said of sums   *)
(* is proved by bijections: no induction is needed.                        *)
(***************************************************************************)
EXTENDS Statistics, FiniteSetTheorems, FunctionTheorems, TLAPS

-----------------------------------------------------------------------------
(* Sums                                                                    *)

\* The pairs that Total counts.
Units(F, S) == UNION {{x} \X (1 .. F[x]) : x \in S}

\* A bijection numbers the elements of a set.
LEMMA Numbering ==
  ASSUME NEW D, NEW R, NEW b \in Bijection(D, R)
  PROVE  /\ \A i \in D : b[i] \in R
         /\ \A i, j \in D : b[i] = b[j] => i = j
         /\ \A a \in R : \E i \in D : b[i] = a
<1>1. b \in [D -> R]
  BY Fun_BijectionProperties
<1>2. (\A i, j \in D : b[i] = b[j] => i = j) /\ \A a \in R : \E i \in D : b[i] = a
  BY Fun_BijectionProperties
<1>3. QED
  BY <1>1, <1>2

\* The sum of the sizes of disjoint parts is the size of the whole.
LEMMA SumOfParts ==
  ASSUME NEW S, NEW A, NEW T, IsFiniteSet(T),
         \A x \in S : A[x] \subseteq T,
         \A x, y \in S : x # y => A[x] \cap A[y] = {}
  PROVE  LET N == [x \in S |-> Cardinality(A[x])] IN
         Cardinality(Units(N, S)) = Cardinality(UNION {A[x] : x \in S})
<1> DEFINE N == [x \in S |-> Cardinality(A[x])]
           U == UNION {A[x] : x \in S}
           g == [x \in S |-> CHOOSE b : b \in Bijection(1 .. N[x], A[x])]
           h == [p \in Units(N, S) |-> g[p[1]][p[2]]]
<1>1. IsFiniteSet(U)
  <2>1. U \in SUBSET T
    OBVIOUS
  <2>2. QED
    BY <2>1, FS_Subset
<1>2. \A x \in S : g[x] \in Bijection(1 .. N[x], A[x])
  <2> SUFFICES ASSUME NEW x \in S PROVE g[x] \in Bijection(1 .. N[x], A[x])
    OBVIOUS
  <2>1. A[x] \in SUBSET T
    OBVIOUS
  <2>2. ExistsBijection(1 .. N[x], A[x])
    BY <2>1, FS_Subset, FS_CardinalityType
  <2>3. QED
    BY <2>2, Fun_ExistsBij
<1>3. \A p \in Units(N, S) : p[1] \in S /\ p[2] \in 1 .. N[p[1]] /\ p = <<p[1], p[2]>>
  BY DEF Units
<1>4. \A x \in S : \A i \in 1 .. N[x] : <<x, i>> \in Units(N, S)
  BY DEF Units
<1> HIDE DEF N, g
<1>5. \A x \in S : /\ \A i \in 1 .. N[x] : g[x][i] \in A[x]
                   /\ \A i, j \in 1 .. N[x] : g[x][i] = g[x][j] => i = j
                   /\ \A a \in A[x] : \E i \in 1 .. N[x] : g[x][i] = a
  <2> SUFFICES ASSUME NEW x \in S
               PROVE  /\ \A i \in 1 .. N[x] : g[x][i] \in A[x]
                      /\ \A i, j \in 1 .. N[x] : g[x][i] = g[x][j] => i = j
                      /\ \A a \in A[x] : \E i \in 1 .. N[x] : g[x][i] = a
    OBVIOUS
  <2> DEFINE D == 1 .. N[x]
             b == g[x]
             R == A[x]
  <2>1. b \in Bijection(D, R)
    BY <1>2
  <2> HIDE DEF D, b, R
  <2>2. /\ \A i \in D : b[i] \in R
        /\ \A i, j \in D : b[i] = b[j] => i = j
        /\ \A a \in R : \E i \in D : b[i] = a
    BY <2>1, Numbering
  <2>3. QED
    BY <2>2 DEF D, b, R
<1>6. \A p \in Units(N, S) : h[p] \in A[p[1]]
  <2> SUFFICES ASSUME NEW p \in Units(N, S) PROVE g[p[1]][p[2]] \in A[p[1]]
    OBVIOUS
  <2>1. QED
    BY <1>3, <1>5
<1>7. h \in [Units(N, S) -> U]
  <2>1. \A p \in Units(N, S) : h[p] \in U
    BY <1>3, <1>6
  <2>2. QED
    BY <2>1
<1>8. \A p, q \in Units(N, S) : h[p] = h[q] => p = q
  <2> SUFFICES ASSUME NEW p \in Units(N, S), NEW q \in Units(N, S), h[p] = h[q] PROVE p = q
    OBVIOUS
  <2>1. p[1] = q[1]
    BY <1>3, <1>6
  <2>2. p[2] = q[2]
    BY <1>3, <1>5, <2>1
  <2>3. QED
    BY <1>3, <2>1, <2>2
<1>9. \A u \in U : \E p \in Units(N, S) : h[p] = u
  <2> SUFFICES ASSUME NEW x \in S, NEW u \in A[x] PROVE \E p \in Units(N, S) : h[p] = u
    OBVIOUS
  <2>1. PICK i \in 1 .. N[x] : g[x][i] = u
    BY <1>5
  <2>2. <<x, i>> \in Units(N, S) /\ h[<<x, i>>] = u
    BY <1>4, <2>1
  <2>3. QED
    BY <2>2
<1>10. h \in Injection(Units(N, S), U) /\ h \in Surjection(Units(N, S), U)
  BY <1>7, <1>8, <1>9, Fun_IsInj, Fun_IsSurj
<1>11. Cardinality(Units(N, S)) = Cardinality(U)
  BY <1>1, <1>10, FS_Injection
<1>12. QED
  BY <1>11 DEF N

\* Things counted by a key are counted once.
LEMMA CountByKey ==
  ASSUME NEW T, IsFiniteSet(T), NEW S, NEW key, \A t \in T : key[t] \in S
  PROVE  LET N == [x \in S |-> Cardinality({t \in T : key[t] = x})] IN
         Cardinality(Units(N, S)) = Cardinality(T)
<1> DEFINE A == [x \in S |-> {t \in T : key[t] = x}]
           N == [x \in S |-> Cardinality(A[x])]
           M == [x \in S |-> Cardinality({t \in T : key[t] = x})]
<1>1. \A x \in S : A[x] \subseteq T
  OBVIOUS
<1>2. \A x, y \in S : x # y => A[x] \cap A[y] = {}
  OBVIOUS
<1>3. UNION {A[x] : x \in S} = T
  OBVIOUS
<1>4. N = M
  OBVIOUS
<1> HIDE DEF A
<1>5. Cardinality(Units(N, S)) = Cardinality(UNION {A[x] : x \in S})
  BY <1>1, <1>2, SumOfParts
<1>6. QED
  BY <1>3, <1>4, <1>5

\* There are finitely many units of finitely many numbers.
LEMMA UnitsFinite ==
  ASSUME NEW F, NEW S, IsFiniteSet(S), \A x \in S : F[x] \in Int
  PROVE  IsFiniteSet(Units(F, S)) /\ Cardinality(Units(F, S)) \in Nat
<1> DEFINE P(x) == {x} \X (1 .. F[x])
           M == {P(x) : x \in S}
           m == [x \in S |-> P(x)]
<1>1. m \in Surjection(S, M)
  <2>1. m \in [S -> M] /\ \A t \in M : \E x \in S : m[x] = t
    OBVIOUS
  <2>2. QED
    BY <2>1, Fun_IsSurj
<1>2. IsFiniteSet(M)
  BY <1>1, FS_Surjection
<1>3. \A t \in M : IsFiniteSet(t)
  <2> SUFFICES ASSUME NEW x \in S PROVE IsFiniteSet(P(x))
    OBVIOUS
  <2>1. IsFiniteSet({x})
    BY FS_Singleton
  <2>2. IsFiniteSet(1 .. F[x])
    <3>1. 1 \in Int /\ F[x] \in Int
      OBVIOUS
    <3>2. QED
      BY <3>1, FS_Interval
  <2>3. QED
    BY <2>1, <2>2, FS_Product
<1>4. IsFiniteSet(UNION M)
  BY <1>2, <1>3, FS_UNION
<1>5. QED
  BY <1>4, FS_CardinalityType DEF Units

\* The sum over disjoint sets, set by set, is the sum over all of them.
LEMMA SumOfSums ==
  ASSUME NEW S, NEW K, NEW C, NEW F, IsFiniteSet(K), \A c \in K : F[c] \in Int,
         \A x \in S : C[x] \subseteq K,
         \A x, y \in S : x # y => C[x] \cap C[y] = {}
  PROVE  LET N == [x \in S |-> Cardinality(Units(F, C[x]))] IN
         Cardinality(Units(N, S)) = Cardinality(Units(F, UNION {C[x] : x \in S}))
<1> DEFINE A == [x \in S |-> Units(F, C[x])]
           T == Units(F, K)
           N == [x \in S |-> Cardinality(Units(F, C[x]))]
           NA == [x \in S |-> Cardinality(A[x])]
<1>1. IsFiniteSet(T)
  BY UnitsFinite
<1>2. \A x \in S : A[x] \subseteq T
  BY DEF Units
<1>3. \A x, y \in S : x # y => A[x] \cap A[y] = {}
  <2> SUFFICES ASSUME NEW x \in S, NEW y \in S, NEW u \in A[x], u \in A[y] PROVE x = y
    OBVIOUS
  <2>1. u[1] \in C[x] /\ u[1] \in C[y]
    BY DEF Units
  <2>2. QED
    BY <2>1
<1>4. UNION {A[x] : x \in S} = Units(F, UNION {C[x] : x \in S})
  BY DEF Units
<1>5. NA = N
  OBVIOUS
<1> HIDE DEF A, T
<1>6. Cardinality(Units(NA, S)) = Cardinality(UNION {A[x] : x \in S})
  BY <1>1, <1>2, <1>3, SumOfParts
<1>7. QED
  BY <1>4, <1>5, <1>6

\* The same when the sets are told apart by a key.
LEMMA SumByKey ==
  ASSUME NEW K, IsFiniteSet(K), NEW F, \A c \in K : F[c] \in Int,
         NEW S, NEW key, \A c \in K : key[c] \in S
  PROVE  LET N == [x \in S |-> Cardinality(Units(F, {c \in K : key[c] = x}))] IN
         Cardinality(Units(N, S)) = Cardinality(Units(F, K))
<1> DEFINE C == [x \in S |-> {c \in K : key[c] = x}]
           N == [x \in S |-> Cardinality(Units(F, C[x]))]
           M == [x \in S |-> Cardinality(Units(F, {c \in K : key[c] = x}))]
<1>1. \A x \in S : C[x] \subseteq K
  OBVIOUS
<1>2. \A x, y \in S : x # y => C[x] \cap C[y] = {}
  OBVIOUS
<1>3. UNION {C[x] : x \in S} = K
  OBVIOUS
<1>4. N = M
  OBVIOUS
<1> HIDE DEF C
<1>5. Cardinality(Units(N, S)) = Cardinality(Units(F, UNION {C[x] : x \in S}))
  BY <1>1, <1>2, SumOfSums
<1>6. QED
  BY <1>3, <1>4, <1>5

\* A set of numbers has a smallest one.
LEMMA SmallestOf ==
  ASSUME NEW D \in SUBSET Nat, D # {}
  PROVE  \E n \in D : \A m \in D : n <= m
<1>1. PICK n \in D : \A m \in D : ~(<<m, n>> \in OpToRel(<, Nat))
  BY NatLessThanWellFounded, WFMin
<1>2. \A m \in D : ~(m < n)
  BY <1>1 DEF OpToRel
<1>3. QED
  BY <1>2

LEMMA MinOf ==
  ASSUME NEW D \in SUBSET Nat, D # {}
  PROVE  Min(D) \in D
BY SmallestOf DEF Min

\* Of things with numbers there is one with the least, and with a bound there
\* is one with the greatest.
LEMMA Extremes ==
  ASSUME NEW S, S # {}, NEW F, NEW b \in Nat, \A x \in S : F[x] \in 0 .. b
  PROVE  /\ \E x \in S : \A y \in S : F[x] <= F[y]
         /\ \E x \in S : \A y \in S : F[y] <= F[x]
<1>1. \E x \in S : \A y \in S : F[x] <= F[y]
  <2> DEFINE D == {F[x] : x \in S}
  <2>1. D \in SUBSET Nat /\ D # {}
    OBVIOUS
  <2>2. PICK n \in D : \A m \in D : n <= m
    BY <2>1, SmallestOf
  <2>3. QED
    BY <2>2
<1>2. \E x \in S : \A y \in S : F[y] <= F[x]
  <2> DEFINE D == {b - F[x] : x \in S}
  <2>1. D \in SUBSET Nat /\ D # {}
    OBVIOUS
  <2>2. PICK n \in D : \A m \in D : n <= m
    BY <2>1, SmallestOf
  <2>3. PICK x \in S : n = b - F[x]
    OBVIOUS
  <2>4. \A y \in S : b - F[x] <= b - F[y]
    BY <2>2, <2>3
  <2>5. QED
    BY <2>4
<1>3. QED
  BY <1>1, <1>2

\* Division by a positive number: the remainder is below it, and the quotient
\* grows with the dividend.
LEMMA Division ==
  ASSUME NEW d \in Nat \ {0}, NEW a \in Nat, NEW b \in Nat, a <= b
  PROVE  /\ a \div d \in 0 .. (b \div d)
         /\ a % d \in 0 .. d - 1
<1>1. /\ a \div d \in Int /\ a % d \in 0 .. d - 1 /\ a = d * (a \div d) + (a % d)
      /\ b \div d \in Int /\ b % d \in 0 .. d - 1 /\ b = d * (b \div d) + (b % d)
  OBVIOUS
<1> DEFINE p == a \div d
           q == b \div d
<1>2. p >= 0
  OBVIOUS
<1>3. p <= q
  <2> SUFFICES ASSUME p >= q + 1 PROVE FALSE
    BY <1>1
  <2>1. d * p >= d * q + d
    <3> HIDE DEF p, q
    <3>1. QED
      BY <1>1 DEF p, q
  <2>2. QED
    BY <1>1, <2>1
<1>4. QED
  BY <1>1, <1>2, <1>3

-----------------------------------------------------------------------------
(* Types                                                                   *)

\* A message has a ticket.
Placed == \A m \in Messages : messages[m] # None => tickets[messages[m].channel] # None

\* A ticket was opened in the past.
Begun == \A c \in Channels : tickets[c] # None => tickets[c].opened <= now

IInv == TypeOK /\ Placed /\ Begun

LEMMA InitTypes == Init => IInv
<1>1. 0 \in Dates
  BY StatisticsAssumption DEF Dates
<1>2. QED
  BY <1>1 DEF Init, IInv, TypeOK, Placed, Begun, Rows

LEMMA TypesKept ==
  ASSUME IInv, [Next]_vars
  PROVE  IInv'
<1> USE DEF IInv, Dates, Rows
<1>1. MaxTime \in Nat /\ None \notin Nat
  BY StatisticsAssumption
<1>2. ASSUME NEW c \in Channels, NEW s \in Servers, NEW t \in Types, Open(c, s, t) PROVE IInv'
  BY <1>1, <1>2 DEF TypeOK, Placed, Begun, Open, TicketRows
<1>3. ASSUME NEW c \in Channels, NEW closer \in Closers, Close(c, closer) PROVE IInv'
  <2>1. tickets[c] \in TicketRows
    BY <1>3 DEF TypeOK, Close
  <2>2. tickets' = [tickets EXCEPT ![c] = [@ EXCEPT !.closed = now, !.closer = closer]]
    BY <1>3, <2>1 DEF TypeOK, Close, TicketRows
  <2> DEFINE row == [tickets[c] EXCEPT !.closed = now, !.closer = closer]
  <2>3. /\ row.server = tickets[c].server /\ row.type = tickets[c].type
        /\ row.opened = tickets[c].opened /\ row.closed = now /\ row.closer = closer
        /\ row \in TicketRows /\ row # None
    <3>1. row = [tickets[c] EXCEPT !.closed = now, !.closer = closer] /\ now \in Dates
      BY DEF TypeOK
    <3>2. row \in TicketRows
      BY <2>1, <3>1 DEF TicketRows
    <3>3. /\ row.server = tickets[c].server /\ row.type = tickets[c].type
          /\ row.opened = tickets[c].opened /\ row.closed = now /\ row.closer = closer
      BY <2>1 DEF TicketRows
    <3>4. QED
      BY <3>2, <3>3, StatisticsAssumption
  <2>4. tickets' = [tickets EXCEPT ![c] = row]
    BY <2>2
  <2> HIDE DEF row
  <2>5. /\ now \in Nat /\ tickets[c] # None /\ tickets[c].opened <= now
        /\ UNCHANGED <<now, messages, types>>
    BY <1>1, <1>3 DEF TypeOK, Begun, Close
  <2>6. tickets' \in [Channels -> TicketRows \cup {None}]
    BY <2>3, <2>4 DEF TypeOK
  <2>7. \A d \in Channels : tickets'[d] = IF d = c THEN row ELSE tickets[d]
    BY <2>4 DEF TypeOK
  <2>8. closer # None
    BY StatisticsAssumption
  <2>9. \A d \in Rows(Servers)' : tickets'[d].closed # None =>
          tickets'[d].closer # None /\ tickets'[d].closed \in tickets'[d].opened .. now
    BY <1>1, <2>1, <2>3, <2>5, <2>7, <2>8 DEF TypeOK, Begun
  <2>10. \A d \in Channels : tickets[d] # None => tickets'[d].opened = tickets[d].opened
    BY <2>3, <2>7
  <2>11. \A m \in Messages : messages[m] # None =>
           messages[m].date \in tickets'[messages[m].channel].opened .. now
    BY <2>10 DEF TypeOK, Placed
  <2>12. TypeOK'
    BY <2>5, <2>6, <2>9, <2>11 DEF TypeOK
  <2>13. Begun'
    BY <2>3, <2>5, <2>7 DEF Begun
  <2>14. Placed'
    BY <2>3, <2>5, <2>7 DEF Placed, TypeOK
  <2>15. QED
    BY <2>12, <2>13, <2>14
<1>4. ASSUME NEW m \in Messages, NEW c \in Channels, NEW mod \in Mods,
             NEW kind \in {"Sent", "Discussion"}, Write(m, c, mod, kind)
      PROVE  IInv'
  BY <1>1, <1>4 DEF TypeOK, Placed, Begun, Write
<1>5. ASSUME NEW s \in Servers, NEW t \in Types, RemoveType(s, t) PROVE IInv'
  BY <1>5 DEF TypeOK, Placed, Begun, RemoveType
<1>6. CASE Tick
  BY <1>1, <1>6 DEF TypeOK, Placed, Begun, Tick, TicketRows
<1>7. CASE UNCHANGED vars
  BY <1>7 DEF TypeOK, Placed, Begun, vars
<1>8. QED
  BY <1>2, <1>3, <1>4, <1>5, <1>6, <1>7 DEF Next

LEMMA Inductive == Spec => []IInv
<1>1. QED
  BY InitTypes, TypesKept, PTL DEF Spec

\* Types, and the dates of the rows, in every state.
THEOREM TypeCorrect == Spec => []TypeOK
<1>1. IInv => TypeOK
  BY DEF IInv
<1>2. QED
  BY <1>1, Inductive, PTL

-----------------------------------------------------------------------------
(* What the rows are                                                       *)

LEMMA TicketFacts ==
  ASSUME IInv, NEW c \in Channels, tickets[c] # None
  PROVE  /\ tickets[c].server \in Servers /\ tickets[c].type \in Types
         /\ tickets[c].opened \in Nat /\ tickets[c].opened <= MaxTime
         /\ tickets[c].closed # None =>
              /\ tickets[c].closed \in Nat /\ tickets[c].closed <= MaxTime
              /\ tickets[c].opened <= tickets[c].closed
              /\ tickets[c].closer \in Closers
<1>1. tickets[c] \in TicketRows /\ c \in Rows(Servers)
  BY DEF IInv, TypeOK, TicketRows, Rows
<1>2. QED
  BY <1>1, StatisticsAssumption DEF IInv, TypeOK, TicketRows, Dates

LEMMA MessageFacts ==
  ASSUME IInv, NEW m \in Messages, messages[m] # None
  PROVE  /\ messages[m].channel \in Channels /\ tickets[messages[m].channel] # None
         /\ messages[m].author \in Mods /\ messages[m].kind \in {"Sent", "Discussion"}
         /\ messages[m].date \in Nat /\ messages[m].date <= MaxTime
BY StatisticsAssumption DEF IInv, TypeOK, Placed, Dates

\* What SQL selects from is finite, so that what it counts are numbers.
LEMMA FiniteTickets ==
  ASSUME NEW C, C \subseteq Channels
  PROVE  IsFiniteSet(C) /\ Cardinality(C) \in Nat /\ (Cardinality(C) = 0 <=> C = {})
BY StatisticsAssumption, FS_Subset, FS_CardinalityType, FS_EmptySet

LEMMA FiniteMessages ==
  ASSUME NEW M, M \subseteq Messages
  PROVE  IsFiniteSet(M) /\ Cardinality(M) \in Nat /\ (Cardinality(M) = 0 <=> M = {})
BY StatisticsAssumption, FS_Subset, FS_CardinalityType, FS_EmptySet

-----------------------------------------------------------------------------
(* The commands agree                                                      *)

LEMMA Agreement == IInv => CommandsAgree
<1> SUFFICES ASSUME IInv, NEW s \in Servers, NEW span \in Intervals
             PROVE  /\ \A mod \in Mods :
                         /\ RankClosed(s, mod, span) = ModActivity(s, mod, span).closed[1]
                         /\ RankSent(s, mod, span) = ModActivity(s, mod, span).sent[1]
                    /\ RankDuration(s, span) = ServerStats({s}, span).duration
                    /\ RankResponse(s, span) = ServerStats({s}, span).response
                    /\ RankOpen(s, None) = ServerStats({s}, span).open
                    /\ ClosedSince({s}, span) # {} =>
                         RankDuration(s, span)[1]
                           = Total(LAMBDA c : ClosingFigures(c)[1], ClosedSince({s}, span))
  BY DEF CommandsAgree
<1>1. ASSUME NEW mod \in Mods
      PROVE  RankClosed(s, mod, span) = ModActivity(s, mod, span).closed[1]
  BY DEF RankClosed, ModActivity, ClosedBy, Share
<1>2. ASSUME NEW mod \in Mods
      PROVE  RankSent(s, mod, span) = ModActivity(s, mod, span).sent[1]
  BY DEF RankSent, ModActivity, WrittenBy, Share
<1>3. RankDuration(s, span) = ServerStats({s}, span).duration
  BY DEF RankDuration, ServerStats
<1>4. RankResponse(s, span) = ServerStats({s}, span).response
  BY DEF RankResponse, ServerStats
<1>5. RankOpen(s, None) = ServerStats({s}, span).open
  <2>1. {c \in OpenIn({s}) : None = None \/ Since(tickets[c].closed, None)} = OpenIn({s})
    OBVIOUS
  <2>2. QED
    BY <2>1 DEF RankOpen, ServerStats
<1>6. ASSUME ClosedSince({s}, span) # {}
      PROVE  RankDuration(s, span)[1]
               = Total(LAMBDA c : ClosingFigures(c)[1], ClosedSince({s}, span))
  <2>1. RankDuration(s, span)[1] = Total(Duration, ClosedSince({s}, span))
    BY <1>6 DEF RankDuration, Average
  <2>2. \A c \in ClosedSince({s}, span) : ClosingFigures(c)[1] = Duration(c)
    BY DEF ClosingFigures, ClosedSince, ClosedIn, OpenIn
  <2>3. {{c} \X (1 .. ClosingFigures(c)[1]) : c \in ClosedSince({s}, span)}
          = {{c} \X (1 .. Duration(c)) : c \in ClosedSince({s}, span)}
    BY <2>2
  <2>4. QED
    BY <2>1, <2>3 DEF Total
<1>7. QED
  BY <1>1, <1>2, <1>3, <1>4, <1>5, <1>6

\* Commands that show the same figure show the same number.
THEOREM AgreeCorrect == Spec => []CommandsAgree
<1>1. QED
  BY Agreement, Inductive, PTL

-----------------------------------------------------------------------------
(* The parts add up                                                        *)

\* The closes of the moderators and of the timer are those of the server.
LEMMA ClosersAddUp ==
  ASSUME IInv, NEW s \in Servers, NEW mod \in Mods, NEW span \in Intervals
  PROVE  Total(LAMBDA closer : RankClosed(s, closer, span), Closers) = ModActivity(s, mod, span).closed[2]
<1> DEFINE T == ClosedSince({s}, span)
           key == [c \in Channels |-> tickets[c].closer]
           N == [closer \in Closers |-> Cardinality({c \in T : key[c] = closer})]
<1>1. \A c \in T : c \in Channels /\ key[c] \in Closers
  BY TicketFacts DEF ClosedSince, ClosedIn, OpenIn, Rows
<1>2. \A closer \in Closers : RankClosed(s, closer, span) = N[closer]
  <2> SUFFICES ASSUME NEW closer \in Closers PROVE RankClosed(s, closer, span) = N[closer]
    OBVIOUS
  <2>1. {c \in ClosedSince({s}, span) : tickets[c].closer = closer} = {c \in T : key[c] = closer}
    BY <1>1
  <2>2. QED
    BY <2>1 DEF RankClosed
<1>3. IsFiniteSet(T)
  BY <1>1, FiniteTickets
<1>4. ModActivity(s, mod, span).closed[2] = Cardinality(T)
  BY DEF ModActivity, Share
<1> HIDE DEF T, key
<1>5. Cardinality(Units(N, Closers)) = Cardinality(T)
  BY <1>1, <1>3, CountByKey
<1> HIDE DEF N
<1>6. {{closer} \X (1 .. RankClosed(s, closer, span)) : closer \in Closers}
        = {{closer} \X (1 .. N[closer]) : closer \in Closers}
  BY <1>2
<1>7. QED
  BY <1>4, <1>5, <1>6 DEF Total, Units

\* The replies and the comments of the moderators are those of the server.
LEMMA WritersAddUp ==
  ASSUME IInv, NEW s \in Servers, NEW mod \in Mods, NEW span \in Intervals, NEW f \in {"sent", "chats"}
  PROVE  Total(LAMBDA other : ModActivity(s, other, span)[f][1], Mods) = ModActivity(s, mod, span)[f][2]
<1> DEFINE kind == IF f = "sent" THEN "Sent" ELSE "Discussion"
           T == MessagesIn({s}, kind, span)
           key == [m \in Messages |-> messages[m].author]
           N == [other \in Mods |-> Cardinality({m \in T : key[m] = other})]
<1>1. \A m \in T : m \in Messages /\ key[m] \in Mods
  BY MessageFacts DEF MessagesIn, Written
<1>2. ASSUME NEW other \in Mods
      PROVE  ModActivity(s, other, span)[f] = <<N[other], Cardinality(T)>>
  <2>1. WrittenBy(T, other) = {m \in T : key[m] = other}
    BY <1>1 DEF WrittenBy
  <2>2. ModActivity(s, other, span)[f] = Share(WrittenBy(T, other), T)
    BY DEF ModActivity
  <2>3. QED
    BY <2>1, <2>2 DEF Share
<1>3. IsFiniteSet(T)
  BY <1>1, FiniteMessages
<1> HIDE DEF T, key, kind
<1>4. Cardinality(Units(N, Mods)) = Cardinality(T)
  BY <1>1, <1>3, CountByKey
<1> HIDE DEF N
<1>5. {{other} \X (1 .. ModActivity(s, other, span)[f][1]) : other \in Mods}
        = {{other} \X (1 .. N[other]) : other \in Mods}
  BY <1>2
<1>6. ModActivity(s, mod, span)[f][2] = Cardinality(T)
  BY <1>2
<1>7. QED
  BY <1>4, <1>5, <1>6 DEF Total, Units

\* The tickets of a server are part of those of all servers.
LEMMA ServersAddUp ==
  ASSUME IInv, NEW span \in Intervals
  PROVE  /\ Total(LAMBDA s : ServerStats({s}, span).open, Servers) = ServerStats(Servers, span).open
         /\ Total(LAMBDA s : ServerStats({s}, span).all, Servers) = ServerStats(Servers, span).all
<1> DEFINE key == [c \in Channels |-> tickets[c].server]
<1>1. \A c \in Rows(Servers) : c \in Channels /\ key[c] \in Servers
  BY TicketFacts DEF Rows
<1>2. /\ \A s \in Servers : Rows({s}) = {c \in Rows(Servers) : key[c] = s}
      /\ \A s \in Servers : OpenIn({s}) = {c \in OpenIn(Servers) : key[c] = s}
  BY DEF Rows, OpenIn
<1>3. OpenIn(Servers) \subseteq Rows(Servers)
  BY DEF OpenIn
<1>4. IsFiniteSet(Rows(Servers)) /\ IsFiniteSet(OpenIn(Servers))
  BY <1>1, <1>3, FiniteTickets
<1> HIDE DEF key
<1>5. Total(LAMBDA s : ServerStats({s}, span).open, Servers) = ServerStats(Servers, span).open
  <2> DEFINE N == [s \in Servers |-> Cardinality({c \in OpenIn(Servers) : key[c] = s})]
  <2>1. Cardinality(Units(N, Servers)) = Cardinality(OpenIn(Servers))
    BY <1>1, <1>3, <1>4, CountByKey
  <2>2. \A s \in Servers : ServerStats({s}, span).open = N[s]
    BY <1>2 DEF ServerStats
  <2> HIDE DEF N
  <2>3. {{s} \X (1 .. ServerStats({s}, span).open) : s \in Servers} = {{s} \X (1 .. N[s]) : s \in Servers}
    BY <2>2
  <2>4. QED
    BY <2>1, <2>3 DEF Total, Units, ServerStats
<1>6. Total(LAMBDA s : ServerStats({s}, span).all, Servers) = ServerStats(Servers, span).all
  <2> DEFINE N == [s \in Servers |-> Cardinality({c \in Rows(Servers) : key[c] = s})]
  <2>1. Cardinality(Units(N, Servers)) = Cardinality(Rows(Servers))
    BY <1>1, <1>4, CountByKey
  <2>2. \A s \in Servers : ServerStats({s}, span).all = N[s]
    BY <1>2 DEF ServerStats
  <2> HIDE DEF N
  <2>3. {{s} \X (1 .. ServerStats({s}, span).all) : s \in Servers} = {{s} \X (1 .. N[s]) : s \in Servers}
    BY <2>2
  <2>4. QED
    BY <2>1, <2>3 DEF Total, Units, ServerStats
<1>7. QED
  BY <1>5, <1>6

\* A server that is not shown its open tickets has none.
LEMMA NothingHidden ==
  ASSUME IInv, NEW s \in Servers, NEW span \in Intervals,
         Shown(ServerStats({s}, span).open, ServerStats(Servers, span).open) = None
  PROVE  OpenIn({s}) = {}
<1>1. OpenIn({s}) \subseteq OpenIn(Servers) /\ OpenIn(Servers) \subseteq Channels
  BY DEF OpenIn, Rows
<1>2. /\ Cardinality(OpenIn({s})) \in Nat
      /\ Cardinality(OpenIn(Servers)) = 0 <=> OpenIn(Servers) = {}
  BY <1>1, FiniteTickets
<1>3. Shown(Cardinality(OpenIn({s})), Cardinality(OpenIn(Servers))) = None
  BY DEF ServerStats
<1>4. Cardinality(OpenIn({s})) # None
  BY <1>2, StatisticsAssumption
<1>5. QED
  BY <1>1, <1>2, <1>3, <1>4 DEF Shown

LEMMA PartsHold == IInv => PartsAddUp
<1> SUFFICES ASSUME IInv PROVE PartsAddUp
  OBVIOUS
<1>1. ASSUME NEW span \in Intervals, NEW f \in {"open", "all"}
      PROVE  Total(LAMBDA s : ServerStats({s}, span)[f], Servers) = ServerStats(Servers, span)[f]
  <2>1. CASE f = "open"
    <3>1. {{s} \X (1 .. ServerStats({s}, span)[f]) : s \in Servers}
            = {{s} \X (1 .. ServerStats({s}, span).open) : s \in Servers}
      BY <2>1
    <3>2. QED
      BY <2>1, <3>1, ServersAddUp DEF Total
  <2>2. CASE f = "all"
    <3>1. {{s} \X (1 .. ServerStats({s}, span)[f]) : s \in Servers}
            = {{s} \X (1 .. ServerStats({s}, span).all) : s \in Servers}
      BY <2>2
    <3>2. QED
      BY <2>2, <3>1, ServersAddUp DEF Total
  <2>3. QED
    BY <2>1, <2>2
<1>2. QED
  BY <1>1, ClosersAddUp, WritersAddUp, NothingHidden DEF PartsAddUp

\* What is shown of the parts adds up to what is shown of the whole.
THEOREM PartsCorrect == Spec => []PartsAddUp
<1>1. QED
  BY PartsHold, Inductive, PTL

-----------------------------------------------------------------------------
(* The weeks add up                                                        *)

Durations == [c \in Channels |-> Duration(c)]
Responses == [c \in Channels |-> Response(c)]
Sizes == [c \in Channels |-> Size(c)]

LEMMA DurationType ==
  ASSUME IInv, NEW c \in ClosedIn(Servers)
  PROVE  c \in Channels /\ Durations[c] \in Int
<1>1. c \in Channels /\ tickets[c] # None /\ tickets[c].closed # None
  BY DEF ClosedIn, OpenIn, Rows
<1>2. QED
  BY <1>1, TicketFacts DEF Durations, Duration

LEMMA ResponseType ==
  ASSUME IInv, NEW c \in Answered(Rows(Servers))
  PROVE  c \in Channels /\ Responses[c] \in Int
<1> DEFINE D == {messages[m].date : m \in {n \in Written("Sent") : messages[n].channel = c}}
<1>1. c \in Channels /\ tickets[c] # None /\ D # {}
  BY DEF Answered, Rows
<1>2. D \in SUBSET Nat
  BY MessageFacts DEF Written
<1> HIDE DEF D
<1>3. Min(D) \in Nat
  BY <1>1, <1>2, MinOf
<1>4. FirstReply(c) \in Nat
  BY <1>3 DEF D, FirstReply
<1>5. QED
  BY <1>1, <1>4, TicketFacts DEF Responses, Response

LEMMA SizeType ==
  ASSUME NEW c \in Channels
  PROVE  Sizes[c] \in Int
<1>1. Conversation(c) \subseteq Messages
  BY DEF Conversation
<1>2. QED
  BY <1>1, FiniteMessages DEF Sizes, Size

\* The sum of an average is the sum of what it is the average of.
LEMMA SumOf ==
  ASSUME NEW C, C \subseteq Channels, NEW F, \A c \in C : F[c] \in Int
  PROVE  Sum(IF C = {} THEN None ELSE <<Cardinality(Units(F, C)), Cardinality(C)>>) = Cardinality(Units(F, C))
<1>1. CASE C = {}
  <2>1. Units(F, C) = {}
    BY <1>1 DEF Units
  <2>2. QED
    BY <1>1, <2>1, FS_EmptySet DEF Sum
<1>2. CASE C # {}
  <2>1. IsFiniteSet(C) /\ Cardinality(C) \in Nat
    BY FiniteTickets
  <2>2. Cardinality(Units(F, C)) \in Nat
    BY <2>1, UnitsFinite
  <2>3. <<Cardinality(Units(F, C)), Cardinality(C)>> # None
    BY <2>1, <2>2, StatisticsAssumption
  <2>4. QED
    BY <1>2, <2>3 DEF Sum
<1>3. QED
  BY <1>1, <1>2

LEMMA SumOfDurations ==
  ASSUME IInv, NEW C, C \subseteq ClosedIn(Servers)
  PROVE  Sum(Average(Duration, C)) = Cardinality(Units(Durations, C))
<1>1. C \subseteq Channels /\ \A c \in C : Durations[c] \in Int
  BY DurationType
<1>2. {{c} \X (1 .. Duration(c)) : c \in C} = {{c} \X (1 .. Durations[c]) : c \in C}
  BY <1>1 DEF Durations
<1>3. Average(Duration, C) = IF C = {} THEN None ELSE <<Cardinality(Units(Durations, C)), Cardinality(C)>>
  BY <1>2 DEF Average, Total, Units
<1>4. QED
  BY <1>1, <1>3, SumOf

LEMMA SumOfResponses ==
  ASSUME IInv, NEW C, C \subseteq Answered(Rows(Servers))
  PROVE  Sum(Average(Response, C)) = Cardinality(Units(Responses, C))
<1>1. C \subseteq Channels /\ \A c \in C : Responses[c] \in Int
  BY ResponseType
<1>2. {{c} \X (1 .. Response(c)) : c \in C} = {{c} \X (1 .. Responses[c]) : c \in C}
  BY <1>1 DEF Responses
<1>3. Average(Response, C) = IF C = {} THEN None ELSE <<Cardinality(Units(Responses, C)), Cardinality(C)>>
  BY <1>2 DEF Average, Total, Units
<1>4. QED
  BY <1>1, <1>3, SumOf

LEMMA SumOfSizes ==
  ASSUME NEW C, C \subseteq Channels
  PROVE  Sum(Average(Size, C)) = Cardinality(Units(Sizes, C))
<1>1. \A c \in C : Sizes[c] \in Int
  BY SizeType
<1>2. {{c} \X (1 .. Size(c)) : c \in C} = {{c} \X (1 .. Sizes[c]) : c \in C}
  BY DEF Sizes
<1>3. Average(Size, C) = IF C = {} THEN None ELSE <<Cardinality(Units(Sizes, C)), Cardinality(C)>>
  BY <1>2 DEF Average, Total, Units
<1>4. QED
  BY <1>1, <1>3, SumOf

\* Every time falls into one week.
LEMMA WeekOf ==
  ASSUME NEW time \in Nat, time <= MaxTime
  PROVE  time \div Week \in Weeks
BY StatisticsAssumption, Division DEF Weeks

ClosingWeek == [c \in Channels |-> tickets[c].closed \div Week]
OpeningWeek == [c \in Channels |-> tickets[c].opened \div Week]

LEMMA WeeksOfTickets ==
  ASSUME IInv
  PROVE  /\ \A c \in ClosedIn(Servers) : c \in Channels /\ ClosingWeek[c] \in Weeks
         /\ \A c \in Rows(Servers) : c \in Channels /\ OpeningWeek[c] \in Weeks
         /\ \A S \in SUBSET Servers, w \in Weeks :
              /\ ClosedInWeek(S, w) = {c \in ClosedIn(S) : ClosingWeek[c] = w}
              /\ OpenedInWeek(S, w) = {c \in Rows(S) : OpeningWeek[c] = w}
<1>1. \A c \in ClosedIn(Servers) : c \in Channels /\ ClosingWeek[c] \in Weeks
  <2> SUFFICES ASSUME NEW c \in ClosedIn(Servers) PROVE c \in Channels /\ ClosingWeek[c] \in Weeks
    OBVIOUS
  <2>1. c \in Channels /\ tickets[c] # None /\ tickets[c].closed # None
    BY DEF ClosedIn, OpenIn, Rows
  <2>2. QED
    BY <2>1, TicketFacts, WeekOf DEF ClosingWeek
<1>2. \A c \in Rows(Servers) : c \in Channels /\ OpeningWeek[c] \in Weeks
  <2> SUFFICES ASSUME NEW c \in Rows(Servers) PROVE c \in Channels /\ OpeningWeek[c] \in Weeks
    OBVIOUS
  <2>1. c \in Channels /\ tickets[c] # None
    BY DEF Rows
  <2>2. QED
    BY <2>1, TicketFacts, WeekOf DEF OpeningWeek
<1>3. ASSUME NEW S \in SUBSET Servers, NEW w \in Weeks
      PROVE  ClosedInWeek(S, w) = {c \in ClosedIn(S) : ClosingWeek[c] = w}
  BY DEF ClosedInWeek, InWeek, ClosedIn, OpenIn, Rows, ClosingWeek
<1>4. ASSUME NEW S \in SUBSET Servers, NEW w \in Weeks
      PROVE  OpenedInWeek(S, w) = {c \in Rows(S) : OpeningWeek[c] = w}
  <2>1. \A c \in Rows(S) : c \in Channels /\ tickets[c].opened # None
    BY TicketFacts, StatisticsAssumption DEF Rows
  <2>2. QED
    BY <2>1 DEF OpenedInWeek, InWeek, OpeningWeek
<1>5. QED
  BY <1>1, <1>2, <1>3, <1>4

\* What was opened in a week is still open or closed.
LEMMA OpenedSplit ==
  ASSUME NEW s \in Servers, NEW w \in Weeks
  PROVE  Cardinality(OpenedInWeek({s}, w)) = StillOpen({s}, w) + ClosedFrom({s}, w)
<1> DEFINE A == OpenedInWeek({s}, w) \cap OpenIn({s})
           B == OpenedInWeek({s}, w) \cap ClosedIn({s})
<1>1. /\ A \subseteq Channels /\ B \subseteq Channels
      /\ A \cap B = {} /\ A \cup B = OpenedInWeek({s}, w)
  BY DEF OpenedInWeek, OpenIn, ClosedIn, Rows
<1>2. IsFiniteSet(A) /\ IsFiniteSet(B) /\ Cardinality(A) \in Nat /\ Cardinality(B) \in Nat
  BY <1>1, FiniteTickets
<1>3. Cardinality(A \cup B) = Cardinality(A) + Cardinality(B) - Cardinality(A \cap B)
  BY <1>2, FS_Union
<1>4. Cardinality(A \cap B) = 0
  BY <1>1, FS_EmptySet
<1>5. Cardinality(A \cup B) = Cardinality(A) + Cardinality(B)
  BY <1>2, <1>3, <1>4
<1>6. QED
  BY <1>1, <1>5 DEF StillOpen, ClosedFrom

\* The tickets of one server are among those of all.
LEMMA OneServer ==
  ASSUME NEW s \in Servers
  PROVE  /\ {s} \in SUBSET Servers
         /\ Rows({s}) \subseteq Rows(Servers) /\ Rows({s}) \subseteq Channels
         /\ ClosedIn({s}) \subseteq ClosedIn(Servers) /\ ClosedIn({s}) \subseteq Rows({s})
         /\ ClosedIn({s}) = Rows({s}) \cap ClosedIn(Servers)
         /\ ClosedSince({s}, None) = ClosedIn({s})
BY DEF ClosedSince, Since, ClosedIn, OpenIn, Rows

\* Each close falls into one week.
LEMMA ClosingsAddUp ==
  ASSUME IInv, NEW s \in Servers
  PROVE  Total(LAMBDA w : Cardinality(ClosedInWeek({s}, w)), Weeks) = Cardinality(ClosedIn({s}))
<1> DEFINE T == ClosedIn({s})
           key == ClosingWeek
           N == [w \in Weeks |-> Cardinality({c \in T : key[c] = w})]
<1>1. \A c \in T : c \in Channels /\ key[c] \in Weeks
  BY OneServer, WeeksOfTickets
<1>2. \A w \in Weeks : Cardinality(ClosedInWeek({s}, w)) = N[w]
  BY OneServer, WeeksOfTickets
<1>3. IsFiniteSet(T)
  BY <1>1, FiniteTickets
<1> HIDE DEF T, key
<1>4. Cardinality(Units(N, Weeks)) = Cardinality(T)
  BY <1>1, <1>3, CountByKey
<1> HIDE DEF N
<1>5. {{w} \X (1 .. Cardinality(ClosedInWeek({s}, w))) : w \in Weeks} = {{w} \X (1 .. N[w]) : w \in Weeks}
  BY <1>2
<1>6. QED
  BY <1>4, <1>5 DEF Total, Units, T

\* The durations of the weeks are the durations of all time.
LEMMA DurationsAddUp ==
  ASSUME IInv, NEW s \in Servers
  PROVE  Total(LAMBDA w : Sum(WeekDuration(Rows({s}), w)), Weeks) = Sum(RankDuration(s, None))
<1> DEFINE K == ClosedIn({s})
           key == ClosingWeek
           N == [w \in Weeks |-> Cardinality(Units(Durations, {c \in K : key[c] = w}))]
<1>1. \A c \in K : c \in ClosedIn(Servers) /\ c \in Channels /\ key[c] \in Weeks /\ Durations[c] \in Int
  BY OneServer, WeeksOfTickets, DurationType
<1>2. ASSUME NEW w \in Weeks PROVE Sum(WeekDuration(Rows({s}), w)) = N[w]
  <2>1. Rows({s}) \cap ClosedInWeek(Servers, w) = {c \in K : key[c] = w}
    BY OneServer, WeeksOfTickets
  <2>2. {c \in K : key[c] = w} \subseteq ClosedIn(Servers)
    BY <1>1
  <2>3. QED
    BY <2>1, <2>2, SumOfDurations DEF WeekDuration
<1>3. IsFiniteSet(K)
  BY <1>1, FiniteTickets
<1>4. Sum(RankDuration(s, None)) = Cardinality(Units(Durations, K))
  BY <1>1, OneServer, SumOfDurations DEF RankDuration
<1> HIDE DEF K, key
<1>5. Cardinality(Units(N, Weeks)) = Cardinality(Units(Durations, K))
  BY <1>1, <1>3, SumByKey
<1> HIDE DEF N
<1>6. {{w} \X (1 .. Sum(WeekDuration(Rows({s}), w))) : w \in Weeks} = {{w} \X (1 .. N[w]) : w \in Weeks}
  BY <1>2
<1>7. QED
  BY <1>4, <1>5, <1>6 DEF Total, Units

\* The messages per ticket of the weeks are those of all time.
LEMMA SizesAddUp ==
  ASSUME IInv, NEW s \in Servers
  PROVE  Total(LAMBDA w : Sum(WeekMessages({s}, w)), Weeks) = Sum(ServerStats({s}, None).messages)
<1> DEFINE K == {c \in ClosedIn({s}) : Conversation(c) # {}}
           key == ClosingWeek
           N == [w \in Weeks |-> Cardinality(Units(Sizes, {c \in K : key[c] = w}))]
<1>1. \A c \in K : c \in Channels /\ key[c] \in Weeks /\ Sizes[c] \in Int
  BY OneServer, WeeksOfTickets, SizeType
<1>2. ASSUME NEW w \in Weeks PROVE Sum(WeekMessages({s}, w)) = N[w]
  <2>1. {c \in ClosedInWeek({s}, w) : Conversation(c) # {}} = {c \in K : key[c] = w}
    BY OneServer, WeeksOfTickets
  <2>2. {c \in K : key[c] = w} \subseteq Channels
    BY <1>1
  <2>3. QED
    BY <2>1, <2>2, SumOfSizes DEF WeekMessages, MessagesPerTicket
<1>3. IsFiniteSet(K)
  BY <1>1, FiniteTickets
<1>4. Sum(ServerStats({s}, None).messages) = Cardinality(Units(Sizes, K))
  <2>1. ServerStats({s}, None).messages = Average(Size, K)
    BY OneServer DEF ServerStats, MessagesPerTicket
  <2>2. K \subseteq Channels
    BY <1>1
  <2>3. QED
    BY <2>1, <2>2, SumOfSizes
<1> HIDE DEF K, key
<1>5. Cardinality(Units(N, Weeks)) = Cardinality(Units(Sizes, K))
  BY <1>1, <1>3, SumByKey
<1> HIDE DEF N
<1>6. {{w} \X (1 .. Sum(WeekMessages({s}, w))) : w \in Weeks} = {{w} \X (1 .. N[w]) : w \in Weeks}
  BY <1>2
<1>7. QED
  BY <1>4, <1>5, <1>6 DEF Total, Units

\* The first replies of the weeks include those of all that was closed.
LEMMA ResponsesAddUp ==
  ASSUME IInv, NEW s \in Servers
  PROVE  Total(LAMBDA w : Sum(WeekResponse(Rows({s}), w)), Weeks) >= Sum(RankResponse(s, None))
<1> DEFINE K == Answered(Rows({s}))
           L == Answered(ClosedIn({s}))
           key == OpeningWeek
           N == [w \in Weeks |-> Cardinality(Units(Responses, {c \in K : key[c] = w}))]
<1>1. K \subseteq Rows({s}) /\ K \subseteq Answered(Rows(Servers)) /\ L \subseteq K
  BY OneServer DEF Answered
<1>2. \A c \in K : c \in Channels /\ key[c] \in Weeks /\ Responses[c] \in Int
  BY <1>1, OneServer, WeeksOfTickets, ResponseType
<1>3. ASSUME NEW w \in Weeks PROVE Sum(WeekResponse(Rows({s}), w)) = N[w]
  <2>1. Answered(Rows({s}) \cap OpenedInWeek(Servers, w)) = {c \in K : key[c] = w}
    <3>1. Rows({s}) \cap OpenedInWeek(Servers, w) = {c \in Rows({s}) : key[c] = w}
      BY OneServer, WeeksOfTickets
    <3>2. QED
      BY <3>1 DEF Answered
  <2>2. {c \in K : key[c] = w} \subseteq Answered(Rows(Servers))
    BY <1>1
  <2>3. QED
    BY <2>1, <2>2, SumOfResponses DEF WeekResponse
<1>4. IsFiniteSet(K)
  BY <1>2, FiniteTickets
<1>5. Sum(RankResponse(s, None)) = Cardinality(Units(Responses, L))
  BY <1>1, OneServer, SumOfResponses DEF RankResponse
<1> HIDE DEF K, L, key
<1>6. Cardinality(Units(N, Weeks)) = Cardinality(Units(Responses, K))
  BY <1>2, <1>4, SumByKey
<1> HIDE DEF N
<1>7. {{w} \X (1 .. Sum(WeekResponse(Rows({s}), w))) : w \in Weeks} = {{w} \X (1 .. N[w]) : w \in Weeks}
  BY <1>3
<1>8. Cardinality(Units(Responses, L)) <= Cardinality(Units(Responses, K))
  <2>1. IsFiniteSet(Units(Responses, K))
    BY <1>2, <1>4, UnitsFinite
  <2>2. Units(Responses, L) \in SUBSET Units(Responses, K)
    BY <1>1 DEF Units
  <2>3. QED
    BY <2>1, <2>2, FS_Subset
<1>9. Cardinality(Units(Responses, K)) \in Nat /\ Cardinality(Units(Responses, L)) \in Nat
  <2>1. IsFiniteSet(L) /\ \A c \in L : Responses[c] \in Int
    BY <1>1, <1>2, <1>4, FS_Subset
  <2>2. QED
    BY <1>2, <1>4, <2>1, UnitsFinite
<1>10. Total(LAMBDA w : Sum(WeekResponse(Rows({s}), w)), Weeks) = Cardinality(Units(Responses, K))
  BY <1>6, <1>7 DEF Total, Units
<1>11. QED
  BY <1>5, <1>8, <1>9, <1>10

-----------------------------------------------------------------------------
(* The moderators and the hours of a week                                  *)

\* A count of some tickets or messages is a number, which is 0 when there are none.
LEMMA Counted ==
  /\ \A C \in SUBSET Channels : Cardinality(C) \in Nat /\ (Cardinality(C) > 0 <=> C # {})
  /\ \A M \in SUBSET Messages : Cardinality(M) \in Nat /\ (Cardinality(M) > 0 <=> M # {})
<1>1. ASSUME NEW C \in SUBSET Channels
      PROVE  Cardinality(C) \in Nat /\ (Cardinality(C) > 0 <=> C # {})
  <2>1. Cardinality(C) \in Nat /\ (Cardinality(C) = 0 <=> C = {})
    BY FiniteTickets
  <2>2. QED
    BY <2>1
<1>2. ASSUME NEW M \in SUBSET Messages
      PROVE  Cardinality(M) \in Nat /\ (Cardinality(M) > 0 <=> M # {})
  <2>1. Cardinality(M) \in Nat /\ (Cardinality(M) = 0 <=> M = {})
    BY FiniteMessages
  <2>2. QED
    BY <2>1
<1>3. QED
  BY <1>1, <1>2

\* The messages of a server, of its weeks, and when they were written.
LEMMA MessagesOfWeeks ==
  ASSUME IInv, NEW s \in Servers
  PROVE  /\ \A kind \in {"Sent", "Discussion"} :
              /\ MessagesIn({s}, kind, None) \subseteq Messages
              /\ \A m \in MessagesIn({s}, kind, None) :
                   /\ messages[m].author \in Mods
                   /\ \E w \in Weeks : InWeek(w, messages[m].date)
         /\ \A kinds \in SUBSET {"Sent", "Discussion"}, w \in Weeks :
              /\ WrittenInWeek(s, kinds, w) \subseteq Messages
              /\ \A m \in WrittenInWeek(s, kinds, w) :
                   messages[m].author \in Mods /\ messages[m].date \in Nat
<1>1. ASSUME NEW kind \in {"Sent", "Discussion"}, NEW m \in MessagesIn({s}, kind, None)
      PROVE  /\ m \in Messages /\ messages[m].author \in Mods /\ messages[m].date \in Nat
             /\ \E w \in Weeks : InWeek(w, messages[m].date)
  <2>1. m \in Messages /\ messages[m] # None
    BY DEF MessagesIn, Written
  <2>2. messages[m].author \in Mods /\ messages[m].date \in Nat /\ messages[m].date <= MaxTime
    BY <2>1, MessageFacts
  <2>3. messages[m].date \div Week \in Weeks /\ messages[m].date # None
    BY <2>2, WeekOf, StatisticsAssumption
  <2>4. QED
    BY <2>1, <2>2, <2>3 DEF InWeek
<1>2. ASSUME NEW kinds \in SUBSET {"Sent", "Discussion"}, NEW w \in Weeks, NEW m \in WrittenInWeek(s, kinds, w)
      PROVE  \E kind \in {"Sent", "Discussion"} : m \in MessagesIn({s}, kind, None)
  BY DEF WrittenInWeek
<1>3. QED
  BY <1>1, <1>2

\* The tickets that were closed in a week, by whom and when.
LEMMA ClosingsOfWeeks ==
  ASSUME IInv, NEW s \in Servers
  PROVE  /\ ClosedIn({s}) \subseteq Channels
         /\ \A c \in ClosedIn({s}) :
              /\ tickets[c].closer \in Closers
              /\ \E w \in Weeks : InWeek(w, tickets[c].closed)
         /\ \A w \in Weeks :
              /\ ClosedInWeek({s}, w) \subseteq Channels
              /\ \A c \in ClosedInWeek({s}, w) : tickets[c].closer \in Closers /\ tickets[c].closed \in Nat
<1>1. ASSUME NEW c \in ClosedIn({s})
      PROVE  /\ c \in Channels /\ tickets[c].closer \in Closers /\ tickets[c].closed \in Nat
             /\ \E w \in Weeks : InWeek(w, tickets[c].closed)
  <2>1. c \in Channels /\ tickets[c] # None /\ tickets[c].closed # None
    BY DEF ClosedIn, OpenIn, Rows
  <2>2. tickets[c].closer \in Closers /\ tickets[c].closed \in Nat /\ tickets[c].closed <= MaxTime
    BY <2>1, TicketFacts
  <2>3. tickets[c].closed \div Week \in Weeks
    BY <2>2, WeekOf
  <2>4. QED
    BY <2>1, <2>2, <2>3 DEF InWeek
<1>2. \A w \in Weeks : ClosedInWeek({s}, w) \subseteq ClosedIn({s})
  BY DEF ClosedInWeek
<1>3. QED
  BY <1>1, <1>2

\* The moderators of the weeks are those who ever closed or wrote anything.
LEMMA ModsOfWeeks ==
  ASSUME IInv, NEW s \in Servers
  PROVE  UNION {ModsInWeek(s, w) : w \in Weeks}
           = {closer \in Closers : RankClosed(s, closer, None) > 0}
               \cup {mod \in Mods : \E f \in {"sent", "chats"} : ModActivity(s, mod, None)[f][1] > 0}
<1>1. ASSUME NEW closer \in Closers
      PROVE  RankClosed(s, closer, None) > 0 <=> \E c \in ClosedIn({s}) : tickets[c].closer = closer
  <2>1. RankClosed(s, closer, None) = Cardinality({c \in ClosedIn({s}) : tickets[c].closer = closer})
    BY OneServer DEF RankClosed
  <2>2. {c \in ClosedIn({s}) : tickets[c].closer = closer} \in SUBSET Channels
    BY ClosingsOfWeeks
  <2>3. QED
    BY <2>1, <2>2, Counted
<1>2. ASSUME NEW mod \in Mods, NEW kind \in {"Sent", "Discussion"}
      PROVE  Cardinality(WrittenBy(MessagesIn({s}, kind, None), mod)) > 0
               <=> \E m \in MessagesIn({s}, kind, None) : messages[m].author = mod
  <2>1. WrittenBy(MessagesIn({s}, kind, None), mod) \in SUBSET Messages
    BY MessagesOfWeeks DEF WrittenBy
  <2>2. QED
    BY <2>1, Counted DEF WrittenBy
<1>3. ASSUME NEW mod \in Mods
      PROVE  (\E f \in {"sent", "chats"} : ModActivity(s, mod, None)[f][1] > 0)
               <=> \E kind \in {"Sent", "Discussion"} :
                     \E m \in MessagesIn({s}, kind, None) : messages[m].author = mod
  <2>1. /\ ModActivity(s, mod, None).sent[1] > 0
             <=> \E m \in MessagesIn({s}, "Sent", None) : messages[m].author = mod
        /\ ModActivity(s, mod, None).chats[1] > 0
             <=> \E m \in MessagesIn({s}, "Discussion", None) : messages[m].author = mod
    BY <1>2 DEF ModActivity, Share
  <2>2. (\E f \in {"sent", "chats"} : ModActivity(s, mod, None)[f][1] > 0)
          <=> ModActivity(s, mod, None).sent[1] > 0 \/ ModActivity(s, mod, None).chats[1] > 0
    OBVIOUS
  <2>3. QED
    BY <2>1, <2>2
<1>4. ASSUME NEW mod
      PROVE  mod \in UNION {ModsInWeek(s, w) : w \in Weeks}
               <=> \/ \E c \in ClosedIn({s}) : tickets[c].closer = mod
                   \/ \E kind \in {"Sent", "Discussion"} :
                        \E m \in MessagesIn({s}, kind, None) : messages[m].author = mod
  <2>1. ASSUME NEW w \in Weeks, mod \in ModsInWeek(s, w)
        PROVE  \/ \E c \in ClosedIn({s}) : tickets[c].closer = mod
               \/ \E kind \in {"Sent", "Discussion"} :
                    \E m \in MessagesIn({s}, kind, None) : messages[m].author = mod
    BY <2>1 DEF ModsInWeek, ClosedInWeek, WrittenInWeek
  <2>2. ASSUME NEW c \in ClosedIn({s}), tickets[c].closer = mod
        PROVE  \E w \in Weeks : mod \in ModsInWeek(s, w)
    <3>1. PICK w \in Weeks : InWeek(w, tickets[c].closed)
      BY ClosingsOfWeeks
    <3>2. c \in ClosedInWeek({s}, w)
      BY <3>1 DEF ClosedInWeek
    <3>3. QED
      BY <2>2, <3>2 DEF ModsInWeek
  <2>3. ASSUME NEW kind \in {"Sent", "Discussion"}, NEW m \in MessagesIn({s}, kind, None),
               messages[m].author = mod
        PROVE  \E w \in Weeks : mod \in ModsInWeek(s, w)
    <3>1. PICK w \in Weeks : InWeek(w, messages[m].date)
      BY MessagesOfWeeks
    <3>2. m \in WrittenInWeek(s, {"Sent", "Discussion"}, w)
      BY <3>1 DEF WrittenInWeek
    <3>3. QED
      BY <2>3, <3>2 DEF ModsInWeek
  <2>4. QED
    BY <2>1, <2>2, <2>3
<1>5. /\ \A c \in ClosedIn({s}) : tickets[c].closer \in Closers
      /\ \A kind \in {"Sent", "Discussion"} : \A m \in MessagesIn({s}, kind, None) : messages[m].author \in Mods
  BY ClosingsOfWeeks, MessagesOfWeeks
<1> DEFINE R == {closer \in Closers : RankClosed(s, closer, None) > 0}
           A == {mod \in Mods : \E f \in {"sent", "chats"} : ModActivity(s, mod, None)[f][1] > 0}
           U == UNION {ModsInWeek(s, w) : w \in Weeks}
<1>6. \A x : x \in R <=> \E c \in ClosedIn({s}) : tickets[c].closer = x
  BY <1>1, <1>5
<1>7. \A x : x \in A <=> \E kind \in {"Sent", "Discussion"} :
                           \E m \in MessagesIn({s}, kind, None) : messages[m].author = x
  BY <1>3, <1>5
<1>8. \A x : x \in U <=> \/ \E c \in ClosedIn({s}) : tickets[c].closer = x
                         \/ \E kind \in {"Sent", "Discussion"} :
                              \E m \in MessagesIn({s}, kind, None) : messages[m].author = x
  BY <1>4
<1> HIDE DEF R, A, U
<1>9. U = R \cup A
  BY <1>6, <1>7, <1>8
<1>10. QED
  BY <1>9 DEF U, R, A

\* The moderators named for a week were active in it; one is named for closing
\* when anything was closed by another than the timer.
LEMMA TopOfWeek ==
  ASSUME IInv, NEW s \in Servers, NEW w \in Weeks
  PROVE  /\ TopClosers(s, w) \cup TopWriters(s, "Sent", w) \cup TopWriters(s, "Discussion", w)
              \subseteq ModsInWeek(s, w) \ {Timer}
         /\ TopClosers(s, w) = {} <=> \A c \in ClosedInWeek({s}, w) : tickets[c].closer = Timer
<1> DEFINE closed(mod) == {c \in ClosedInWeek({s}, w) : tickets[c].closer = mod}
           count == [mod \in Mods |-> Cardinality(closed(mod))]
<1>1. \A mod \in Mods : closed(mod) \in SUBSET Channels
  BY ClosingsOfWeeks
<1>2. \A mod \in Mods : count[mod] \in Nat /\ (count[mod] > 0 <=> closed(mod) # {})
  BY <1>1, Counted
<1>3. TopClosers(s, w) = {mod \in Mods : count[mod] > 0 /\ \A other \in Mods : count[other] <= count[mod]}
  BY DEF TopClosers, ClosedBy
<1>4. TopClosers(s, w) \subseteq ModsInWeek(s, w)
  <2>1. \A mod \in TopClosers(s, w) : \E c \in ClosedInWeek({s}, w) : tickets[c].closer = mod
    BY <1>2, <1>3
  <2>2. QED
    BY <2>1 DEF ModsInWeek
<1>5. ASSUME NEW kind \in {"Sent", "Discussion"} PROVE TopWriters(s, kind, w) \subseteq ModsInWeek(s, w)
  <2> SUFFICES ASSUME NEW mod \in TopWriters(s, kind, w) PROVE mod \in ModsInWeek(s, w)
    OBVIOUS
  <2>1. WrittenBy(WrittenInWeek(s, {kind}, w), mod) \in SUBSET Messages
    <3>1. {kind} \in SUBSET {"Sent", "Discussion"}
      OBVIOUS
    <3>2. QED
      BY <3>1, MessagesOfWeeks DEF WrittenBy
  <2>2. Cardinality(WrittenBy(WrittenInWeek(s, {kind}, w), mod)) > 0
    BY DEF TopWriters
  <2>3. PICK m \in WrittenInWeek(s, {kind}, w) : messages[m].author = mod
    BY <2>1, <2>2, Counted DEF WrittenBy
  <2>4. m \in WrittenInWeek(s, {"Sent", "Discussion"}, w)
    BY DEF WrittenInWeek
  <2>5. QED
    BY <2>3, <2>4 DEF ModsInWeek
<1>6. ASSUME NEW c \in ClosedInWeek({s}, w), tickets[c].closer # Timer PROVE TopClosers(s, w) # {}
  <2>1. tickets[c].closer \in Mods /\ c \in closed(tickets[c].closer)
    BY <1>6, ClosingsOfWeeks DEF Closers
  <2>2. count[tickets[c].closer] > 0
    BY <1>2, <2>1
  <2>3. Cardinality(Channels) \in Nat /\ \A x \in Mods : count[x] \in 0 .. Cardinality(Channels)
    <3>1. IsFiniteSet(Channels) /\ Cardinality(Channels) \in Nat
      BY FiniteTickets
    <3>2. \A x \in Mods : Cardinality(closed(x)) <= Cardinality(Channels)
      BY <1>1, <3>1, FS_Subset
    <3>3. \A x \in Mods : count[x] <= Cardinality(Channels)
      BY <3>2
    <3>4. \A x \in Mods : count[x] \in Nat
      BY <1>2
    <3> HIDE DEF count
    <3>5. ASSUME NEW x \in Mods PROVE count[x] \in 0 .. Cardinality(Channels)
      <4>1. count[x] \in Nat /\ count[x] <= Cardinality(Channels)
        BY <3>3, <3>4
      <4>2. QED
        BY <3>1, <4>1
    <3>6. QED
      BY <3>1, <3>5
  <2>4. Mods # {}
    BY <2>1
  <2> HIDE DEF count
  <2>5. PICK mod \in Mods : \A other \in Mods : count[other] <= count[mod]
    BY <2>3, <2>4, Extremes
  <2>6. count[mod] > 0
    BY <1>2, <2>1, <2>2, <2>5
  <2>7. QED
    BY <1>3, <2>5, <2>6
<1>7. ASSUME NEW mod \in TopClosers(s, w)
      PROVE  \E c \in ClosedInWeek({s}, w) : tickets[c].closer # Timer
  <2>1. mod \in Mods /\ \E c \in ClosedInWeek({s}, w) : tickets[c].closer = mod
    BY <1>2, <1>3
  <2>2. QED
    BY <2>1, StatisticsAssumption
<1>8. Timer \notin TopClosers(s, w) \cup TopWriters(s, "Sent", w) \cup TopWriters(s, "Discussion", w)
  BY StatisticsAssumption DEF TopClosers, TopWriters
<1>9. QED
  BY <1>4, <1>5, <1>6, <1>7, <1>8

\* The activity of an hour is the closings and messages it has.
LEMMA ActivityOfHour ==
  ASSUME IInv, NEW s \in Servers, NEW w \in Weeks, NEW hour \in 0 .. Day - 1
  PROVE  LET C == {c \in ClosedInWeek({s}, w) : AtHour(hour, tickets[c].closed)}
             M == {m \in WrittenInWeek(s, {"Sent", "Discussion"}, w) : AtHour(hour, messages[m].date)} IN
         /\ Activity(s, w, hour) \in 0 .. Cardinality(Channels) + Cardinality(Messages)
         /\ Activity(s, w, hour) > 0 <=> C # {} \/ M # {}
<1> DEFINE C == {c \in ClosedInWeek({s}, w) : AtHour(hour, tickets[c].closed)}
           M == {m \in WrittenInWeek(s, {"Sent", "Discussion"}, w) : AtHour(hour, messages[m].date)}
<1>1. Activity(s, w, hour) = Cardinality(C) + Cardinality(M)
  BY DEF Activity
<1>2. C \in SUBSET Channels /\ M \in SUBSET Messages
  BY ClosingsOfWeeks, MessagesOfWeeks
<1> HIDE DEF C, M
<1>3. /\ IsFiniteSet(Channels) /\ Cardinality(Channels) \in Nat
      /\ IsFiniteSet(Messages) /\ Cardinality(Messages) \in Nat
  BY FiniteTickets, FiniteMessages
<1>4. Cardinality(C) <= Cardinality(Channels) /\ Cardinality(M) <= Cardinality(Messages)
  BY <1>2, <1>3, FS_Subset
<1>5. /\ Cardinality(C) \in Nat /\ (Cardinality(C) > 0 <=> C # {})
      /\ Cardinality(M) \in Nat /\ (Cardinality(M) > 0 <=> M # {})
  BY <1>2, Counted
<1>6. /\ Activity(s, w, hour) \in 0 .. Cardinality(Channels) + Cardinality(Messages)
      /\ Activity(s, w, hour) > 0 <=> C # {} \/ M # {}
  BY <1>1, <1>3, <1>4, <1>5
<1>7. QED
  BY <1>6 DEF C, M

\* Every time is in an hour of its day.
LEMMA HourOf ==
  ASSUME NEW time \in Nat
  PROVE  \E hour \in 0 .. Day - 1 : AtHour(hour, time)
<1>1. Day \in Nat \ {0}
  BY StatisticsAssumption
<1>2. time % Day \in 0 .. Day - 1
  BY <1>1
<1>3. QED
  BY <1>2 DEF AtHour

\* There is an hour with the most and one with the least activity when any
\* moderator was active.
LEMMA HoursOfWeek ==
  ASSUME IInv, NEW s \in Servers, NEW w \in Weeks
  PROVE  /\ MostActive(s, w) = {} <=> ModsInWeek(s, w) = {}
         /\ LeastActive(s, w) = {} <=> MostActive(s, w) = {}
<1> DEFINE b == Cardinality(Channels) + Cardinality(Messages)
           F == [hour \in 0 .. Day - 1 |-> Activity(s, w, hour)]
           S == ActiveHours(s, w)
           W == WrittenInWeek(s, {"Sent", "Discussion"}, w)
<1>1. S \subseteq 0 .. Day - 1
  BY DEF ActiveHours
<1>2. b \in Nat /\ \A hour \in S : F[hour] \in 0 .. b
  <2>1. b \in Nat
    BY FiniteTickets, FiniteMessages
  <2>2. QED
    BY <1>1, <2>1, ActivityOfHour
<1>3. /\ MostActive(s, w) = {hour \in S : \A other \in S : F[other] <= F[hour]}
      /\ LeastActive(s, w) = {hour \in S : \A other \in S : F[other] >= F[hour]}
  BY <1>1 DEF MostActive, LeastActive
<1>4. S = {} => MostActive(s, w) = {} /\ LeastActive(s, w) = {}
  BY <1>3
<1>5. ASSUME S # {} PROVE MostActive(s, w) # {} /\ LeastActive(s, w) # {}
  <2> HIDE DEF S, F, b
  <2>1. /\ \E x \in S : \A y \in S : F[x] <= F[y]
        /\ \E x \in S : \A y \in S : F[y] <= F[x]
    BY <1>2, <1>5, Extremes
  <2>2. \A x, y \in S : F[x] <= F[y] <=> F[y] >= F[x]
    BY <1>2
  <2>3. QED
    BY <1>3, <2>1, <2>2
<1>6. S = {} <=> ClosedInWeek({s}, w) = {} /\ W = {}
  <2>1. ASSUME NEW hour \in S PROVE ClosedInWeek({s}, w) # {} \/ W # {}
    <3>1. hour \in 0 .. Day - 1 /\ Activity(s, w, hour) > 0
      BY DEF ActiveHours
    <3>2. QED
      BY <3>1, ActivityOfHour
  <2>2. ASSUME NEW c \in ClosedInWeek({s}, w) PROVE S # {}
    <3>1. PICK hour \in 0 .. Day - 1 : AtHour(hour, tickets[c].closed)
      BY ClosingsOfWeeks, HourOf
    <3>2. QED
      BY <3>1, ActivityOfHour DEF ActiveHours
  <2>3. ASSUME NEW m \in W PROVE S # {}
    <3>1. messages[m].date \in Nat
      BY MessagesOfWeeks
    <3>2. PICK hour \in 0 .. Day - 1 : AtHour(hour, messages[m].date)
      BY <3>1, HourOf
    <3>3. QED
      BY <3>2, ActivityOfHour DEF ActiveHours
  <2>4. QED
    BY <2>1, <2>2, <2>3
<1>7. ModsInWeek(s, w) = {} <=> ClosedInWeek({s}, w) = {} /\ W = {}
  BY DEF ModsInWeek
<1>8. QED
  BY <1>4, <1>5, <1>6, <1>7

\* The day with the most closings is NULL only when some ticket is open.
LEMMA BusiestDay ==
  ASSUME IInv, NEW s \in Servers, NEW w \in Weeks, None \in BusiestClosingDays(s, w)
  PROVE  StillOpen({s}, w) > 0
<1>1. PICK c \in OpenedInWeek({s}, w) :
        None = IF tickets[c].closed = None THEN None ELSE tickets[c].closed \div Day
  BY DEF BusiestClosingDays
<1>2. c \in Channels /\ tickets[c] # None /\ c \in Rows({s})
  BY DEF OpenedInWeek, Rows
<1>3. tickets[c].closed = None
  <2> SUFFICES ASSUME tickets[c].closed # None PROVE FALSE
    OBVIOUS
  <2>1. tickets[c].closed \in Nat /\ Day \in Nat \ {0} /\ tickets[c].closed <= tickets[c].closed
    BY <1>2, TicketFacts, StatisticsAssumption
  <2>2. tickets[c].closed \div Day \in Nat
    <3>1. tickets[c].closed \div Day \in 0 .. (tickets[c].closed \div Day)
      BY <2>1, Division
    <3>2. QED
      BY <2>1, <3>1
  <2>3. QED
    BY <1>1, <2>2, StatisticsAssumption
<1>4. OpenedInWeek({s}, w) \cap OpenIn({s}) \in SUBSET Channels
  BY DEF OpenIn, Rows
<1>5. c \in OpenedInWeek({s}, w) \cap OpenIn({s})
  BY <1>2, <1>3 DEF OpenIn
<1>6. QED
  BY <1>4, <1>5, Counted DEF StillOpen

LEMMA WeeksHold == IInv => WeeksAddUp
BY OpenedSplit, ClosingsAddUp, DurationsAddUp, SizesAddUp, ResponsesAddUp, ModsOfWeeks,
   TopOfWeek, HoursOfWeek, BusiestDay DEF WeeksAddUp

\* The weekly exports add up to the figures of all time, and name those who were
\* active.
THEOREM WeeksCorrect == Spec => []WeeksAddUp
<1>1. QED
  BY WeeksHold, Inductive, PTL

-----------------------------------------------------------------------------
(* The types add up                                                        *)

\* The main type of a ticket.
MainOf ==
  [c \in Channels |-> IF Parent[tickets[c].type] = None THEN tickets[c].type ELSE Parent[tickets[c].type]]

\* A ticket is in the group of its main type and in no other.
LEMMA Grouped ==
  ASSUME IInv, NEW s \in Servers
  PROVE  /\ Typed(s) \subseteq Rows({s})
         /\ \A c \in Typed(s) : MainOf[c] \in MainTypes(s)
         /\ \A t \in MainTypes(s), c \in Rows({s}) :
              tickets[c].type \in Group(s, t) <=> c \in Typed(s) /\ MainOf[c] = t
<1>1. types[s] \subseteq Types /\ None \notin Types
  BY StatisticsAssumption DEF IInv, TypeOK
<1>2. \A t \in Types : Parent[t] # None => Parent[Parent[t]] = None
  BY StatisticsAssumption
<1>3. Typed(s) \subseteq Rows({s}) /\ Rows({s}) \subseteq Channels
  BY DEF Typed, Rows
<1>4. ASSUME NEW c \in Typed(s) PROVE MainOf[c] \in MainTypes(s)
  <2>1. /\ c \in Channels /\ tickets[c].type \in types[s]
        /\ Parent[tickets[c].type] # None => Parent[tickets[c].type] \in types[s]
    BY <1>3 DEF Typed
  <2>2. QED
    BY <1>1, <1>2, <2>1 DEF MainOf, MainTypes
<1>5. ASSUME NEW t \in MainTypes(s), NEW c \in Rows({s})
      PROVE  tickets[c].type \in Group(s, t) <=> c \in Typed(s) /\ MainOf[c] = t
  <2>1. c \in Channels /\ t \in types[s] /\ Parent[t] = None /\ t # None
    BY <1>1, <1>3 DEF MainTypes
  <2>2. c \in Typed(s) <=> /\ tickets[c].type \in types[s]
                           /\ Parent[tickets[c].type] # None => Parent[tickets[c].type] \in types[s]
    BY DEF Typed
  <2>3. tickets[c].type \in Group(s, t)
          <=> tickets[c].type = t \/ (tickets[c].type \in types[s] /\ Parent[tickets[c].type] = t)
    BY DEF Group
  <2>4. MainOf[c] = IF Parent[tickets[c].type] = None THEN tickets[c].type ELSE Parent[tickets[c].type]
    BY <2>1 DEF MainOf
  <2>5. QED
    BY <2>1, <2>2, <2>3, <2>4
<1>6. QED
  BY <1>3, <1>4, <1>5

\* The tickets opened in a week are counted once, under their main type.
LEMMA TypesOpened ==
  ASSUME IInv, NEW s \in Servers, NEW w \in Weeks
  PROVE  Total(LAMBDA t : TypeOpened(s, t, w), MainTypes(s)) = Cardinality(OpenedInWeek({s}, w) \cap Typed(s))
<1> DEFINE T == OpenedInWeek({s}, w) \cap Typed(s)
           S == MainTypes(s)
           key == MainOf
           N == [t \in S |-> Cardinality({c \in T : key[c] = t})]
<1>1. OpenedInWeek({s}, w) \subseteq Rows({s})
  BY DEF OpenedInWeek
<1>2. \A c \in T : c \in Channels /\ key[c] \in S
  BY <1>1, OneServer, Grouped
<1>3. ASSUME NEW t \in S PROVE TypeOpened(s, t, w) = N[t]
  <2>1. OfType({s}, Group(s, t), w) = {c \in T : key[c] = t}
    BY <1>1, Grouped DEF OfType
  <2>2. QED
    BY <2>1 DEF TypeOpened
<1>4. IsFiniteSet(T)
  BY <1>2, FiniteTickets
<1> HIDE DEF T, S, key
<1>5. Cardinality(Units(N, S)) = Cardinality(T)
  BY <1>2, <1>4, CountByKey
<1> HIDE DEF N
<1>6. {{t} \X (1 .. TypeOpened(s, t, w)) : t \in S} = {{t} \X (1 .. N[t]) : t \in S}
  BY <1>3
<1>7. QED
  BY <1>5, <1>6 DEF Total, Units, T, S

\* So are their durations.
LEMMA TypesLasted ==
  ASSUME IInv, NEW s \in Servers, NEW w \in Weeks
  PROVE  Total(LAMBDA t : Sum(TypeDuration(s, Group(s, t), w)), MainTypes(s)) = Sum(WeekDuration(Typed(s), w))
<1> DEFINE K == Typed(s) \cap ClosedInWeek(Servers, w)
           S == MainTypes(s)
           key == MainOf
           N == [t \in S |-> Cardinality(Units(Durations, {c \in K : key[c] = t}))]
<1>1. K \subseteq ClosedIn(Servers)
  BY DEF ClosedInWeek
<1>2. \A c \in K : c \in Channels /\ key[c] \in S /\ Durations[c] \in Int
  BY <1>1, DurationType, Grouped
<1>3. ASSUME NEW t \in S PROVE Sum(TypeDuration(s, Group(s, t), w)) = N[t]
  <2>1. {c \in Rows({s}) : tickets[c].type \in Group(s, t)} \cap ClosedInWeek(Servers, w) = {c \in K : key[c] = t}
    BY Grouped
  <2>2. {c \in K : key[c] = t} \subseteq ClosedIn(Servers)
    BY <1>1
  <2>3. QED
    BY <2>1, <2>2, SumOfDurations DEF TypeDuration, WeekDuration
<1>4. IsFiniteSet(K)
  BY <1>2, FiniteTickets
<1>5. Sum(WeekDuration(Typed(s), w)) = Cardinality(Units(Durations, K))
  BY <1>1, SumOfDurations DEF WeekDuration
<1> HIDE DEF K, S, key
<1>6. Cardinality(Units(N, S)) = Cardinality(Units(Durations, K))
  BY <1>2, <1>4, SumByKey
<1> HIDE DEF N
<1>7. {{t} \X (1 .. Sum(TypeDuration(s, Group(s, t), w))) : t \in S} = {{t} \X (1 .. N[t]) : t \in S}
  BY <1>3
<1>8. QED
  BY <1>5, <1>6, <1>7 DEF Total, Units, S

\* And the times to their first replies.
LEMMA TypesAnswered ==
  ASSUME IInv, NEW s \in Servers, NEW w \in Weeks
  PROVE  Total(LAMBDA t : Sum(TypeResponse(s, Group(s, t), w)), MainTypes(s)) = Sum(WeekResponse(Typed(s), w))
<1> DEFINE K == Answered(Typed(s) \cap OpenedInWeek(Servers, w))
           S == MainTypes(s)
           key == MainOf
           N == [t \in S |-> Cardinality(Units(Responses, {c \in K : key[c] = t}))]
<1>1. K \subseteq Typed(s) /\ K \subseteq Answered(Rows(Servers))
  BY OneServer, Grouped DEF Answered
<1>2. \A c \in K : c \in Channels /\ key[c] \in S /\ Responses[c] \in Int
  BY <1>1, ResponseType, Grouped
<1>3. ASSUME NEW t \in S PROVE Sum(TypeResponse(s, Group(s, t), w)) = N[t]
  <2>1. OfType({s}, Group(s, t), w) \cap OpenedInWeek(Servers, w)
          = {c \in Typed(s) \cap OpenedInWeek(Servers, w) : key[c] = t}
    <3>1. OpenedInWeek({s}, w) = Rows({s}) \cap OpenedInWeek(Servers, w)
      BY OneServer DEF OpenedInWeek
    <3>2. QED
      BY <3>1, Grouped DEF OfType
  <2>2. Answered(OfType({s}, Group(s, t), w) \cap OpenedInWeek(Servers, w)) = {c \in K : key[c] = t}
    BY <2>1 DEF Answered
  <2>3. {c \in K : key[c] = t} \subseteq Answered(Rows(Servers))
    BY <1>1
  <2>4. QED
    BY <2>2, <2>3, SumOfResponses DEF TypeResponse, WeekResponse
<1>4. IsFiniteSet(K)
  BY <1>2, FiniteTickets
<1>5. Sum(WeekResponse(Typed(s), w)) = Cardinality(Units(Responses, K))
  BY <1>1, SumOfResponses DEF WeekResponse
<1> HIDE DEF K, S, key
<1>6. Cardinality(Units(N, S)) = Cardinality(Units(Responses, K))
  BY <1>2, <1>4, SumByKey
<1> HIDE DEF N
<1>7. {{t} \X (1 .. Sum(TypeResponse(s, Group(s, t), w))) : t \in S} = {{t} \X (1 .. N[t]) : t \in S}
  BY <1>3
<1>8. QED
  BY <1>5, <1>6, <1>7 DEF Total, Units, S

\* A main type has the tickets of its subtypes and those of its own.
LEMMA SubtypesAddUp ==
  ASSUME IInv, NEW s \in Servers, NEW w \in Weeks, NEW t \in MainTypes(s)
  PROVE  Total(LAMBDA u : SubtypeOpened(s, u, w), Group(s, t)) = TypeOpened(s, t, w)
<1> DEFINE S == Group(s, t)
           T == OfType({s}, S, w)
           key == [c \in Channels |-> tickets[c].type]
           N == [u \in S |-> Cardinality({c \in T : key[c] = u})]
<1>1. \A c \in T : c \in Channels /\ key[c] \in S
  BY DEF OfType, OpenedInWeek, Rows
<1>2. ASSUME NEW u \in S PROVE SubtypeOpened(s, u, w) = N[u]
  <2>1. OfType({s}, {u}, w) = {c \in T : key[c] = u}
    BY <1>1 DEF OfType, OpenedInWeek, Rows
  <2>2. QED
    BY <2>1 DEF SubtypeOpened
<1>3. IsFiniteSet(T)
  BY <1>1, FiniteTickets
<1>4. TypeOpened(s, t, w) = Cardinality(T)
  BY DEF TypeOpened
<1> HIDE DEF T, S, key
<1>5. Cardinality(Units(N, S)) = Cardinality(T)
  BY <1>1, <1>3, CountByKey
<1> HIDE DEF N
<1>6. {{u} \X (1 .. SubtypeOpened(s, u, w)) : u \in S} = {{u} \X (1 .. N[u]) : u \in S}
  BY <1>2
<1>7. QED
  BY <1>4, <1>5, <1>6 DEF Total, Units, S

LEMMA TypesHold == IInv => TypesAddUp
BY TypesOpened, TypesLasted, TypesAnswered, SubtypesAddUp DEF TypesAddUp

\* The types of the weekly export count each ticket that has a type once.
THEOREM TypesCorrect == Spec => []TypesAddUp
<1>1. QED
  BY TypesHold, Inductive, PTL
=============================================================================
