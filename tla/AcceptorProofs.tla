--------------------------- MODULE AcceptorProofs ---------------------------
(***************************************************************************)
(* Theorems of Acceptor for any width of the counters, any subnet base and *)
(* any number of connections.  The two routing maps are filled from two    *)
(* counters, so that they agree rests on the counters moving in step:      *)
(* on_accept runs for one connection at a time (OneAtATime), therefore     *)
(* between two of its runs the address counter is one ahead of the id      *)
(* counter (InStep), therefore every connection's address is the one that  *)
(* belongs to its id (Paired), wrapped or not.                             *)
(*                                                                         *)
(* Whose the entries are takes two more invariants: the id counts the      *)
(* connections, modulo the counter's width (Counted), and no entry is ever *)
(* erased (Reached).                                                       *)
(***************************************************************************)
EXTENDS Acceptor, TLAPS

Addressed == Phases \ {"none", "accepted", "identified"}
Entered   == {"registered", "gone"}

OneAtATime ==
    /\ accepting => \A c \in Conns : phase[c] \notin InOnAccept
    /\ \A c, d \in Conns : phase[c] \in InOnAccept /\ phase[d] \in InOnAccept => c = d

InStep ==
    /\ \A c \in Conns : phase[c] = "identified" =>
          nextSessionId = nextOffset /\ nextOffset = Increment(sid[c])
    /\ (\A c \in Conns : phase[c] # "identified") => nextOffset = Increment(nextSessionId)

Paired == \A c \in Conns : phase[c] \in Addressed \ {"failed"} => vip[c] = AddressAt(Increment(sid[c]))

Arrivals == \A c \in Conns : c > arrived => phase[c] = "none"

SessionsInv ==
    \A i \in Words : sessions[i] # NoConn =>
        phase[sessions[i]] \in Entered /\ sid[sessions[i]] = i

IInv == TypeOK /\ Arrivals /\ OneAtATime /\ InStep /\ Paired /\ SessionsInv /\ RouteTableConsistent

\* Counter arithmetic stays within the machine word.
LEMMA Arithmetic ==
    ASSUME NEW n \in Words
    PROVE  Increment(n) \in Words /\ AddressAt(n) \in Words
BY SpanAssumption, BaseAssumption DEF Increment, AddressAt, Words

\* Every step keeps the types.
LEMMA TypeStep == TypeOK /\ [Next]_vars => TypeOK'
<1> SUFFICES ASSUME TypeOK, [Next]_vars PROVE TypeOK'
  OBVIOUS
<1> USE DEF TypeOK
<1>a. arrived < MaxConns => arrived + 1 \in Conns /\ arrived + 1 \in 0 .. MaxConns
  BY BoundAssumption DEF Conns
<1>1. CASE AcceptError
  BY <1>1 DEF AcceptError, counters, tables
<1>2. CASE OnAccept
  BY <1>2, <1>a DEF OnAccept, MoveTo, Phases, counters, tables
<1>3. ASSUME NEW c \in Conns, TakeSessionId(c) PROVE TypeOK'
  BY <1>3, Arithmetic DEF TakeSessionId, MoveTo, Phases, tables
<1>4. ASSUME NEW c \in Conns, AllocateClientIp(c) PROVE TypeOK'
  BY <1>4, Arithmetic DEF AllocateClientIp, MoveTo, Phases, tables
<1>5. ASSUME NEW c \in Conns, StartHandshake(c) PROVE TypeOK'
  BY <1>5 DEF StartHandshake, MoveTo, Phases, counters, tables
<1>6. ASSUME NEW c \in Conns,
             RemoteEndpointThrows(c) \/ HandshakeFails(c) \/ SslHandshakeDone(c) \/ SessionEnds(c)
      PROVE  TypeOK'
  BY <1>6 DEF RemoteEndpointThrows, HandshakeFails, SslHandshakeDone, SessionEnds, MoveTo, Phases,
              counters, tables
<1>7. ASSUME NEW c \in Conns, RegisterSession(c) PROVE TypeOK'
  BY <1>7 DEF RegisterSession, MoveTo, Phases, counters
<1>8. CASE UNCHANGED vars
  BY <1>8 DEF vars, counters, tables
<1> QED
  BY <1>1, <1>2, <1>3, <1>4, <1>5, <1>6, <1>7, <1>8 DEF Next, OnAcceptStep

\* Moving a connection to a phase outside on_accept, with the counters, ids,
\* addresses and tables as they were, keeps the invariant.
LEMMA MoveKeeps ==
    ASSUME IInv, NEW c \in Conns, NEW p \in Phases \ InOnAccept,
           MoveTo(c, p), UNCHANGED <<counters, sid, vip, tables>>,
           phase[c] \in Addressed, phase[c] \in Entered => p \in Entered,
           accepting' => accepting \/ phase[c] \in InOnAccept,
           p # "none", phase[c] # "failed", UNCHANGED arrived
    PROVE  Arrivals' /\ OneAtATime' /\ InStep' /\ Paired' /\ SessionsInv' /\ RouteTableConsistent'
<1> USE DEF IInv, counters, tables
<1>1. phase' = [phase EXCEPT ![c] = p] /\ phase \in [Conns -> Phases]
  BY DEF MoveTo, TypeOK
<1>7. Arrivals'
  BY <1>1 DEF Arrivals, Addressed
<1>2. OneAtATime'
  BY <1>1 DEF OneAtATime, InOnAccept
<1>3. InStep'
  BY <1>1 DEF InStep, InOnAccept, Addressed, Increment
<1>4. Paired'
  BY <1>1 DEF Paired, Addressed, InOnAccept, Increment, AddressAt
<1>5. SessionsInv'
  BY <1>1 DEF SessionsInv, Entered, TypeOK
<1>6. RouteTableConsistent'
  BY DEF RouteTableConsistent
<1> QED
  BY <1>2, <1>3, <1>4, <1>5, <1>6, <1>7

\* Every step keeps what relates the counters to ids and addresses.
LEMMA InvStep == IInv /\ [Next]_vars => Arrivals' /\ OneAtATime' /\ InStep' /\ Paired' /\ SessionsInv' /\ RouteTableConsistent'
<1> SUFFICES ASSUME IInv, [Next]_vars
             PROVE  Arrivals' /\ OneAtATime' /\ InStep' /\ Paired' /\ SessionsInv' /\ RouteTableConsistent'
  OBVIOUS
<1> DEFINE Goal == Arrivals' /\ OneAtATime' /\ InStep' /\ Paired' /\ SessionsInv' /\ RouteTableConsistent'
<1>t. TypeOK
  BY DEF IInv
<1>p. phase \in [Conns -> Phases] /\ sid \in [Conns -> Words] /\ vip \in [Conns -> Words]
  BY <1>t DEF TypeOK
<1>1. CASE AcceptError
  BY <1>1 DEF AcceptError, counters, tables, IInv, Arrivals, OneAtATime,
                    InStep, Paired, SessionsInv, RouteTableConsistent
<1>2. CASE OnAccept
  <2> DEFINE n == arrived + 1
  <2>1. n \in Conns
    BY <1>2, <1>t, BoundAssumption DEF OnAccept, TypeOK, Conns
  <2> HIDE DEF n
  <2>2. /\ phase' = [phase EXCEPT ![n] = "accepted"] /\ ~accepting'
        /\ UNCHANGED <<nextSessionId, nextOffset, sid, vip, sessions, ipToSession>>
    BY <1>2 DEF OnAccept, MoveTo, counters, tables, n
  <2>3. \A c \in Conns : phase[c] \notin InOnAccept
    BY <1>2 DEF IInv, OneAtATime, OnAccept
  <2>4. OneAtATime'
    BY <1>p, <2>1, <2>2, <2>3 DEF OneAtATime
  <2>5. InStep'
    BY <1>p, <2>1, <2>2, <2>3 DEF IInv, InStep, InOnAccept, Increment
  <2>6. Paired'
    BY <1>p, <2>1, <2>2 DEF IInv, Paired, Addressed, Increment, AddressAt
  <2>7. phase[n] = "none"
    BY <1>t, <2>1 DEF IInv, Arrivals, TypeOK, n
  <2>8. SessionsInv'
    BY <1>p, <1>t, <2>1, <2>2, <2>7 DEF IInv, SessionsInv, Entered, TypeOK
  <2>9. RouteTableConsistent'
    BY <2>2 DEF IInv, RouteTableConsistent
  <2>10. Arrivals'
    <3>1. arrived' = arrived + 1 /\ arrived \in Nat
      BY <1>2, <1>t, BoundAssumption DEF OnAccept, TypeOK
    <3> QED
      BY <1>p, <2>2, <3>1 DEF IInv, Arrivals, n, Conns
  <2> QED
    BY <2>4, <2>5, <2>6, <2>8, <2>9, <2>10
<1>3. ASSUME NEW c \in Conns, TakeSessionId(c) PROVE Goal
  <2>1. /\ phase[c] = "accepted" /\ phase' = [phase EXCEPT ![c] = "identified"]
        /\ sid' = [sid EXCEPT ![c] = nextSessionId] /\ nextSessionId' = Increment(nextSessionId)
        /\ UNCHANGED <<accepting, arrived, nextOffset, vip, sessions, ipToSession>>
    BY <1>3 DEF TakeSessionId, MoveTo, tables
  <2>2. \A d \in Conns : phase[d] \in InOnAccept => d = c
    BY <2>1 DEF IInv, OneAtATime, InOnAccept
  <2>3. nextOffset = Increment(nextSessionId)
    BY <2>1, <2>2 DEF IInv, InStep, InOnAccept
  <2>4. Arrivals' /\ OneAtATime' /\ RouteTableConsistent'
    BY <1>p, <2>1, <2>2 DEF IInv, Arrivals, OneAtATime, InOnAccept, RouteTableConsistent
  <2>5. InStep'
    BY <1>p, <2>1, <2>2, <2>3 DEF InStep, InOnAccept, Increment
  <2>6. Paired' /\ SessionsInv'
    BY <1>p, <1>t, <2>1 DEF IInv, Paired, Addressed, Increment, AddressAt, SessionsInv, Entered, TypeOK
  <2> QED
    BY <2>4, <2>5, <2>6
<1>4. ASSUME NEW c \in Conns, AllocateClientIp(c) PROVE Goal
  <2>1. /\ phase[c] = "identified" /\ phase' = [phase EXCEPT ![c] = "addressed"]
        /\ vip' = [vip EXCEPT ![c] = AddressAt(nextOffset)] /\ nextOffset' = Increment(nextOffset)
        /\ UNCHANGED <<accepting, arrived, nextSessionId, sid, sessions, ipToSession>>
    BY <1>4 DEF AllocateClientIp, MoveTo, tables
  <2>2. \A d \in Conns : phase[d] \in InOnAccept => d = c
    BY <2>1 DEF IInv, OneAtATime, InOnAccept
  <2>3. nextSessionId = nextOffset /\ nextOffset = Increment(sid[c])
    BY <2>1 DEF IInv, InStep
  <2>4. Arrivals' /\ OneAtATime' /\ SessionsInv'
    BY <1>p, <1>t, <2>1, <2>2 DEF IInv, Arrivals, OneAtATime, InOnAccept, SessionsInv, Entered, TypeOK
  <2>5. InStep'
    BY <1>p, <2>1, <2>2, <2>3 DEF InStep, InOnAccept, Increment
  <2>6. Paired'
    BY <1>p, <2>1, <2>3 DEF IInv, Paired, Addressed, Increment, AddressAt
  <2>7. RouteTableConsistent'
    BY <1>p, <1>t, <2>1 DEF IInv, RouteTableConsistent, SessionsInv, Entered, TypeOK
  <2> QED
    BY <2>4, <2>5, <2>6, <2>7
<1>5. ASSUME NEW c \in Conns, StartHandshake(c) PROVE Goal
  <2>1. /\ phase[c] = "addressed" /\ MoveTo(c, IF tls THEN "sslHandshake" ELSE "wsAccept")
        /\ UNCHANGED <<counters, sid, vip, tables, arrived>>
    BY <1>5 DEF StartHandshake
  <2>2. (IF tls THEN "sslHandshake" ELSE "wsAccept") \in Phases \ InOnAccept
    BY DEF Phases, InOnAccept
  <2> QED
    BY <2>1, <2>2, MoveKeeps DEF Addressed, Entered, InOnAccept, Phases
<1>6. ASSUME NEW c \in Conns,
             RemoteEndpointThrows(c) \/ HandshakeFails(c) \/ SslHandshakeDone(c) \/ SessionEnds(c)
      PROVE  Goal
  <2>1. PICK p \in {"failed", "wsAccept", "gone"} : MoveTo(c, p) /\ (p = "gone" <=> phase[c] = "registered")
    BY <1>6 DEF RemoteEndpointThrows, HandshakeFails, SslHandshakeDone, SessionEnds
  <2>2. /\ UNCHANGED <<counters, sid, vip, tables, arrived, accepting>>
        /\ phase[c] \in {"addressed", "sslHandshake", "wsAccept", "registered"}
    BY <1>6 DEF RemoteEndpointThrows, HandshakeFails, SslHandshakeDone, SessionEnds
  <2>3. p \in Phases \ InOnAccept
    BY DEF Phases, InOnAccept
  <2> QED
    BY <2>1, <2>2, <2>3, MoveKeeps DEF Addressed, Entered, InOnAccept, Phases
<1>7. ASSUME NEW c \in Conns, RegisterSession(c) PROVE Goal
  <2>1. /\ phase[c] = "wsAccept" /\ phase' = [phase EXCEPT ![c] = "registered"]
        /\ sessions' = [sessions EXCEPT ![sid[c]] = c]
        /\ ipToSession' = [ipToSession EXCEPT ![vip[c]] = sid[c]]
        /\ UNCHANGED <<accepting, arrived, nextSessionId, nextOffset, sid, vip>>
    BY <1>7 DEF RegisterSession, MoveTo, counters
  <2>2. vip[c] = AddressAt(Increment(sid[c]))
    BY <2>1 DEF IInv, Paired, Addressed, Phases
  <2>3. c # NoConn
    BY DEF NoConn, Conns
  <2>4. Arrivals' /\ OneAtATime' /\ InStep'
    BY <1>p, <2>1 DEF IInv, Arrivals, OneAtATime, InStep, InOnAccept, Increment
  <2>5. Paired'
    BY <1>p, <2>1, <2>2 DEF IInv, Paired, Addressed, Increment, AddressAt
  <2>6. SessionsInv'
    BY <1>p, <1>t, <2>1, <2>3 DEF IInv, SessionsInv, Entered, TypeOK
  <2>7. ASSUME NEW a \in Words, ipToSession'[a] # NoSession
        PROVE  sessions'[ipToSession'[a]] # NoConn /\ vip[sessions'[ipToSession'[a]]] = a
    <3>1. CASE a = vip[c]
      BY <1>p, <1>t, <2>1, <2>3, <3>1 DEF TypeOK
    <3>2. CASE a # vip[c]
      <4> DEFINE i == ipToSession[a]
      <4>1. ipToSession'[a] = i /\ i \in Words
        BY <1>p, <1>t, <2>1, <2>7, <3>2 DEF TypeOK, NoSession
      <4>2. sessions[i] # NoConn /\ vip[sessions[i]] = a /\ sessions[i] \in Conns
        BY <1>t, <2>7, <4>1 DEF IInv, RouteTableConsistent, TypeOK
      <4>3. phase[sessions[i]] \in Entered /\ sid[sessions[i]] = i
        BY <4>1, <4>2 DEF IInv, SessionsInv
      <4>4. a = AddressAt(Increment(i))
        BY <4>2, <4>3 DEF IInv, Paired, Addressed, Entered, Phases
      <4>5. i # sid[c]
        BY <2>2, <3>2, <4>4
      <4> QED
        BY <1>p, <1>t, <2>1, <4>1, <4>2, <4>5 DEF TypeOK
    <3> QED
      BY <3>1, <3>2
  <2>8. RouteTableConsistent'
    BY <2>1, <2>7 DEF RouteTableConsistent
  <2> QED
    BY <2>4, <2>5, <2>6, <2>8
<1>8. CASE UNCHANGED vars
  BY <1>8 DEF vars, counters, tables, IInv, Arrivals, OneAtATime, InStep, Paired, SessionsInv,
              RouteTableConsistent, Increment, AddressAt
<1> QED
  BY <1>1, <1>2, <1>3, <1>4, <1>5, <1>6, <1>7, <1>8 DEF Next, OnAcceptStep

\* The invariant holds of every reachable state.
THEOREM Invariant == Spec => []IInv
<1>1. Init => IInv
  <2> SUFFICES ASSUME Init PROVE IInv
    OBVIOUS
  <2>1. TypeOK
    BY SpanAssumption, BoundAssumption DEF Init, TypeOK, Phases, Words, NoConn, NoSession
  <2>2. Arrivals /\ OneAtATime /\ Paired /\ SessionsInv /\ RouteTableConsistent
    BY DEF Init, Arrivals, OneAtATime, InOnAccept, Paired, Addressed, SessionsInv, RouteTableConsistent
  <2>3. InStep
    BY SpanAssumption DEF Init, InStep, Increment
  <2> QED
    BY <2>1, <2>2, <2>3 DEF IInv
<1>2. IInv /\ [Next]_vars => IInv'
  BY TypeStep, InvStep DEF IInv
<1> QED
  BY <1>1, <1>2, PTL DEF Spec

\* Counters, ids and addresses stay machine words and the tables map words to what
\* they should.
THEOREM TypeCorrect == Spec => []TypeOK
<1>1. IInv => TypeOK
  BY DEF IInv
<1> QED
  BY <1>1, Invariant, PTL

\* The lookup of route_to_client never leads to a session with another address, for
\* any number of connections, in any order of registration, and across a wrap of
\* either counter.
THEOREM RouteTableConsistentHolds == Spec => []RouteTableConsistent
<1>1. IInv => RouteTableConsistent
  BY DEF IInv
<1> QED
  BY <1>1, Invariant, PTL

----------------------------------------------------------------------------
(* Numbers modulo Span.                                                    *)

\* A remainder is what is left of any division by Span.
LEMMA Remainder ==
    ASSUME NEW n \in Int, NEW q \in Int, NEW r \in Words, n = q * Span + r
    PROVE  n % Span = r
BY SpanAssumption DEF Words

\* Counting on, modulo Span, is what a counter of that width does.
LEMMA IncrementCounts ==
    ASSUME NEW n \in Nat
    PROVE  n % Span \in Words /\ Increment(n % Span) = (n + 1) % Span
<1> DEFINE q == n \div Span
           r == n % Span
<1>1. q \in Int /\ r \in Words /\ n = q * Span + r
  BY SpanAssumption DEF Words
<1> HIDE DEF q
<1>2. CASE r = Span - 1
  <2>1. n + 1 = (q + 1) * Span + 0
    BY <1>1, <1>2, SpanAssumption
  <2>2. q + 1 \in Int /\ 0 \in Words /\ n + 1 \in Int
    BY <1>1, SpanAssumption DEF Words
  <2>3. (n + 1) % Span = 0
    BY <2>1, <2>2, Remainder
  <2> QED
    BY <1>1, <1>2, <2>3 DEF Increment
<1>3. CASE r # Span - 1
  <2>1. n + 1 = q * Span + (r + 1) /\ r + 1 \in Words
    BY <1>1, <1>3, SpanAssumption DEF Words
  <2>2. (n + 1) % Span = r + 1
    BY <1>1, <2>1, Remainder
  <2> QED
    BY <1>1, <1>3, <2>2 DEF Increment
<1> QED
  BY <1>1, <1>2, <1>3

\* Two connections of the same id are a multiple of Span apart.
LEMMA SameRemainder ==
    ASSUME NEW n \in Nat, NEW m \in Nat, n % Span = m % Span
    PROVE  (n - m) % Span = 0
<1> DEFINE q == n \div Span
           k == m \div Span
<1>1. q \in Int /\ k \in Int /\ n = q * Span + (n % Span) /\ m = k * Span + (m % Span)
      /\ n % Span \in Int
  BY SpanAssumption
<1> HIDE DEF q, k
<1>2. n - m = (q - k) * Span + 0
  BY <1>1, SpanAssumption
<1> QED
  BY <1>1, <1>2, Remainder, SpanAssumption DEF Words

(***************************************************************************)
(* The c-th connection has the id c, modulo Span.                          *)
(***************************************************************************)
Counted ==
    /\ \A c \in Conns : phase[c] \notin {"none", "accepted"} => sid[c] = c % Span
    /\ \A c \in Conns : phase[c] \in InOnAccept => c = arrived
    /\ \A c \in Conns : phase[c] = "accepted" => nextSessionId = arrived % Span
    /\ (\A c \in Conns : phase[c] # "accepted") => nextSessionId = (arrived + 1) % Span

\* The first connection has the id 1.
LEMMA CountedFirst == (0 + 1) % Span = 1
BY SpanAssumption, Remainder DEF Words

\* The id counter is the number of connections, modulo Span.
LEMMA CountedStep == IInv /\ Counted /\ [Next]_vars => Counted'
<1> SUFFICES ASSUME IInv, Counted, [Next]_vars PROVE Counted'
  OBVIOUS
<1>p. phase \in [Conns -> Phases] /\ sid \in [Conns -> Words] /\ arrived \in Int
  BY DEF IInv, TypeOK
<1>1. CASE OnAccept
  <2> DEFINE n == arrived + 1
  <2>1. n \in Conns /\ n \in Int
    BY <1>1, <1>p, BoundAssumption DEF OnAccept, IInv, TypeOK, Conns
  <2>2. /\ phase' = [phase EXCEPT ![n] = "accepted"] /\ arrived' = n
        /\ UNCHANGED <<nextSessionId, sid>>
    BY <1>1 DEF OnAccept, MoveTo, counters, n
  <2>3. \A c \in Conns : phase[c] \notin InOnAccept
    BY <1>1 DEF IInv, OneAtATime, OnAccept
  <2>4. nextSessionId = n % Span
    BY <2>3 DEF Counted, InOnAccept, n
  <2> HIDE DEF n
  <2> QED
    BY <1>p, <2>1, <2>2, <2>3, <2>4 DEF Counted, InOnAccept
<1>2. ASSUME NEW c \in Conns, TakeSessionId(c) PROVE Counted'
  <2>1. /\ phase[c] = "accepted" /\ phase' = [phase EXCEPT ![c] = "identified"]
        /\ sid' = [sid EXCEPT ![c] = nextSessionId] /\ nextSessionId' = Increment(nextSessionId)
        /\ arrived' = arrived
    BY <1>2 DEF TakeSessionId, MoveTo
  <2>2. c = arrived /\ nextSessionId = arrived % Span /\ arrived \in Nat
    BY <2>1 DEF Counted, InOnAccept, Conns
  <2>3. \A d \in Conns : phase[d] = "accepted" => d = c
    BY <2>1 DEF IInv, OneAtATime, InOnAccept
  <2>4. nextSessionId' = (arrived + 1) % Span
    BY <2>1, <2>2, IncrementCounts
  <2> QED
    BY <1>p, <2>1, <2>2, <2>3, <2>4 DEF Counted, InOnAccept
<1>3. ASSUME NEW c \in Conns, NEW p \in Phases \ {"none", "accepted"},
             phase[c] \notin {"none", "accepted"}, p \in InOnAccept => phase[c] \in InOnAccept,
             phase' = [phase EXCEPT ![c] = p],
             UNCHANGED <<arrived, nextSessionId, sid>>
      PROVE  Counted'
  BY <1>p, <1>3 DEF Counted, InOnAccept
<1>4. ASSUME NEW c \in Conns, AllocateClientIp(c) PROVE Counted'
  BY <1>3, <1>4 DEF AllocateClientIp, MoveTo, Phases, InOnAccept
<1>5. ASSUME NEW c \in Conns, StartHandshake(c) PROVE Counted'
  BY <1>3, <1>5 DEF StartHandshake, MoveTo, Phases, InOnAccept, counters
<1>6. ASSUME NEW c \in Conns, RemoteEndpointThrows(c) PROVE Counted'
  BY <1>3, <1>6 DEF RemoteEndpointThrows, MoveTo, Phases, InOnAccept, counters
<1>7. ASSUME NEW c \in Conns, HandshakeFails(c) PROVE Counted'
  BY <1>3, <1>7 DEF HandshakeFails, MoveTo, Phases, InOnAccept, counters
<1>8. ASSUME NEW c \in Conns, SslHandshakeDone(c) PROVE Counted'
  BY <1>3, <1>8 DEF SslHandshakeDone, MoveTo, Phases, InOnAccept, counters
<1>9. ASSUME NEW c \in Conns, RegisterSession(c) PROVE Counted'
  BY <1>3, <1>9 DEF RegisterSession, MoveTo, Phases, InOnAccept, counters
<1>10. ASSUME NEW c \in Conns, SessionEnds(c) PROVE Counted'
  BY <1>3, <1>10 DEF SessionEnds, MoveTo, Phases, InOnAccept, counters
<1>11. CASE AcceptError \/ UNCHANGED vars
  BY <1>11 DEF AcceptError, vars, counters, Counted
<1> QED
  BY <1>1, <1>2, <1>4, <1>5, <1>6, <1>7, <1>8, <1>9, <1>10, <1>11 DEF Next, OnAcceptStep

\* What Counted adds to the pairing of ids and addresses.
LEMMA SparedAddress == IInv /\ Counted => ServerAddressSpared
<1> SUFFICES ASSUME IInv, Counted, NEW c \in Conns, c <= Span - 2,
                    phase[c] \notin {"none", "accepted", "identified", "failed"}
             PROVE  vip[c] \notin {Base, IF Base + 1 < Span THEN Base + 1 ELSE 0}
  BY DEF ServerAddressSpared
<1>1. c \in Int /\ 1 <= c /\ c < Span - 1
  BY SpanAssumption, BoundAssumption DEF Conns
<1>2. sid[c] = c
  <2>1. c % Span = c
    BY <1>1, SpanAssumption, Remainder DEF Words
  <2> QED
    BY <1>1, <2>1 DEF Counted
<1>3. vip[c] = AddressAt(Increment(sid[c]))
  BY DEF IInv, TypeOK, Paired, Addressed
<1>4. vip[c] = AddressAt(c + 1)
  BY <1>1, <1>2, <1>3, SpanAssumption DEF Increment
<1> QED
  BY <1>1, <1>4, SpanAssumption, BaseAssumption DEF AddressAt

\* No connection gets the subnet's own address or the server's before 2^32 - 2 others
\* have been accepted, although every accepted connection uses up an address and the
\* sum with the base may wrap.
THEOREM ServerAddressSparedHolds == Spec => []ServerAddressSpared
<1>1. Init => Counted
  BY CountedFirst DEF Init, Counted, InOnAccept
<1> QED
  BY <1>1, SparedAddress, CountedStep, Invariant, PTL DEF Spec

(***************************************************************************)
(* Nothing erases an entry: an entered connection's id and address lead    *)
(* somewhere, if not to itself.                                            *)
(***************************************************************************)
Reached ==
    \A c \in Conns : phase[c] \in Entered =>
        sessions[sid[c]] # NoConn /\ ipToSession[vip[c]] # NoSession

\* Registrations overwrite entries, and no step erases one.
LEMMA ReachedStep == IInv /\ Reached /\ [Next]_vars => Reached'
<1> SUFFICES ASSUME IInv, Reached, [Next]_vars PROVE Reached'
  OBVIOUS
<1>p. /\ phase \in [Conns -> Phases] /\ sid \in [Conns -> Words] /\ vip \in [Conns -> Words]
      /\ sessions \in [Words -> Conns \cup {NoConn}]
      /\ ipToSession \in [Words -> Words \cup {NoSession}]
  BY DEF IInv, TypeOK
<1>1. ASSUME NEW c \in Conns, RegisterSession(c) PROVE Reached'
  <2>1. c # NoConn /\ sid[c] # NoSession
    BY <1>p, SpanAssumption, BoundAssumption DEF Conns, NoConn, Words, NoSession
  <2>2. /\ sessions' = [sessions EXCEPT ![sid[c]] = c]
        /\ ipToSession' = [ipToSession EXCEPT ![vip[c]] = sid[c]]
        /\ phase' = [phase EXCEPT ![c] = "registered"] /\ sid' = sid /\ vip' = vip
    BY <1>1 DEF RegisterSession, MoveTo
  <2> QED
    BY <1>p, <2>1, <2>2 DEF Reached, Entered
<1>2. ASSUME NEW c \in Conns, NEW p \in Phases, phase[c] \in Entered \/ p \notin Entered,
             phase[c] \in Entered => p \in Entered, phase' = [phase EXCEPT ![c] = p],
             UNCHANGED <<sid, vip, sessions, ipToSession>>
      PROVE  Reached'
  BY <1>p, <1>2 DEF Reached, Entered
<1>3. ASSUME NEW c \in Conns, TakeSessionId(c) \/ AllocateClientIp(c) PROVE Reached'
  BY <1>p, <1>3 DEF TakeSessionId, AllocateClientIp, MoveTo, tables, Reached, Entered
<1>4. ASSUME NEW c \in Conns, StartHandshake(c) \/ RemoteEndpointThrows(c) \/ HandshakeFails(c)
                              \/ SslHandshakeDone(c) \/ SessionEnds(c)
      PROVE  Reached'
  BY <1>p, <1>4 DEF StartHandshake, RemoteEndpointThrows, HandshakeFails, SslHandshakeDone,
                    SessionEnds, MoveTo, tables, Reached, Entered
<1>5. CASE OnAccept
  <2>1. arrived + 1 \in Conns /\ phase' = [phase EXCEPT ![arrived + 1] = "accepted"]
    BY <1>5, BoundAssumption DEF OnAccept, MoveTo, IInv, TypeOK, Conns
  <2> QED
    BY <1>p, <1>5, <2>1 DEF OnAccept, tables, Reached, Entered
<1>6. CASE AcceptError \/ UNCHANGED vars
  BY <1>6 DEF AcceptError, vars, tables, Reached
<1> QED
  BY <1>1, <1>3, <1>4, <1>5, <1>6 DEF Next, OnAcceptStep

\* Different ids have different addresses.
LEMMA AddressInjective ==
    ASSUME NEW i \in Words, NEW j \in Words, AddressAt(Increment(i)) = AddressAt(Increment(j))
    PROVE  i = j
BY SpanAssumption, BaseAssumption DEF Words, AddressAt, Increment

\* What Reached adds to the agreement of the two tables: an entry belongs to the
\* connection itself, unless one of the same id has been entered.
LEMMA OwnEntry == IInv /\ Counted /\ Reached => OwnRoute
<1> SUFFICES ASSUME IInv, Counted, Reached, NEW c \in Conns, phase[c] = "registered",
                    \A d \in Conns \ {c} : phase[d] \in {"registered", "gone"} =>
                        (c - d) % Span # 0
             PROVE  ipToSession[vip[c]] = sid[c] /\ sessions[sid[c]] = c
  BY DEF OwnRoute
<1>t. /\ sid \in [Conns -> Words] /\ vip \in [Conns -> Words]
      /\ sessions \in [Words -> Conns \cup {NoConn}]
      /\ ipToSession \in [Words -> Words \cup {NoSession}]
  BY DEF IInv, TypeOK
<1> DEFINE d == sessions[sid[c]]
           i == ipToSession[vip[c]]
           e == sessions[i]
<1>1. d \in Conns /\ phase[d] \in Entered /\ sid[d] = sid[c]
  BY <1>t DEF Reached, Entered, IInv, SessionsInv
<1>2. (c - d) % Span = 0
  <2>1. sid[c] = c % Span /\ sid[d] = d % Span /\ c \in Nat /\ d \in Nat
    BY <1>1 DEF Counted, Entered, Conns
  <2> QED
    BY <1>1, <2>1, SameRemainder
<1>3. d = c
  BY <1>1, <1>2 DEF Entered
<1>4. i \in Words /\ e \in Conns /\ vip[e] = vip[c] /\ sid[e] = i /\ phase[e] \in Entered
  <2>1. i \in Words /\ i # NoSession
    BY <1>t DEF Reached, Entered
  <2>2. e # NoConn /\ vip[e] = vip[c]
    BY <1>t, <2>1 DEF IInv, RouteTableConsistent
  <2> QED
    BY <1>t, <2>1, <2>2 DEF IInv, SessionsInv
<1>5. AddressAt(Increment(sid[e])) = AddressAt(Increment(sid[c]))
  BY <1>4 DEF IInv, Paired, Addressed, Entered, Phases
<1>6. i = sid[c]
  BY <1>t, <1>4, <1>5, AddressInjective
<1> QED
  BY <1>3, <1>6

\* A registered session's packets reach it, whatever other connections came, failed or
\* went since, until one exactly 2^32 connections away has been registered.
THEOREM OwnRouteHolds == Spec => []OwnRoute
<1>1. Init => Counted /\ Reached
  BY CountedFirst DEF Init, Counted, InOnAccept, Reached, Entered
<1> QED
  BY <1>1, OwnEntry, CountedStep, ReachedStep, Invariant, PTL DEF Spec
=============================================================================
