------------------------------ MODULE Acceptor ------------------------------
(***************************************************************************)
(* The server's accept pipeline and its routing tables: do_accept,         *)
(* on_accept, allocate_client_ip and register_session of                   *)
(* src/server/server.cpp.                                                  *)
(*                                                                         *)
(* on_accept runs on the acceptor's executor, any I/O thread; it cannot    *)
(* overlap itself because do_accept is its last call.  The handshakes of   *)
(* different connections complete in any order, on any thread, and only    *)
(* register_session takes sessions_mutex_.  Connections are numbered in    *)
(* the order they arrive.                                                  *)
(***************************************************************************)
EXTENDS Integers

CONSTANTS
    Span,            \* number of values of a uint32_t: 2^32 in the program
    Base,            \* the address of tun_subnet, in host order
    MaxConns         \* bound: connections that arrive

ASSUME SpanAssumption == Span \in Nat /\ Span > 2
ASSUME BaseAssumption == Base \in 0 .. Span - 1
ASSUME BoundAssumption == MaxConns \in Nat

Words     == 0 .. Span - 1
Conns     == 1 .. MaxConns
NoConn    == 0
NoSession == Span

VARIABLES
    tls,             \* config_.tls_enabled
    up,              \* the process runs
    accepting,       \* an async_accept is outstanding
    arrived,         \* connections accepted so far
    nextSessionId,   \* next_session_id_
    nextOffset,      \* next_client_ip_offset_
    phase,           \* where each connection is
    sid,             \* session id, once taken
    vip,             \* virtual address, once allocated
    sessions,        \* sessions_
    ipToSession      \* ip_to_session_

counters == <<nextSessionId, nextOffset>>
tables   == <<sessions, ipToSession>>
vars     == <<tls, up, accepting, arrived, counters, phase, sid, vip, tables>>

Phases == {"none", "accepted", "identified", "addressed", "sslHandshake",
           "wsAccept", "registered", "gone", "failed"}

\* Phases in which on_accept is still running on the connection's behalf.
InOnAccept == {"accepted", "identified", "addressed"}

TypeOK ==
    /\ tls \in BOOLEAN
    /\ up \in BOOLEAN
    /\ accepting \in BOOLEAN
    /\ arrived \in 0 .. MaxConns
    /\ nextSessionId \in Words
    /\ nextOffset \in Words
    /\ phase \in [Conns -> Phases]
    /\ sid \in [Conns -> Words]
    /\ vip \in [Conns -> Words]
    /\ sessions \in [Words -> Conns \cup {NoConn}]
    /\ ipToSession \in [Words -> Words \cup {NoSession}]

\* run() has listened and called do_accept.
Init ==
    /\ tls \in BOOLEAN
    /\ up = TRUE
    /\ accepting = TRUE
    /\ arrived = 0
    /\ nextSessionId = 1
    /\ nextOffset = 2
    /\ phase = [c \in Conns |-> "none"]
    /\ sid = [c \in Conns |-> 0]
    /\ vip = [c \in Conns |-> 0]
    /\ sessions = [i \in Words |-> NoConn]
    /\ ipToSession = [a \in Words |-> NoSession]

----------------------------------------------------------------------------
(* uint32_t arithmetic.                                                    *)

\* Broken variant: the counters are wider than the address arithmetic assumes.
Increment_NoWrap(n) == n + 1

\* fetch_add(1)
Increment(n) == IF n = Span - 1 THEN 0 ELSE n + 1

\* Broken variant: offsets are counted from the address after the base.
AddressAt_OneMore(offset) ==
    IF Base + offset + 1 < Span THEN Base + offset + 1 ELSE Base + offset + 1 - Span

\* allocate_client_ip: ntohl(base) + offset.  The conversions to and from network
\* order and dotted notation are inverse to each other.
AddressAt(offset) == IF Base + offset < Span THEN Base + offset ELSE Base + offset - Span

----------------------------------------------------------------------------
(* on_accept.                                                              *)

MoveTo(c, p) == phase' = [phase EXCEPT ![c] = p]

\* Broken variant: an accept error ends on_accept without another do_accept.
AcceptError_GivesUp ==
    /\ up /\ accepting
    /\ accepting' = FALSE
    /\ UNCHANGED <<tls, up, arrived, counters, phase, sid, vip, tables>>

\* An error: log, accept again, return.
AcceptError ==
    /\ up /\ accepting
    /\ accepting' = TRUE
    /\ UNCHANGED <<tls, up, arrived, counters, phase, sid, vip, tables>>

\* A connection: on_accept runs, with no other accept outstanding.
OnAccept ==
    /\ up /\ accepting
    /\ arrived < MaxConns
    /\ arrived' = arrived + 1
    /\ accepting' = FALSE
    /\ MoveTo(arrived + 1, "accepted")
    /\ UNCHANGED <<tls, up, counters, sid, vip, tables>>

TakeSessionId(c) ==
    /\ up /\ phase[c] = "accepted"
    /\ sid' = [sid EXCEPT ![c] = nextSessionId]
    /\ nextSessionId' = Increment(nextSessionId)
    /\ MoveTo(c, "identified")
    /\ UNCHANGED <<tls, up, accepting, arrived, nextOffset, vip, tables>>

AllocateClientIp(c) ==
    /\ up /\ phase[c] = "identified"
    /\ vip' = [vip EXCEPT ![c] = AddressAt(nextOffset)]
    /\ nextOffset' = Increment(nextOffset)
    /\ MoveTo(c, "addressed")
    /\ UNCHANGED <<tls, up, accepting, arrived, nextSessionId, sid, tables>>

\* Start the handshake the configuration asks for, then do_accept.
StartHandshake(c) ==
    /\ up /\ phase[c] = "addressed"
    /\ MoveTo(c, IF tls THEN "sslHandshake" ELSE "wsAccept")
    /\ accepting' = TRUE
    /\ UNCHANGED <<tls, up, arrived, counters, sid, vip, tables>>

\* remote_endpoint() throws when the peer has reset the connection by then; nothing
\* catches it on an I/O thread, and the process dies.
RemoteEndpointThrows(c) ==
    /\ up /\ phase[c] = "addressed"
    /\ MoveTo(c, "failed")
    /\ up' = FALSE
    /\ UNCHANGED <<tls, accepting, arrived, counters, sid, vip, tables>>

----------------------------------------------------------------------------
(* The handshakes.  A failed one drops the connection; the id and address  *)
(* it took are not given back.                                             *)

HandshakeFails(c) ==
    /\ up /\ phase[c] \in {"sslHandshake", "wsAccept"}
    /\ MoveTo(c, "failed")
    /\ UNCHANGED <<tls, up, accepting, arrived, counters, sid, vip, tables>>

\* The handler of the SSL handshake calls ws.async_accept with a completion handler
\* whose capture has moved ws away: the call is made on the moved-from stream, whose
\* implementation pointer is null, and the process dies.
SslHandshakeDone(c) ==
    /\ up /\ phase[c] = "sslHandshake"
    /\ MoveTo(c, "wsAccept")
    /\ up' = FALSE
    /\ UNCHANGED <<tls, accepting, arrived, counters, sid, vip, tables>>

\* Broken variant: the address is entered under the wrong session id.
RegisterSession_NextId(c) ==
    /\ up /\ phase[c] = "wsAccept"
    /\ sessions' = [sessions EXCEPT ![sid[c]] = c]
    /\ ipToSession' = [ipToSession EXCEPT ![vip[c]] = nextSessionId]
    /\ MoveTo(c, "registered")
    /\ UNCHANGED <<tls, up, accepting, arrived, counters, sid, vip>>

\* The WebSocket handshake is done: both tables are updated under sessions_mutex_.
\* Neither the number of sessions nor the request's path is looked at.
RegisterSession(c) ==
    /\ up /\ phase[c] = "wsAccept"
    /\ sessions' = [sessions EXCEPT ![sid[c]] = c]
    /\ ipToSession' = [ipToSession EXCEPT ![vip[c]] = sid[c]]
    /\ MoveTo(c, "registered")
    /\ UNCHANGED <<tls, up, accepting, arrived, counters, sid, vip>>

\* The session ends.  The tables keep its entries: nothing in the program erases them.
SessionEnds(c) ==
    /\ up /\ phase[c] = "registered"
    /\ MoveTo(c, "gone")
    /\ UNCHANGED <<tls, up, accepting, arrived, counters, sid, vip, tables>>

----------------------------------------------------------------------------
OnAcceptStep(c) ==
    \/ TakeSessionId(c)
    \/ AllocateClientIp(c)
    \/ StartHandshake(c)
    \/ RemoteEndpointThrows(c)

Next ==
    \/ AcceptError
    \/ OnAccept
    \/ \E c \in Conns :
          \/ OnAcceptStep(c)
          \/ HandshakeFails(c)
          \/ SslHandshakeDone(c)
          \/ RegisterSession(c)
          \/ SessionEnds(c)

Spec == Init /\ [][Next]_vars

----------------------------------------------------------------------------
(* Properties.                                                             *)

\* route_to_client finds, through ip_to_session_ and sessions_, a session whose own
\* virtual address is the packet's destination: the two maps agree although each is
\* filled from a counter of its own, in any order of registration, and stays so when
\* the 32-bit counters wrap and entries are overwritten.
RouteTableConsistent ==
    \A a \in Words :
        ipToSession[a] # NoSession =>
            /\ sessions[ipToSession[a]] # NoConn
            /\ vip[sessions[ipToSession[a]]] = a

\* A registered session is reached under its address unless another, a multiple of Span
\* connections away, got through with the same id: no other one can take its route.
OwnRoute ==
    \A c \in Conns :
        /\ phase[c] = "registered"
        /\ \A d \in Conns \ {c} : phase[d] \in {"registered", "gone"} => (c - d) % Span # 0
        => ipToSession[vip[c]] = sid[c] /\ sessions[sid[c]] = c

\* Every connection uses up an address, even one whose handshake fails, and none is
\* given back: the subnet's own address and the server's (the first after it) are
\* handed out only after all the others, once the counter has wrapped.
ServerAddressSpared ==
    \A c \in Conns :
        /\ c <= Span - 2
        /\ phase[c] \notin {"none", "accepted", "identified", "failed"}
        => vip[c] \notin {Base, IF Base + 1 < Span THEN Base + 1 ELSE 0}

\* The server always gets back to accepting, after an error or a connection, as long
\* as the process runs.
KeepsAccepting == []<>(accepting \/ ~up)

\* With TLS the server goes on from the SSL handshake to the WebSocket accept
\* ("do SSL handshake, then WS accept", server.cpp).
WsAcceptFollowsSsl ==
    [][\A c \in Conns : phase[c] = "sslHandshake" /\ phase'[c] = "wsAccept" => up']_vars
=============================================================================
