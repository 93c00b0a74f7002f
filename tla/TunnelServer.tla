---------------------------- MODULE TunnelServer ----------------------------
(***************************************************************************)
(* The running server: ClientSession::handle_packet on each session's      *)
(* strand, the TUN thread that routes packets to sessions, the pool of I/O *)
(* threads, and stop().  It composes WsSession, which supplies every       *)
(* session's send(), close() and completion handlers, with                 *)
(* src/server/session.cpp and src/server/server.cpp.                       *)
(*                                                                         *)
(* Session ids run from 1 and the offsets of virtual addresses from 2, in  *)
(* step, whatever order registrations take (Acceptor): VipOf.              *)
(* handle_packet is modelled call by call, so that the TUN thread, which   *)
(* reads authenticated_ and connected_ without any lock the strand takes,  *)
(* may run between any two of its calls.                                   *)
(***************************************************************************)
EXTENDS Naturals, Sequences, FiniteSets

CONSTANTS
    NumSessions,     \* sessions whose WebSocket handshake completes
    IoThreads,       \* threads that run the io_context
    MaxRequests,     \* bound: frames received from all clients
    MaxPackets       \* bound: packets read from the TUN device

ASSUME NumAssumption == NumSessions \in Nat /\ IoThreads \in Nat \ {0}
ASSUME BoundAssumption == MaxRequests \in Nat /\ MaxPackets \in Nat

Sessions == 1 .. NumSessions
VipOf(s) == s + 1
Addresses == 1 .. NumSessions + 1       \* the server's own address and the clients'
NoSession == 0

\* Frames the server sends: a packet carries its destination address.
Plain(k)  == [kind |-> k, dst |-> 0]
Packet(a) == [kind |-> "ipPacket", dst |-> a]
Replies   == {Plain(k) : k \in {"authOk", "authNo", "echo"}}
Frames    == Replies \cup {Packet(a) : a \in Addresses}

\* Frames a client sends.  "echo" is a keepalive or a ping, answered by a keepalive or
\* a pong; "silent" one that has no answer: an IP packet, a type handle_packet ignores,
\* or what dispatch_packet drops (a short, oversized or incomplete frame).
Requests == {"authGood", "authBad", "echo", "disconnect", "silent"}
Close    == Plain("close")
TunThread == "tun"

VARIABLES
    started, connected, writeQueue, writing, writePending, posted, writes,
    reading, strand, holding, accepted, wire,          \* see WsSession
    registered,      \* sessions in sessions_
    ipToSession,     \* ip_to_session_
    authenticated,   \* authenticated_
    calls,           \* the calls handle_packet has still to make
    routing,         \* <<session, address>> that route_to_client has looked up
    stopped,         \* stop() has been called
    requests,        \* bound: frames received so far
    packets,         \* bound: packets read so far
    late             \* history: frames enqueued on a session after its disconnection

wsVars   == <<started, connected, writeQueue, writing, writePending, posted, writes,
              reading, strand, holding, accepted, wire>>
tables   == <<registered, ipToSession>>
session  == <<authenticated, calls, requests>>
router   == <<routing, packets, late>>
vars     == <<wsVars, tables, session, router, stopped>>

Ws == INSTANCE WsSession WITH
          Senders <- {TunThread}, Msgs <- Frames, MaxSends <- MaxRequests + MaxPackets

NotRouting == <<>>

TypeOK ==
    /\ Ws!TypeOK
    /\ registered \in [Sessions -> BOOLEAN]
    /\ ipToSession \in [Addresses -> Sessions \cup {NoSession}]
    /\ authenticated \in [Sessions -> BOOLEAN]
    /\ calls \in [Sessions -> Seq(Replies \cup {Close})]
    /\ routing \in {NotRouting} \cup (Sessions \X Addresses)
    /\ stopped \in BOOLEAN
    /\ requests \in 0 .. MaxRequests
    /\ packets \in 0 .. MaxPackets
    /\ late \in [Sessions -> Nat]

Init ==
    /\ Ws!Init
    /\ registered = [s \in Sessions |-> FALSE]
    /\ ipToSession = [a \in Addresses |-> NoSession]
    /\ authenticated = [s \in Sessions |-> FALSE]
    /\ calls = [s \in Sessions |-> <<>>]
    /\ routing = NotRouting
    /\ stopped = FALSE
    /\ requests = 0
    /\ packets = 0
    /\ late = [s \in Sessions |-> 0]

\* An I/O thread can take up a handler: the io_context is not stopped and not every
\* thread is inside a packet handler or a blocking ws_.close().
IoThreadFree ==
    /\ ~stopped
    /\ Cardinality({s \in Sessions : strand[s] # "idle"}) < IoThreads

\* route_to_client holds sessions_mutex_ from its lookup to the end of its send().
SessionsMutexFree == routing = NotRouting /\ holding[TunThread] = Ws!NotSending

----------------------------------------------------------------------------
(* register_session: the tables under sessions_mutex_, then start().       *)

Register(s) ==
    /\ IoThreadFree /\ SessionsMutexFree /\ ~registered[s]
    /\ registered' = [registered EXCEPT ![s] = TRUE]
    /\ ipToSession' = [ipToSession EXCEPT ![VipOf(s)] = s]
    /\ UNCHANGED <<wsVars, session, router, stopped>>

StartSession(s) ==
    /\ registered[s]
    /\ Ws!Start(s)
    /\ UNCHANGED <<tables, session, router, stopped>>

----------------------------------------------------------------------------
(* handle_packet.                                                          *)

\* Broken variant: a refused client is answered but not disconnected.
CallsFor_NoClose(r) ==
    CASE r = "authGood"   -> <<Plain("authOk")>>
      [] r = "authBad"    -> <<Plain("authNo")>>
      [] r = "echo"       -> <<Plain("echo")>>
      [] OTHER            -> <<>>

\* Broken variant: the answer to a successful request is left out.
CallsFor_NoAnswer(r) == IF r = "disconnect" THEN <<Close>> ELSE <<>>

\* The calls each type of frame leads to, after the assignment to authenticated_.
CallsFor(r) ==
    CASE r = "authGood"   -> <<Plain("authOk")>>
      [] r = "authBad"    -> <<Plain("authNo"), Close>>
      [] r = "echo"       -> <<Plain("echo")>>
      [] r = "disconnect" -> <<Close>>
      [] OTHER            -> <<>>

\* on_read dispatches a frame: authenticated_ is set before any call is made.  A
\* packet from an authenticated client goes to the TUN device, outside this model.
Receive(s, r) ==
    /\ IoThreadFree
    /\ requests < MaxRequests
    /\ Ws!OnRead(s)
    /\ authenticated' = [authenticated EXCEPT ![s] =
                            IF r \in {"authGood", "authBad"} THEN r = "authGood" ELSE @]
    /\ calls' = [calls EXCEPT ![s] = CallsFor(r)]
    /\ requests' = requests + 1
    /\ UNCHANGED <<tables, router, stopped>>

\* The handler makes its next call.  It holds its thread, whatever stop() does.
HandlerCall(s) ==
    /\ calls[s] # <<>>
    /\ IF Head(calls[s]) = Close THEN Ws!HandlerClose(s) ELSE Ws!HandlerSend(s, Head(calls[s]))
    /\ calls' = [calls EXCEPT ![s] = Tail(@)]
    /\ UNCHANGED <<tables, authenticated, requests, router, stopped>>

\* Broken variant: a handler waits for the io_context to run again after stop().
HandlerDone_WaitsForContext(s) ==
    /\ calls[s] = <<>> /\ ~stopped
    /\ Ws!HandlerReturn(s)
    /\ UNCHANGED <<tables, session, router, stopped>>

\* handle_packet has returned and on_read issues the next read.
HandlerDone(s) ==
    /\ calls[s] = <<>>
    /\ Ws!HandlerReturn(s)
    /\ UNCHANGED <<tables, session, router, stopped>>

\* The peer lets a blocked ws_.close() go.
CloseReturns(s) ==
    /\ Ws!CloseReturns(s)
    /\ UNCHANGED <<tables, session, router, stopped>>

----------------------------------------------------------------------------
(* The other handlers of the strand need a thread of the pool.             *)

RunPosted(s) ==
    /\ IoThreadFree /\ Ws!RunPosted(s)
    /\ UNCHANGED <<tables, session, router, stopped>>

WriteCompletes(s) ==
    /\ IoThreadFree /\ Ws!WriteCompletes(s)
    /\ UNCHANGED <<tables, session, router, stopped>>

ReadFails(s) ==
    /\ IoThreadFree /\ Ws!OnReadError(s)
    /\ UNCHANGED <<tables, session, router, stopped>>

----------------------------------------------------------------------------
(* The TUN thread: tun_read_loop and route_to_client.                      *)

\* A packet for address a is read; the session is looked up and found authenticated,
\* or the packet is dropped.
Route(a) ==
    /\ ~stopped /\ SessionsMutexFree /\ packets < MaxPackets
    /\ packets' = packets + 1
    /\ LET s == ipToSession[a] IN
       routing' = IF s # NoSession /\ authenticated[s] THEN <<s, a>> ELSE NotRouting
    /\ UNCHANGED <<wsVars, tables, session, late, stopped>>

\* send_ip_packet: send() finds the session connected ...
SendIpPacket ==
    /\ routing # NotRouting
    /\ Ws!SendCheck(TunThread, routing[1], Packet(routing[2]))
    /\ routing' = NotRouting
    /\ UNCHANGED <<tables, session, packets, late, stopped>>

\* ... or does not, and the packet is dropped.
DropIpPacket ==
    /\ routing # NotRouting
    /\ ~connected[routing[1]]
    /\ routing' = NotRouting
    /\ UNCHANGED <<wsVars, tables, session, packets, late, stopped>>

\* The locked part of send().
EnqueueIpPacket ==
    /\ Ws!SendEnqueue(TunThread)
    /\ LET s == holding[TunThread][1] IN
       late' = [late EXCEPT ![s] = IF connected[s] THEN @ ELSE @ + 1]
    /\ UNCHANGED <<tables, session, routing, packets, stopped>>

\* stop(), from the signal handler: the io_context starts no further handler and the
\* TUN device is closed, which ends tun_read_loop.
Stop == ~stopped /\ stopped' = TRUE /\ UNCHANGED <<wsVars, tables, session, router>>

----------------------------------------------------------------------------
HandlerStep(s) == HandlerCall(s) \/ HandlerDone(s)
TunStep        == SendIpPacket \/ DropIpPacket \/ EnqueueIpPacket

Next ==
    \/ \E s \in Sessions :
          \/ Register(s)
          \/ StartSession(s)
          \/ \E r \in Requests : Receive(s, r)
          \/ HandlerStep(s)
          \/ CloseReturns(s)
          \/ RunPosted(s)
          \/ WriteCompletes(s)
          \/ ReadFails(s)
    \/ \E a \in Addresses : Route(a)
    \/ TunStep
    \/ Stop

Spec == Init /\ [][Next]_vars

(***************************************************************************)
(* Fairness: a thread inside a handler or inside route_to_client is        *)
(* scheduled; a ready handler is taken up, in FIFO order, whenever threads *)
(* keep becoming free.  Nothing makes ws_.close() return: it is            *)
(* synchronous and the stream's timeouts do not apply to it.               *)
(***************************************************************************)
Fairness ==
    /\ \A s \in Sessions :
          /\ WF_vars(HandlerStep(s))
          /\ SF_vars(RunPosted(s))
          /\ SF_vars(WriteCompletes(s))
    /\ WF_vars(TunStep)

FairSpec == Spec /\ Fairness

----------------------------------------------------------------------------
(* Properties.                                                             *)

\* A tunnelled packet is handed to a session's socket only if it is addressed to that
\* session's client and the session is authenticated at that moment, although the TUN
\* thread tests authenticated_ long before, and a second, refused AuthRequest may
\* have cleared it since: the strand closes the session before it writes again.
TunnelledOnlyToOwner ==
    [][\A s \in Sessions :
          writes'[s] > 0 /\ writeQueue[s] # <<>> /\ writeQueue'[s] = Tail(writeQueue[s])
             /\ Head(writeQueue[s]).kind = "ipPacket"
          => authenticated[s] /\ Head(writeQueue[s]).dst = VipOf(s)]_vars

\* Sessions stay in sessions_ for ever, so what they hold must not grow once they are
\* dead: at most one packet, whose send() was past its test of connected_, is added
\* to the queue of a disconnected session, however many are routed to its address.
DeadQueueBounded == \A s \in Sessions : late[s] <= 1

\* A client the server considers authenticated, and routes packets to, has its answer
\* on the way, unless the session went down first.
AnswerAccepted ==
    \A s \in Sessions :
        authenticated[s] /\ connected[s] /\ calls[s] = <<>> =>
            \E i \in 1..Len(accepted[s]) : accepted[s][i] = Plain("authOk")

\* Every thread of the pool is blocked in ws_.close().
PoolBlocked == Cardinality({s \in Sessions : strand[s] = "closing"}) >= IoThreads

\* Every frame a connected session accepts leaves it, unless the session or the server
\* goes down or all I/O threads get stuck in ws_.close(): one stuck client alone does
\* not stop another's traffic while a thread is left.
FramesLeave ==
    \A s \in Sessions : \A n \in 1 .. MaxRequests + MaxPackets :
        connected[s] /\ Len(accepted[s]) >= n
           ~> Len(wire[s]) >= n \/ ~connected[s] \/ stopped \/ PoolBlocked

\* After stop() every packet handler ends, save those blocked in ws_.close(): only
\* these can keep run() from joining its threads.
ShutdownQuiesces == stopped ~> \A s \in Sessions : strand[s] \in {"idle", "closing"}

\* A refused client is told so: "Close connection after sending rejection"
\* (session.cpp).
RejectionSentBeforeClose ==
    \A s \in Sessions :
        strand[s] = "closing" /\ (\E i \in 1..Len(accepted[s]) : accepted[s][i] = Plain("authNo"))
           => \E i \in 1..Len(wire[s]) : wire[s][i] = Plain("authNo")
=============================================================================
