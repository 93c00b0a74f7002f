------------------------------- MODULE Tunnel -------------------------------
(***************************************************************************)
(* The tunnel from end to end: packets that leave one host's kernel through*)
(* its TUN device, cross a WebSocket and enter the other host's, over the  *)
(* connections one client makes one after the other (src/client/client.cpp,*)
(* src/server/session.cpp, src/server/server.cpp).  Wire says what happens *)
(* to the bytes, AuthToken who is let in; VirtualLink is what comes of it. *)
(*                                                                         *)
(* ClientTransport and WsSession show how frames leave their queues; here  *)
(* a direction of a connection is one queue, from send() to the peer's     *)
(* on_read, and on_connected, on_packet, handle_packet and route_to_client *)
(* are steps.  A transport the client has replaced lives on until its own  *)
(* read fails; frames that nobody will read any more are forgotten.        *)
(***************************************************************************)
EXTENDS Wire, AuthToken, FiniteSets

CONSTANTS
    NumSessions,     \* connections that reach the WebSocket
    Mtu,             \* the server's mtu; the client takes it over
    Sizes,           \* sizes of the packets the kernels send
    Secrets,         \* secrets a server or a client may be configured with
    Clocks,          \* what the clocks of the two hosts may show
    MaxPackets       \* bound: packets the kernels send

ASSUME MtuAssumption == Mtu \in 1 .. MAX_PAYLOAD /\ Sizes \subseteq 1 .. Mtu
ASSUME InputAssumption == NoSecret \in Secrets /\ Clocks \subseteq Times
ASSUME TunnelBounds == NumSessions \in Nat /\ MaxPackets \in Nat

Sessions == 1 .. NumSessions
VipOf(s) == s + 1
None     == 0
Packets  == [id : 1 .. MaxPackets, word : 0 .. NumSessions + 1, size : Sizes]

\* The two JSON documents.
Request(stamp, token) == [stamp |-> stamp, token |-> token, size |-> 1]
Answer(ok)            == [ok |-> ok, size |-> 1]

VARIABLES
    \* The client.
    platform,        \* what it was built for
    clientSecret, clientClock,
    running,         \* running_
    connected,       \* connected_
    current,         \* the connection ws_ stands for
    address,         \* the address of the TUN device, if it is open
    asked,           \* on_connected has sent the current connection's AuthRequest
    writable,        \* transports without a write error
    reading,         \* transports whose read loop runs
    holding,         \* what each TUN thread has read and not yet sent
    answered,        \* connections whose answer has been read
    stray,           \* history: the answer of a connection given up has opened the device
    \* The server.
    serverSecret, serverClock,
    verdict,         \* the outcome of handle_packet on each AuthRequest
    open,            \* sessions with connected_ set
    serving,         \* sessions whose read loop runs
    upQueue, downQueue,          \* frames sent and not yet read
    \* History: see VirtualLink.
    offered, taken, arrived,
    emitted          \* bound: packets sent by the kernels so far, or never to be sent

settings   == <<platform, clientSecret, clientClock, serverSecret, serverClock>>
device     == <<address, holding, answered, stray>>
transports == <<writable, reading>>
client     == <<running, connected, current, asked, transports, device>>
server     == <<verdict, open, serving>>
links      == <<upQueue, downQueue>>
packetVars == <<offered, taken, arrived>>
vars       == <<settings, client, server, links, packetVars, emitted>>

Admitted == {s \in Sessions : verdict[s] = "yes"}

Virtual == INSTANCE VirtualLink WITH Links <- Sessions, admitted <- Admitted

\* The strings of bytes and the frames there may be.
Strings == [of : Packets, lead : Nat, size : Nat]
Frames  == [header : [1 .. HEADER_SIZE -> 0 .. 255],
            payload : Strings \cup {Whole(Answer(TRUE))}
                      \cup {Whole(Request(c, <<k, c>>)) : c \in Clocks, k \in Secrets}]

\* A packet in a TUN thread's hands: the kernel's, and the bytes that were read.
Held == [packet : Packets, bytes : Strings]

TunnelTypeOK ==
    /\ platform \in Platforms
    /\ {clientSecret, serverSecret} \subseteq Secrets
    /\ {clientClock, serverClock} \subseteq Clocks
    /\ {running, connected, asked, stray} \subseteq BOOLEAN
    /\ current \in Sessions \cup {None}
    /\ address \in {VipOf(s) : s \in Sessions} \cup {None}
    /\ \A set \in {writable, reading, open, serving, answered} : set \subseteq Sessions
    /\ \A s \in Sessions : Cardinality(holding[s]) <= 1 /\ holding[s] \subseteq Held
    /\ verdict \in [Sessions -> {"none", "yes", "no", "never"}]
    /\ upQueue \in [Sessions -> Seq(Frames)] /\ downQueue \in [Sessions -> Seq(Frames)]
    /\ emitted \in 0 .. MaxPackets

Init ==
    /\ platform \in Platforms
    /\ clientSecret \in Secrets /\ serverSecret \in Secrets
    /\ clientClock \in Clocks /\ serverClock \in Clocks
    /\ running = TRUE /\ connected = FALSE /\ asked = TRUE
    /\ current = None /\ address = None
    /\ writable = {} /\ reading = {} /\ open = {} /\ serving = {} /\ answered = {}
    /\ stray = FALSE
    /\ holding = [s \in Sessions |-> {}]
    /\ verdict = [s \in Sessions |-> "none"]
    /\ upQueue = [s \in Sessions |-> <<>>] /\ downQueue = [s \in Sessions |-> <<>>]
    /\ Virtual!LinkInit
    /\ emitted \in 0 .. MaxPackets

----------------------------------------------------------------------------
(* Connections.                                                            *)

SendUp(s, frame)   == upQueue' = [upQueue EXCEPT ![s] = Append(@, frame)] /\ UNCHANGED downQueue
SendDown(s, frame) == downQueue' = [downQueue EXCEPT ![s] = Append(@, frame)] /\ UNCHANGED upQueue

\* The frames a failing connection has still let out.
Prefixes(queue) == {SubSeq(queue, 1, n) : n \in 0 .. Len(queue)}

\* No handler is under way on the client's I/O thread.
MainFree == running /\ asked

\* The WebSocket handshake of the next connection: the server starts its session, the
\* client's transport sets its connected_.
Connect(s) ==
    /\ MainFree /\ ~connected /\ current = s - 1
    /\ current' = s
    /\ asked' = FALSE
    /\ writable' = writable \cup {s} /\ reading' = reading \cup {s}
    /\ open' = open \cup {s} /\ serving' = serving \cup {s}
    /\ UNCHANGED <<settings, running, connected, device, verdict, links, packetVars, emitted>>

\* on_connected and send_auth, in the same handler: a TUN thread may see the transport's
\* connected_ before the AuthRequest is sent.
SendAuth ==
    /\ running /\ ~asked
    /\ connected' = TRUE /\ asked' = TRUE
    /\ SendUp(current, build_packet(MsgType.AuthRequest,
                 Whole(Request(clientClock, build_auth_token(clientSecret, clientClock)))))
    /\ UNCHANGED <<settings, running, current, transports, device, server, packetVars, emitted>>

\* Broken variant: the device is left open.
OnError_KeepsDevice == connected' = FALSE /\ UNCHANGED address

\* on_error: the first error takes the device down, whichever transport it is from.
OnError ==
    /\ connected' = FALSE
    /\ address' = IF connected THEN None ELSE address

ClientReadFails(s) ==
    /\ MainFree /\ s \in reading
    /\ reading' = reading \ {s}
    /\ downQueue' = [downQueue EXCEPT ![s] = <<>>]
    /\ OnError
    /\ UNCHANGED <<settings, running, current, asked, writable, holding, answered, stray, server,
                   upQueue, packetVars, emitted>>

\* The read loop of the transport goes on.
ClientWriteFails(s) ==
    /\ MainFree /\ s \in writable
    /\ writable' = writable \ {s}
    /\ \E q \in Prefixes(upQueue[s]) : upQueue' = [upQueue EXCEPT ![s] = q]
    /\ OnError
    /\ UNCHANGED <<settings, running, current, asked, reading, holding, answered, stray, server,
                   downQueue, packetVars, emitted>>

\* A write error: the read loop of the session goes on.
ServerWriteFails(s) ==
    /\ s \in open /\ verdict[s] # "never"
    /\ open' = open \ {s}
    /\ \E q \in Prefixes(downQueue[s]) : downQueue' = [downQueue EXCEPT ![s] = q]
    /\ UNCHANGED <<settings, client, verdict, serving, upQueue, packetVars, emitted>>

\* A read error, a Disconnect or an end of the connection.
ServerReadFails(s) ==
    /\ s \in serving /\ verdict[s] # "never"
    /\ open' = open \ {s} /\ serving' = serving \ {s}
    /\ upQueue' = [upQueue EXCEPT ![s] = <<>>]
    /\ \E q \in Prefixes(downQueue[s]) : downQueue' = [downQueue EXCEPT ![s] = q]
    /\ UNCHANGED <<settings, client, verdict, packetVars, emitted>>

----------------------------------------------------------------------------
(* TUN devices.                                                            *)

\* What the other kernel makes of a packet; only a whole one is the packet itself.
AsPacket(b) == IF b = Whole(b.of) THEN b.of ELSE b

Offers(d, s, p) ==
    /\ offered' = [offered EXCEPT ![d][s] = Append(@, p)]
    /\ UNCHANGED <<taken, arrived>>

\* A frame with a packet is dispatched; written: the device has taken what write_packet
\* gave it, which it does not when it would block, is closed or does not know the version.
Takes(d, s, host, payload, written) ==
    /\ taken' = [taken EXCEPT ![d][s] = @ + 1]
    /\ LET got == KernelGets(host, write_packet(host, payload))
       IN  arrived' = IF written THEN [arrived EXCEPT ![d][s] = Append(@, AsPacket(got))]
                                 ELSE arrived
    /\ UNCHANGED offered

\* The next packet of either kernel.
Emits(p) == emitted < MaxPackets /\ p.id = emitted + 1 /\ emitted' = emitted + 1

\* A TUN thread, held up until there is a device again if need be, reads a packet.
ClientTunRead(t) ==
    /\ running /\ t \in answered /\ address # None /\ holding[t] = {}
    /\ \E p \in Packets :
          /\ p.word = 0 /\ Emits(p)
          /\ holding' = [holding EXCEPT ![t] =
                            {[packet |-> p, bytes |-> b] : b \in read_packet(platform, p, Mtu)}]
    /\ UNCHANGED <<settings, running, connected, current, asked, transports, address, answered,
                   stray, server, links, packetVars>>

\* is_connected() of the transport ws_ stands for.
TransportConnected == running /\ current \in reading \cap writable

\* It hands the packet to whatever transport ws_ stands for by now, if that is connected.
ClientTunSend(t) ==
    /\ \E h \in holding[t] :
          IF TransportConnected
          THEN /\ SendUp(current, build_packet(MsgType.IpPacket, h.bytes))
               /\ Offers("up", current, h.packet)
          ELSE UNCHANGED <<links, packetVars>>
    /\ holding' = [holding EXCEPT ![t] = {}]
    /\ UNCHANGED <<settings, running, connected, current, asked, transports, address, answered,
                   stray, server, emitted>>

\* The server's TUN thread: a packet that route_to_client finds a session for.  One it
\* finds none for changes nothing.
ServerTun(s) ==
    /\ verdict[s] = "yes" /\ s \in open
    /\ \E p \in Packets : \E b \in read_packet("linux", p, Mtu) :
          /\ Emits(p)
          /\ Length(b) >= IP4_HEADER_SIZE
          /\ ip4_dst(b) = VipOf(s)
          /\ SendDown(s, build_packet(MsgType.IpPacket, b))
          /\ Offers("down", s, p)
    /\ UNCHANGED <<settings, client, server>>

----------------------------------------------------------------------------
(* Frames received.  FramesDecode: dispatch_packet drops none of those that *)
(* are sent here.                                                          *)

\* Broken variant: read_buf_ is not consumed.
ConsumeUp_Again(s) ==
    /\ s \in serving /\ verdict[s] # "never" /\ upQueue[s] # <<>>
    /\ upQueue' \in {upQueue, [upQueue EXCEPT ![s] = Tail(@)]}

\* on_read of a session: a handler that never returns is the last.
ConsumeUp(s) ==
    /\ s \in serving /\ verdict[s] # "never" /\ upQueue[s] # <<>>
    /\ upQueue' = [upQueue EXCEPT ![s] = Tail(@)]

\* handle_packet, AuthRequest.  A refusal is queued, but the session is closed before it
\* can leave (TunnelServer's RejectionSentBeforeClose), with what may be queued behind.
ServerAuth(s) ==
    /\ s \in serving /\ verdict[s] # "never" /\ upQueue[s] # <<>>
    /\ \E m \in dispatch_packet(Head(upQueue[s])) :
          /\ m.type = MsgType.AuthRequest
          /\ verdict' = [verdict EXCEPT ![s] = Verdict(serverSecret, m.payload.of.token,
                                                       m.payload.of.stamp, serverClock)]
    /\ \/ /\ verdict'[s] = "yes"
          /\ ConsumeUp(s)
          /\ downQueue' = IF s \notin open THEN downQueue ELSE
                 [downQueue EXCEPT ![s] =
                    Append(@, build_packet(MsgType.AuthResponse, Whole(Answer(TRUE))))]
          /\ UNCHANGED <<open, serving>>
       \/ /\ verdict'[s] = "no"
          /\ upQueue' = [upQueue EXCEPT ![s] = <<>>]
          /\ open' = open \ {s} /\ serving' = serving \ {s}
          /\ UNCHANGED downQueue
       \/ /\ verdict'[s] = "never"
          /\ upQueue' = [upQueue EXCEPT ![s] = <<>>]
          /\ UNCHANGED <<open, serving, downQueue>>
    /\ UNCHANGED <<settings, client, packetVars, emitted>>

\* Broken variant: authenticated_ is not tested.
ServerPacket_AnyClient(s) ==
    /\ ConsumeUp(s)
    /\ \E m \in dispatch_packet(Head(upQueue[s])), written \in BOOLEAN :
          /\ m.type = MsgType.IpPacket
          /\ Takes("up", s, "linux", m.payload, written)
    /\ UNCHANGED <<settings, client, server, downQueue, emitted>>

\* handle_packet, IpPacket: dropped before authentication, and when the device does not
\* take it.
ServerPacket(s) ==
    /\ ConsumeUp(s)
    /\ \E m \in dispatch_packet(Head(upQueue[s])), written \in BOOLEAN :
          /\ m.type = MsgType.IpPacket
          /\ written => verdict[s] = "yes"
          /\ Takes("up", s, "linux", m.payload, written)
    /\ UNCHANGED <<settings, client, server, downQueue, emitted>>

ConsumeDown(s) ==
    /\ MainFree /\ s \in reading /\ downQueue[s] # <<>>
    /\ downQueue' = [downQueue EXCEPT ![s] = Tail(@)]

\* on_packet, AuthResponse: the device is opened, or run() is left by stop().  Nothing
\* looks at which connection the answer is from.
ClientAnswer(s) ==
    /\ ConsumeDown(s)
    /\ \E m \in dispatch_packet(Head(downQueue[s])) : m.type = MsgType.AuthResponse
    /\ answered' = answered \cup {s}
    /\ \/ /\ address' = VipOf(s)
          /\ stray' = (stray \/ s # current \/ ~connected)
          /\ UNCHANGED running
       \/ /\ running' = FALSE /\ address' = None
          /\ UNCHANGED stray
    /\ UNCHANGED <<settings, connected, current, asked, transports, holding, server, upQueue,
                   packetVars, emitted>>

\* on_packet, IpPacket.
ClientPacket(s) ==
    /\ ConsumeDown(s)
    /\ \E m \in dispatch_packet(Head(downQueue[s])), written \in BOOLEAN :
          /\ m.type = MsgType.IpPacket
          /\ written => address # None
          /\ Takes("down", s, platform, m.payload, written)
    /\ UNCHANGED <<settings, client, server, upQueue, emitted>>

----------------------------------------------------------------------------
Next ==
    \/ SendAuth
    \/ \E s \in Sessions :
          \/ Connect(s)
          \/ ClientReadFails(s)
          \/ ClientWriteFails(s)
          \/ ServerWriteFails(s)
          \/ ServerReadFails(s)
          \/ ClientTunRead(s)
          \/ ClientTunSend(s)
          \/ ServerTun(s)
          \/ ServerAuth(s)
          \/ ServerPacket(s)
          \/ ClientAnswer(s)
          \/ ClientPacket(s)

Spec == Init /\ [][Next]_vars

\* Threads are scheduled, and a connection that has not failed carries its frames.
Fairness ==
    /\ WF_vars(SendAuth)
    /\ \A s \in Sessions :
          /\ WF_vars(ServerAuth(s)) /\ WF_vars(ServerPacket(s))
          /\ WF_vars(ClientAnswer(s)) /\ WF_vars(ClientPacket(s))

FairSpec == Spec /\ Fairness

----------------------------------------------------------------------------
(* Properties.                                                             *)

\* The tunnel is a VirtualLink: whatever connections fail and are replaced, however TUN
\* threads, old transports and the address families of utun get mixed, no packet reaches
\* the other host changed, twice, out of order, from a client that was not let in or for
\* another one's address.
ImplementsVirtualLink == Virtual!LinkSpec

\* What it comes to after any number of steps: the packets write_packet has put on the
\* device of a host are those read_packet took from the other's for this connection, in
\* order and none twice, with some left out; at the server none but those of clients let
\* in, at a client none but those for its address.
PacketsInOrder == Virtual!DeliveredInOrder

\* dispatch_packet makes of every frame on its way just what build_packet was given, up
\* to packets of the largest MTU a device can have, which fill a frame to its last byte.
FramesDecode ==
    \A s \in Sessions :
        \A queue \in {upQueue[s], downQueue[s]} : \A i \in DOMAIN queue :
            dispatch_packet(queue[i]) =
                {[type |-> queue[i].header[1], payload |-> queue[i].payload]}

\* A clock that stays away from both ends of the word by more than the window.
Plausible(t) == t \in Window .. TimeSpan - Window - 2

\* The verdict is never wrong in the client's favour; and while neither clock is within
\* a window of the ends of the 64-bit word, where the loop's bounds wrap, it is given,
\* right, and does not depend on the two clocks agreeing.
VerdictExact ==
    \A s \in Sessions :
        verdict[s] # "none" =>
            /\ verdict[s] = "yes" => serverSecret \in {NoSecret, clientSecret}
            /\ Plausible(clientClock) /\ Plausible(serverClock) =>
                   verdict[s] = IF serverSecret \in {NoSecret, clientSecret} THEN "yes" ELSE "no"

\* The TUN device has the address of the connection ws_ stands for, so that answers to
\* the packets it sends come back on it, unless on_packet took the answer of a
\* connection that was given up.
AddressOfCurrent == connected /\ address # None /\ ~stray => address = VipOf(current)

\* A client that has asked gets its answer, unless it is refused, the connection fails
\* or the server's search for a matching time has no end.
AskedIsAnswered ==
    \A s \in Sessions :
        connected /\ current = s ~>
            \/ s \in answered
            \/ ~running \/ ~connected \/ current # s
            \/ verdict[s] \in {"no", "never"}
            \/ s \notin open
=============================================================================
