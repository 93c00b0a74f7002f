------------------------- MODULE TunnelServerProofs -------------------------
(***************************************************************************)
(* Theorems of TunnelServer for any number of sessions and of I/O threads  *)
(* and any bound on requests and packets.  The three properties are about  *)
(* what the TUN thread does with a session whose strand goes on meanwhile. *)
(* None is inductive: each is a fact about one moment, and IInv is what    *)
(* makes it true at that moment, followed from the routing table through   *)
(* routing, holding and the write queue to the socket.                     *)
(***************************************************************************)
EXTENDS TunnelServer, SequenceTheorems, TLAPS

\* The write path's own theorems, for the sessions of this server.
WsP == INSTANCE WsSessionProofs WITH
           Senders <- {TunThread}, Msgs <- Frames, MaxSends <- MaxRequests + MaxPackets

----------------------------------------------------------------------------
(* The inductive invariant.                                                *)

FramesIn(q) == {q[i] : i \in 1..Len(q)}

\* An address is mapped to the session it belongs to, and a packet on its way to a
\* session (looked up, tested or queued) is addressed to it.
Addressed ==
    /\ \A a \in Addresses : ipToSession[a] # NoSession => a = VipOf(ipToSession[a])
    /\ routing # NotRouting => routing[2] = VipOf(routing[1])
    /\ holding[TunThread] # Ws!NotSending =>
           holding[TunThread][2] = Packet(VipOf(holding[TunThread][1]))
    /\ \A s \in Sessions : \A m \in FramesIn(writeQueue[s]) :
           m.kind = "ipPacket" => m.dst = VipOf(s)

\* A packet is on its way to session s.
PacketFor(s) ==
    \/ routing # NotRouting /\ routing[1] = s
    \/ holding[TunThread] # Ws!NotSending /\ holding[TunThread][1] = s
    \/ \E m \in FramesIn(writeQueue[s]) : m.kind = "ipPacket"

\* A handler's calls end before it returns, and nothing happens to a session that has
\* not been started.
Strand(s) ==
    /\ strand[s] = "idle" => calls[s] = <<>>
    /\ strand[s] # "idle" \/ reading[s] \/ authenticated[s] => started[s]
    /\ routing # NotRouting /\ routing[1] = s => started[s]

\* A connected client that packets are on the way to is authenticated, or the handler
\* that refused it is about to close the session.
Guarded(s) ==
    connected[s] /\ PacketFor(s) =>
        authenticated[s] \/ calls[s] \in {<<Plain("authNo"), Close>>, <<Close>>}

\* The client of an authenticated session has its answer, or is about to get it.
Answered(s) ==
    authenticated[s] /\ connected[s] =>
        calls[s] = <<Plain("authOk")>> \/ Plain("authOk") \in FramesIn(accepted[s])

\* The one packet that may follow a disconnection was the one send() held.
Late(s) ==
    /\ late[s] <= 1
    /\ late[s] = 1 =>
          /\ started[s] /\ ~connected[s]
          /\ holding[TunThread] # Ws!NotSending => holding[TunThread][1] # s

SessionInv == \A s \in Sessions : Strand(s) /\ Guarded(s) /\ Answered(s) /\ Late(s)

IInv == TypeOK /\ WsP!ChainInv /\ WsP!HoldingInv /\ Addressed /\ SessionInv

----------------------------------------------------------------------------
(* The server and the write path.                                          *)

\* What appending and taking off a frame do to the set of those queued.
LEMMA FramesInAppend ==
    ASSUME NEW S, NEW q \in Seq(S), NEW m \in S
    PROVE  FramesIn(Append(q, m)) = FramesIn(q) \cup {m}
BY AppendProperties DEF FramesIn

\* What remains in a queue, and the frame taken from it, were in it.
LEMMA FramesInTail ==
    ASSUME NEW S, NEW q \in Seq(S), q # <<>>
    PROVE  FramesIn(Tail(q)) \subseteq FramesIn(q) /\ Head(q) \in FramesIn(q)
BY HeadTailProperties DEF FramesIn

\* A session's packets are those of the write path: every step of the server is a
\* step of the write path or leaves it alone.
LEMMA WsStep == TypeOK /\ [Next]_vars => [WsP!Next]_(WsP!vars)
<1> SUFFICES ASSUME TypeOK, [Next]_vars PROVE [WsP!Next]_(WsP!vars)
  OBVIOUS
<1> USE DEF Ws!writeVars, Ws!strandVars, WsP!writeVars, WsP!strandVars
<1>1. ASSUME UNCHANGED wsVars PROVE UNCHANGED WsP!vars
  BY <1>1 DEF wsVars, WsP!vars
<1>2. ASSUME NEW s \in Sessions, StartSession(s) PROVE WsP!Next
  BY <1>2 DEF StartSession, Ws!Start, WsP!Start, WsP!Next
<1>3. ASSUME NEW s \in Sessions, NEW r \in Requests, Receive(s, r) PROVE WsP!Next
  BY <1>3 DEF Receive, Ws!OnRead, WsP!OnRead, WsP!Next
<1>4. ASSUME NEW s \in Sessions, HandlerCall(s) PROVE WsP!Next
  <2>1. CASE Head(calls[s]) = Close
    BY <1>4, <2>1 DEF HandlerCall, Ws!HandlerClose, WsP!HandlerClose, WsP!Next
  <2>2. CASE Head(calls[s]) # Close
    <3>1. Head(calls[s]) \in Frames
      BY <1>4, <2>2, HeadTailProperties DEF TypeOK, HandlerCall, Frames
    <3>2. WsP!HandlerSend(s, Head(calls[s]))
      BY <1>4, <2>2 DEF HandlerCall, Ws!HandlerSend, WsP!HandlerSend, Ws!Enqueue, WsP!Enqueue
    <3> QED
      BY <3>1, <3>2 DEF WsP!Next
  <2> QED
    BY <2>1, <2>2
<1>5. ASSUME NEW s \in Sessions, HandlerDone(s) PROVE WsP!Next
  BY <1>5 DEF HandlerDone, Ws!HandlerReturn, WsP!HandlerReturn, WsP!Next
<1>6. ASSUME NEW s \in Sessions, CloseReturns(s) PROVE WsP!Next
  BY <1>6 DEF CloseReturns, Ws!CloseReturns, WsP!CloseReturns, WsP!Next
<1>7. ASSUME NEW s \in Sessions, RunPosted(s) PROVE WsP!Next
  BY <1>7 DEF RunPosted, Ws!RunPosted, WsP!RunPosted, Ws!DoWrite, WsP!DoWrite, Ws!SkipWrite,
              WsP!SkipWrite, Ws!GoIdle, WsP!GoIdle, Ws!WriteFront, WsP!WriteFront, WsP!Next
<1>8. ASSUME NEW s \in Sessions, WriteCompletes(s) PROVE WsP!Next
  <2>1. CASE Ws!OnWriteOk(s)
    BY <2>1 DEF Ws!OnWriteOk, WsP!OnWriteOk, Ws!DoWrite, WsP!DoWrite, Ws!SkipWrite,
                WsP!SkipWrite, Ws!GoIdle, WsP!GoIdle, Ws!WriteFront, WsP!WriteFront, WsP!Next
  <2>2. CASE Ws!OnWriteError(s)
    BY <2>2 DEF Ws!OnWriteError, WsP!OnWriteError, WsP!Next
  <2> QED
    BY <1>8, <2>1, <2>2 DEF WriteCompletes, Ws!WriteCompletes
<1>9. ASSUME NEW s \in Sessions, ReadFails(s) PROVE WsP!Next
  BY <1>9 DEF ReadFails, Ws!OnReadError, WsP!OnReadError, WsP!Next
<1>10. CASE SendIpPacket
  <2>1. routing[1] \in Sessions /\ routing[2] \in Addresses
    BY <1>10 DEF TypeOK, SendIpPacket
  <2>2. Packet(routing[2]) \in Frames
    BY <2>1 DEF Frames
  <2>3. WsP!SendCheck(TunThread, routing[1], Packet(routing[2]))
    BY <1>10 DEF SendIpPacket, Ws!SendCheck, WsP!SendCheck, Ws!NotSending, WsP!NotSending
  <2> QED
    BY <2>1, <2>2, <2>3 DEF WsP!Next
<1>11. CASE EnqueueIpPacket
  <2>1. WsP!SendEnqueue(TunThread)
    BY <1>11 DEF EnqueueIpPacket, Ws!SendEnqueue, WsP!SendEnqueue, Ws!NotSending,
                 WsP!NotSending, Ws!Enqueue, WsP!Enqueue
  <2> QED
    BY <2>1 DEF WsP!Next
<1>12. ASSUME \/ \E s \in Sessions : Register(s)
              \/ \E a \in Addresses : Route(a)
              \/ DropIpPacket \/ Stop \/ UNCHANGED vars
       PROVE  UNCHANGED wsVars
  BY <1>12 DEF Register, Route, DropIpPacket, Stop, vars
<1> QED
  BY <1>1, <1>2, <1>3, <1>4, <1>5, <1>6, <1>7, <1>8, <1>9, <1>10, <1>11, <1>12
     DEF Next, HandlerStep, TunStep


\* The invariants WsSession's proofs establish hold here as well.
LEMMA WsInvStep ==
    ASSUME TypeOK, WsP!ChainInv, WsP!HoldingInv, [Next]_vars
    PROVE  Ws!TypeOK' /\ WsP!ChainInv' /\ WsP!HoldingInv'
<1> USE DEF Ws!TypeOK, WsP!TypeOK, Ws!StrandStates, WsP!StrandStates, Ws!NotSending,
            WsP!NotSending
<1>0. MaxRequests + MaxPackets \in Nat
  BY BoundAssumption
<1>1. WsP!TypeOK
  BY DEF TypeOK
<1>2. WsP!IInv
  BY <1>1 DEF WsP!IInv
<1>3. WsP!TypeOK' => Ws!TypeOK'
  OBVIOUS
<1> QED
  BY <1>0, <1>1, <1>2, <1>3, WsStep, WsP!TypeStep, WsP!ChainStep

\* Every step keeps the types of the server's own variables.
LEMMA TypeStep ==
    ASSUME TypeOK, WsP!ChainInv, WsP!HoldingInv, [Next]_vars
    PROVE  TypeOK'
<1>0. Ws!TypeOK'
  BY WsInvStep
<1> DEFINE Own == /\ registered \in [Sessions -> BOOLEAN]
                  /\ ipToSession \in [Addresses -> Sessions \cup {NoSession}]
                  /\ authenticated \in [Sessions -> BOOLEAN]
                  /\ calls \in [Sessions -> Seq(Replies \cup {Close})]
                  /\ routing \in {NotRouting} \cup (Sessions \X Addresses)
                  /\ stopped \in BOOLEAN
                  /\ requests \in 0 .. MaxRequests
                  /\ packets \in 0 .. MaxPackets
                  /\ late \in [Sessions -> Nat]
<1>t. Own
  BY DEF TypeOK
<1>1. ASSUME NEW s \in Sessions, Register(s) PROVE Own'
  BY <1>1, <1>t, NumAssumption DEF Register, session, router, VipOf, Addresses, Sessions
<1>2. ASSUME NEW s \in Sessions, NEW r \in Requests, Receive(s, r) PROVE Own'
  <2>1. CallsFor(r) \in Seq(Replies \cup {Close})
    <3> HIDE DEF Own
    <3>1. Plain("authOk") \in Replies /\ Plain("authNo") \in Replies /\ Plain("echo") \in Replies
      BY DEF Replies
    <3>2. CallsFor(r) \in {<<Plain("authOk")>>, <<Plain("authNo"), Close>>, <<Plain("echo")>>,
                           <<Close>>, <<>>}
      BY DEF CallsFor
    <3>3. ASSUME NEW S, NEW p \in S, NEW q \in S
          PROVE  <<>> \in Seq(S) /\ <<p>> \in Seq(S) /\ <<p, q>> \in Seq(S)
      OBVIOUS
    <3>4. Close \in Replies \cup {Close} /\ \A k \in Replies : k \in Replies \cup {Close}
      OBVIOUS
    <3> QED
      BY <3>1, <3>2, <3>3, <3>4, Zenon
  <2>2. requests + 1 \in 0 .. MaxRequests
    BY <1>2, <1>t, BoundAssumption DEF Receive
  <2> QED
    BY <1>2, <1>t, <2>1, <2>2 DEF Receive, tables, router
<1>3. ASSUME NEW s \in Sessions, HandlerCall(s) PROVE Own'
  <2>1. Tail(calls[s]) \in Seq(Replies \cup {Close})
    BY <1>3, <1>t, HeadTailProperties DEF HandlerCall
  <2> QED
    BY <1>3, <1>t, <2>1 DEF HandlerCall, tables, router
<1>4. ASSUME NEW a \in Addresses, Route(a) PROVE Own'
  <2>1. packets + 1 \in 0 .. MaxPackets
    BY <1>4, <1>t, BoundAssumption DEF Route
  <2>2. routing' \in {NotRouting} \cup (Sessions \X Addresses)
    BY <1>4, <1>t DEF Route
  <2> QED
    BY <1>4, <1>t, <2>1, <2>2 DEF Route, tables, session
<1>5. ASSUME SendIpPacket \/ DropIpPacket PROVE Own'
  BY <1>5, <1>t DEF SendIpPacket, DropIpPacket, tables, session
<1>6. ASSUME EnqueueIpPacket PROVE Own'
  <2> DEFINE s == holding[TunThread][1]
  <2>1. late' = [late EXCEPT ![s] = IF connected[s] THEN late[s] ELSE late[s] + 1]
    BY <1>6 DEF EnqueueIpPacket
  <2>0. s \in Sessions
    BY <1>6 DEF TypeOK, EnqueueIpPacket, Ws!TypeOK, Ws!SendEnqueue
  <2> HIDE DEF s
  <2>2. late' \in [Sessions -> Nat]
    BY <2>0, <2>1, <1>t
  <2>3. UNCHANGED <<tables, session, routing, packets, stopped>>
    BY <1>6 DEF EnqueueIpPacket
  <2> QED
    BY <1>t, <2>2, <2>3 DEF tables, session
<1>7. ASSUME Stop PROVE Own'
  BY <1>7, <1>t DEF Stop, tables, session, router
<1>8. ASSUME \/ \E s \in Sessions : StartSession(s) \/ HandlerDone(s) \/ CloseReturns(s)
                                    \/ RunPosted(s) \/ WriteCompletes(s) \/ ReadFails(s)
             \/ UNCHANGED vars
      PROVE  Own'
  BY <1>8, <1>t DEF StartSession, HandlerDone, CloseReturns, RunPosted, WriteCompletes,
                    ReadFails, vars, tables, session, router
<1>9. Own'
  <2> HIDE DEF Own
  <2> QED
    BY <1>1, <1>2, <1>3, <1>4, <1>5, <1>6, <1>7, <1>8 DEF Next, HandlerStep, TunStep
<1> QED
  BY <1>0, <1>9 DEF TypeOK

----------------------------------------------------------------------------
(* Frames on their way.                                                    *)

\* What the locked part of send() adds to a session's queue and to its history.
LEMMA EnqueuedFrames ==
    ASSUME TypeOK, NEW s \in Sessions, NEW m \in Frames, Ws!Enqueue(s, m), NEW x \in Sessions
    PROVE  /\ FramesIn(writeQueue'[x]) =
                  FramesIn(writeQueue[x]) \cup (IF x = s THEN {m} ELSE {})
           /\ FramesIn(accepted'[x]) =
                  FramesIn(accepted[x]) \cup (IF x = s THEN {m} ELSE {})
<1>1. writeQueue[x] \in Seq(Frames) /\ accepted[x] \in Seq(Frames)
  BY DEF TypeOK, Ws!TypeOK
<1>2. CASE x = s
  <2>1. writeQueue'[x] = Append(writeQueue[x], m) /\ accepted'[x] = Append(accepted[x], m)
    BY <1>2 DEF TypeOK, Ws!TypeOK, Ws!Enqueue
  <2> QED
    BY <1>1, <1>2, <2>1, FramesInAppend
<1>3. CASE x # s
  BY <1>3 DEF TypeOK, Ws!TypeOK, Ws!Enqueue
<1> QED
  BY <1>2, <1>3

\* do_write only takes frames off a queue.
LEMMA DoWriteFrames ==
    ASSUME TypeOK, NEW s \in Sessions, NEW left, NEW buffer, Ws!DoWrite(s, left, buffer),
           NEW x \in Sessions
    PROVE  FramesIn(writeQueue'[x]) \subseteq FramesIn(writeQueue[x])
<1>1. CASE writeQueue' = writeQueue
  BY <1>1
<1>2. CASE writeQueue[s] # <<>> /\ writeQueue' = [writeQueue EXCEPT ![s] = Tail(@)]
  <2>1. writeQueue[s] \in Seq(Frames)
    BY DEF TypeOK, Ws!TypeOK
  <2>2. writeQueue'[x] = IF x = s THEN Tail(writeQueue[s]) ELSE writeQueue[x]
    BY <1>2 DEF TypeOK, Ws!TypeOK
  <2> QED
    BY <1>2, <2>1, <2>2, FramesInTail
<1> QED
  BY <1>1, <1>2 DEF Ws!DoWrite, Ws!SkipWrite, Ws!GoIdle, Ws!WriteFront

\* A packet keeps to its own session, from the routing table to the queue.
LEMMA AddressedStep ==
    ASSUME IInv, [Next]_vars
    PROVE  Addressed'
<1>t. TypeOK /\ Addressed
  BY DEF IInv
<1>0. ASSUME UNCHANGED <<ipToSession, routing, holding, writeQueue>> PROVE Addressed'
  BY <1>0, <1>t DEF Addressed, Ws!NotSending
<1>w. ASSUME NEW s \in Sessions, NEW left, NEW buffer, Ws!DoWrite(s, left, buffer),
             UNCHANGED <<ipToSession, routing, holding>>
      PROVE  Addressed'
  <2>1. \A x \in Sessions : FramesIn(writeQueue'[x]) \subseteq FramesIn(writeQueue[x])
    BY <1>w, <1>t, DoWriteFrames
  <2> QED
    BY <1>w, <1>t, <2>1 DEF Addressed, Ws!NotSending
<1>1. ASSUME NEW s \in Sessions, Register(s) PROVE Addressed'
  <2>1. VipOf(s) \in Addresses /\ s # NoSession
    BY NumAssumption DEF Sessions, Addresses, VipOf, NoSession
  <2>2. \A a \in Addresses : ipToSession'[a] = IF a = VipOf(s) THEN s ELSE ipToSession[a]
    BY <1>1, <1>t, <2>1 DEF TypeOK, Register
  <2> QED
    BY <1>1, <1>t, <2>1, <2>2 DEF Addressed, Register, wsVars, router, Ws!NotSending
<1>2. ASSUME NEW s \in Sessions, HandlerCall(s) PROVE Addressed'
  <2> DEFINE m == Head(calls[s])
  <2>1. UNCHANGED <<ipToSession, routing, holding>>
    BY <1>2 DEF HandlerCall, tables, router, Ws!HandlerClose, Ws!HandlerSend
  <2>2. CASE m # Close /\ connected[s]
    <3>1. Ws!Enqueue(s, m)
      BY <1>2, <2>2 DEF HandlerCall, Ws!HandlerSend
    <3>2. m \in Replies
      BY <1>2, <1>t, <2>2, HeadTailProperties DEF HandlerCall, TypeOK
    <3>3. m \in Frames /\ m.kind # "ipPacket"
      BY <3>2 DEF Frames, Replies, Plain
    <3> HIDE DEF m
    <3>4. \A x \in Sessions : FramesIn(writeQueue'[x]) \subseteq FramesIn(writeQueue[x]) \cup {m}
      BY <1>t, <3>1, <3>3, EnqueuedFrames
    <3> QED
      BY <1>t, <2>1, <3>3, <3>4 DEF Addressed, Ws!NotSending
  <2>3. CASE m = Close \/ ~connected[s]
    BY <1>2, <1>0, <2>1, <2>3 DEF HandlerCall, Ws!HandlerClose, Ws!HandlerSend, Ws!writeVars
  <2> QED
    BY <2>2, <2>3
<1>3. ASSUME NEW s \in Sessions, RunPosted(s) \/ WriteCompletes(s) PROVE Addressed'
  <2>1. UNCHANGED <<ipToSession, routing, holding>>
    BY <1>3 DEF RunPosted, WriteCompletes, tables, router, Ws!RunPosted, Ws!WriteCompletes,
                Ws!OnWriteOk, Ws!OnWriteError, Ws!strandVars
  <2>2. CASE Ws!RunPosted(s) \/ Ws!OnWriteOk(s)
    BY <1>w, <2>1, <2>2 DEF Ws!RunPosted, Ws!OnWriteOk
  <2>3. CASE Ws!OnWriteError(s)
    BY <1>0, <2>1, <2>3 DEF Ws!OnWriteError
  <2> QED
    BY <1>3, <2>2, <2>3 DEF RunPosted, WriteCompletes, Ws!WriteCompletes
<1>4. ASSUME NEW a \in Addresses, Route(a) PROVE Addressed'
  BY <1>4, <1>t DEF Addressed, Route, wsVars, tables, Ws!NotSending
<1>5. CASE SendIpPacket
  <2>1. holding' = [holding EXCEPT ![TunThread] = <<routing[1], Packet(routing[2])>>]
    BY <1>5 DEF SendIpPacket, Ws!SendCheck
  <2>2. holding'[TunThread] = <<routing[1], Packet(routing[2])>>
    BY <1>t, <2>1 DEF TypeOK, Ws!TypeOK
  <2>3. UNCHANGED <<ipToSession, writeQueue>> /\ routing # NotRouting /\ routing' = NotRouting
    BY <1>5 DEF SendIpPacket, tables, Ws!SendCheck, Ws!writeVars
  <2> QED
    BY <1>t, <2>2, <2>3 DEF Addressed, Ws!NotSending
<1>6. CASE DropIpPacket
  BY <1>6, <1>t DEF Addressed, DropIpPacket, wsVars, tables, Ws!NotSending
<1>7. CASE EnqueueIpPacket
  <2> DEFINE s == holding[TunThread][1]
             m == holding[TunThread][2]
  <2>1. s \in Sessions /\ m \in Frames /\ m = Packet(VipOf(s))
    BY <1>7, <1>t DEF TypeOK, EnqueueIpPacket, Ws!TypeOK, Ws!SendEnqueue, Addressed
  <2>2. Ws!Enqueue(s, m) /\ UNCHANGED <<ipToSession, routing>>
    BY <1>7 DEF EnqueueIpPacket, Ws!SendEnqueue, tables
  <2>3. holding'[TunThread] = Ws!NotSending
    BY <1>7, <1>t DEF EnqueueIpPacket, Ws!SendEnqueue, TypeOK, Ws!TypeOK
  <2> HIDE DEF s, m
  <2>4. \A x \in Sessions : FramesIn(writeQueue'[x]) =
            FramesIn(writeQueue[x]) \cup (IF x = s THEN {m} ELSE {})
    BY <1>t, <2>1, <2>2, EnqueuedFrames
  <2> QED
    BY <1>t, <2>1, <2>2, <2>3, <2>4 DEF Addressed, Packet, Ws!NotSending
<1>8. ASSUME \/ \E s \in Sessions : StartSession(s) \/ HandlerDone(s) \/ CloseReturns(s)
                                    \/ ReadFails(s) \/ \E r \in Requests : Receive(s, r)
             \/ Stop \/ UNCHANGED vars
      PROVE  Addressed'
  BY <1>8, <1>0 DEF StartSession, HandlerDone, CloseReturns, ReadFails, Receive, Stop, vars,
                    wsVars, tables, router, Ws!Start, Ws!HandlerReturn, Ws!CloseReturns,
                    Ws!OnReadError, Ws!OnRead, Ws!writeVars
<1> QED
  BY <1>1, <1>2, <1>3, <1>4, <1>5, <1>6, <1>7, <1>8 DEF Next, HandlerStep, TunStep

----------------------------------------------------------------------------
(* What a step does to a session.                                          *)

\* A session no variable of which changes, but for frames taken off its queue.
LEMMA SessionKept ==
    ASSUME IInv, NEW x \in Sessions,
           started'[x] = started[x], connected'[x] = connected[x],
           authenticated'[x] = authenticated[x], calls'[x] = calls[x],
           reading'[x] = reading[x], strand'[x] = strand[x],
           FramesIn(accepted[x]) \subseteq FramesIn(accepted'[x]), late'[x] = late[x],
           PacketFor(x)' => PacketFor(x) \/ (started[x] /\ authenticated[x]),
           routing' # NotRouting /\ routing'[1] = x => started[x],
           holding'[TunThread] # Ws!NotSending /\ holding'[TunThread][1] = x =>
               connected[x] \/ holding'[TunThread] = holding[TunThread]
    PROVE  (Strand(x) /\ Guarded(x) /\ Answered(x) /\ Late(x))'
<1>1. Strand(x) /\ Guarded(x) /\ Answered(x) /\ Late(x)
  BY DEF IInv, SessionInv
<1>2. Strand(x)'
  BY <1>1 DEF Strand
<1>3. Guarded(x)'
  BY <1>1 DEF Guarded
<1>4. Answered(x)'
  BY <1>1 DEF Answered
<1>5. Late(x)'
  BY <1>1 DEF Late, Ws!NotSending
<1> QED
  BY <1>2, <1>3, <1>4, <1>5

\* A step that leaves the router alone and touches session s of the others only.
LEMMA OthersKept ==
    ASSUME IInv, NEW s \in Sessions, NEW x \in Sessions, x # s,
           UNCHANGED <<routing, holding, late>>,
           started' = started \/ started' = [started EXCEPT ![s] = TRUE],
           connected' = connected \/ (\E b \in BOOLEAN : connected' = [connected EXCEPT ![s] = b]),
           authenticated'[x] = authenticated[x], calls'[x] = calls[x],
           reading' = reading \/ (\E b \in BOOLEAN : reading' = [reading EXCEPT ![s] = b]),
           strand' = strand \/ (\E w \in Ws!StrandStates : strand' = [strand EXCEPT ![s] = w]),
           FramesIn(accepted'[x]) = FramesIn(accepted[x]),
           FramesIn(writeQueue'[x]) \subseteq FramesIn(writeQueue[x])
    PROVE  (Strand(x) /\ Guarded(x) /\ Answered(x) /\ Late(x))'
<1>1. /\ started'[x] = started[x] /\ connected'[x] = connected[x]
      /\ reading'[x] = reading[x] /\ strand'[x] = strand[x] /\ late'[x] = late[x]
  BY DEF IInv, TypeOK, Ws!TypeOK
<1>2. PacketFor(x)' => PacketFor(x)
  BY DEF PacketFor, Ws!NotSending
<1>3. routing # NotRouting /\ routing[1] = x => started[x]
  BY DEF IInv, SessionInv, Strand
<1> QED
  BY <1>1, <1>2, <1>3, SessionKept

\* on_read, up to the handler's first call, keeps the invariant of its session.
LEMMA ReceiveSession ==
    ASSUME IInv, NEW s \in Sessions, NEW r \in Requests, Receive(s, r)
    PROVE  (Strand(s) /\ Guarded(s) /\ Answered(s) /\ Late(s))'
<1>t. TypeOK /\ Strand(s) /\ Guarded(s) /\ Answered(s) /\ Late(s)
  BY DEF IInv, SessionInv
<1>e. \A u, v : <<>> # <<u>> /\ <<>> # <<u, v>>
  OBVIOUS
<1>1. /\ strand[s] = "idle" /\ calls[s] = <<>> /\ started[s] /\ strand'[s] = "handler"
      /\ UNCHANGED <<started, connected, accepted, routing, holding, writeQueue, late>>
  BY <1>t DEF Receive, Ws!OnRead, Ws!writeVars, router, TypeOK, Ws!TypeOK, Strand
<1>2. /\ calls'[s] = CallsFor(r)
      /\ authenticated'[s] =
             IF r \in {"authGood", "authBad"} THEN r = "authGood" ELSE authenticated[s]
  BY <1>t DEF Receive, TypeOK
<1>3. Strand(s)'
  BY <1>t, <1>1 DEF Strand
<1>4. Guarded(s)'
  <2>1. PacketFor(s)' => PacketFor(s)
    BY <1>1 DEF PacketFor, Ws!NotSending
  <2>2. r = "authBad" => CallsFor(r) = <<Plain("authNo"), Close>>
    BY DEF CallsFor
  <2> QED
    BY <1>t, <1>1, <1>2, <1>e, <2>1, <2>2 DEF Guarded
<1>5. Answered(s)'
  <2>1. r = "authGood" => CallsFor(r) = <<Plain("authOk")>>
    BY DEF CallsFor
  <2> QED
    BY <1>t, <1>1, <1>2, <1>e, <2>1 DEF Answered
<1>6. Late(s)'
  BY <1>t, <1>1 DEF Late, Ws!NotSending
<1> QED
  BY <1>3, <1>4, <1>5, <1>6

\* So does each send() or close() the handler makes.
LEMMA HandlerCallSession ==
    ASSUME IInv, NEW s \in Sessions, HandlerCall(s)
    PROVE  (Strand(s) /\ Guarded(s) /\ Answered(s) /\ Late(s))'
<1> DEFINE m == Head(calls[s])
<1>t. TypeOK /\ Strand(s) /\ Guarded(s) /\ Answered(s) /\ Late(s)
  BY DEF IInv, SessionInv
<1>1. /\ UNCHANGED <<started, reading, authenticated, routing, holding, late>>
      /\ calls'[s] = Tail(calls[s]) /\ calls[s] # <<>> /\ strand[s] = "handler"
  BY <1>t DEF HandlerCall, router, TypeOK, Ws!HandlerClose, Ws!HandlerSend, Ws!strandVars
<1>2. strand'[s] \in {"handler", "closing"}
  BY <1>t, <1>1 DEF HandlerCall, TypeOK, Ws!TypeOK, Ws!HandlerClose, Ws!HandlerSend, Ws!strandVars
<1>3. Strand(s)'
  BY <1>t, <1>1, <1>2 DEF Strand
<1>4. connected'[s] = (connected[s] /\ m # Close)
  BY <1>t DEF HandlerCall, TypeOK, Ws!TypeOK, Ws!HandlerClose, Ws!HandlerSend, Ws!strandVars
<1>5. Late(s)'
  BY <1>t, <1>1, <1>4 DEF Late, Ws!NotSending
<1>6. ASSUME connected[s], m # Close PROVE Guarded(s)' /\ Answered(s)'
  <2>1. Ws!Enqueue(s, m)
    BY <1>6 DEF HandlerCall, Ws!HandlerSend
  <2>2. m \in Frames /\ m.kind # "ipPacket"
    <3>1. m \in Replies
      BY <1>t, <1>1, <1>6, HeadTailProperties DEF TypeOK
    <3> QED
      BY <3>1 DEF Frames, Replies, Plain
  <2>3. /\ FramesIn(writeQueue'[s]) = FramesIn(writeQueue[s]) \cup {m}
        /\ FramesIn(accepted'[s]) = FramesIn(accepted[s]) \cup {m}
    <3> HIDE DEF m
    <3> QED
      BY <1>t, <2>1, <2>2, EnqueuedFrames
  <2>4. PacketFor(s)' => PacketFor(s)
    BY <1>1, <2>2, <2>3 DEF PacketFor, Ws!NotSending
  <2>5. calls[s] = <<Plain("authNo"), Close>> => calls'[s] = <<Close>>
    <3>1. Tail(<<Plain("authNo"), Close>>) = <<Close>>
      OBVIOUS
    <3> QED
      BY <1>1, <3>1
  <2>6. calls[s] # <<Close>>
    <3>1. Head(<<Close>>) = Close
      OBVIOUS
    <3> QED
      BY <1>6, <3>1
  <2>7. Guarded(s)'
    BY <1>t, <1>1, <1>4, <2>4, <2>5, <2>6 DEF Guarded
  <2>8. calls[s] = <<Plain("authOk")>> => m = Plain("authOk")
    <3>1. Head(<<Plain("authOk")>>) = Plain("authOk")
      OBVIOUS
    <3> QED
      BY <3>1
  <2>9. Answered(s)'
    BY <1>t, <1>1, <1>4, <2>3, <2>8 DEF Answered
  <2> QED
    BY <2>7, <2>9
<1> QED
  BY <1>3, <1>4, <1>5, <1>6 DEF Guarded, Answered

\* The four facts of every session survive every step.
LEMMA SessionStep ==
    ASSUME IInv, [Next]_vars
    PROVE  SessionInv'
<1> SUFFICES ASSUME NEW x \in Sessions PROVE (Strand(x) /\ Guarded(x) /\ Answered(x) /\ Late(x))'
  BY DEF SessionInv
<1> DEFINE Goal == (Strand(x) /\ Guarded(x) /\ Answered(x) /\ Late(x))'
<1>t. /\ TypeOK /\ WsP!ChainInv /\ WsP!HoldingInv
      /\ Strand(x) /\ Guarded(x) /\ Answered(x) /\ Late(x)
  BY DEF IInv, SessionInv
<1>k. /\ routing # NotRouting /\ routing[1] = x => started[x]
      /\ Ws!StrandStates = {"idle", "handler", "closing"}
  BY <1>t DEF Strand, Ws!StrandStates
<1>0. ASSUME UNCHANGED <<started, connected, authenticated, calls, reading, strand, accepted,
                         writeQueue, routing, holding, late>>
      PROVE  Goal
  BY <1>0, <1>t DEF Strand, Guarded, Answered, Late, PacketFor, Ws!NotSending
<1>1. ASSUME NEW s \in Sessions, StartSession(s) PROVE Goal
  <2>1. /\ ~started[s] /\ started' = [started EXCEPT ![s] = TRUE]
        /\ connected' = [connected EXCEPT ![s] = TRUE] /\ reading' = [reading EXCEPT ![s] = TRUE]
        /\ UNCHANGED <<routing, holding, late, strand, accepted, writeQueue, authenticated, calls>>
    BY <1>1 DEF StartSession, Ws!Start, Ws!writeVars, session, router
  <2>2. CASE x = s
    <3>1. FramesIn(writeQueue[x]) = {}
      BY <1>t, <2>1, <2>2 DEF WsP!ChainInv, WsP!Chain, FramesIn
    <3>2. ~PacketFor(x)
      <4>1. holding[TunThread] # Ws!NotSending => started[holding[TunThread][1]]
        BY <1>t DEF WsP!HoldingInv, WsP!NotSending, Ws!NotSending
      <4> QED
        BY <1>k, <2>1, <2>2, <3>1, <4>1 DEF PacketFor
    <3>3. ~authenticated[x] /\ late[x] # 1 /\ started'[x]
      BY <1>t, <2>1, <2>2 DEF Strand, Late, TypeOK, Ws!TypeOK
    <3>4. ~PacketFor(x)'
      BY <2>1, <3>2 DEF PacketFor, Ws!NotSending
    <3> QED
      BY <1>t, <2>1, <3>3, <3>4 DEF Strand, Guarded, Answered, Late
  <2>3. CASE x # s
    BY <2>1, <2>3, OthersKept
  <2> QED
    BY <2>2, <2>3
<1>2. ASSUME NEW s \in Sessions, NEW r \in Requests, Receive(s, r) PROVE Goal
  <2>1. CASE x = s
    BY <1>2, <2>1, ReceiveSession
  <2>2. CASE x # s
    <3>1. /\ UNCHANGED <<started, connected, accepted, writeQueue, routing, holding, late>>
          /\ authenticated'[x] = authenticated[x] /\ calls'[x] = calls[x]
          /\ reading' = [reading EXCEPT ![s] = FALSE]
          /\ strand' = [strand EXCEPT ![s] = "handler"]
      BY <1>2, <1>t, <2>2 DEF Receive, Ws!OnRead, Ws!writeVars, router, TypeOK
    <3> QED
      BY <1>k, <2>2, <3>1, OthersKept
  <2> QED
    BY <2>1, <2>2
<1>3. ASSUME NEW s \in Sessions, HandlerCall(s) PROVE Goal
  <2>1. CASE x = s
    BY <1>3, <2>1, HandlerCallSession
  <2>2. CASE x # s
    <3>1. /\ UNCHANGED <<started, reading, authenticated, routing, holding, late>>
          /\ calls'[x] = calls[x]
      BY <1>3, <1>t, <2>2 DEF HandlerCall, router, TypeOK, Ws!HandlerClose, Ws!HandlerSend,
                              Ws!strandVars
    <3>2. CASE Head(calls[s]) = Close
      <4>1. /\ connected' = [connected EXCEPT ![s] = FALSE] /\ UNCHANGED <<accepted, writeQueue>>
            /\ strand' = [strand EXCEPT ![s] = IF connected[s] THEN "closing" ELSE @]
        BY <1>3, <3>2 DEF HandlerCall, Ws!HandlerClose, Ws!writeVars
      <4>2. strand' = [strand EXCEPT ![s] = "closing"] \/ strand' = strand
        BY <1>t, <4>1 DEF TypeOK, Ws!TypeOK
      <4> QED
        BY <1>k, <2>2, <3>1, <4>1, <4>2, OthersKept
    <3>3. CASE Head(calls[s]) # Close
      <4> DEFINE m == Head(calls[s])
      <4>1. UNCHANGED <<connected, strand>>
        BY <1>3, <3>3 DEF HandlerCall, Ws!HandlerSend, Ws!strandVars
      <4>2. \/ Ws!Enqueue(s, m)
            \/ UNCHANGED <<accepted, writeQueue>>
        BY <1>3, <3>3 DEF HandlerCall, Ws!HandlerSend, Ws!writeVars
      <4>3. m \in Frames
        BY <1>3, <1>t, <3>3, HeadTailProperties DEF HandlerCall, TypeOK, Frames
      <4> HIDE DEF m
      <4>4. /\ FramesIn(accepted'[x]) = FramesIn(accepted[x])
            /\ FramesIn(writeQueue'[x]) = FramesIn(writeQueue[x])
        <5>1. CASE Ws!Enqueue(s, m)
          <6>1. /\ FramesIn(writeQueue'[x]) =
                       FramesIn(writeQueue[x]) \cup (IF x = s THEN {m} ELSE {})
                /\ FramesIn(accepted'[x]) =
                       FramesIn(accepted[x]) \cup (IF x = s THEN {m} ELSE {})
            BY <1>t, <4>3, <5>1, EnqueuedFrames
          <6> QED
            BY <2>2, <6>1
        <5>2. CASE UNCHANGED <<accepted, writeQueue>>
          BY <5>2
        <5> QED
          BY <4>2, <5>1, <5>2
      <4> QED
        BY <2>2, <3>1, <4>1, <4>4, OthersKept
    <3> QED
      BY <3>2, <3>3
  <2> QED
    BY <2>1, <2>2
<1>4. ASSUME NEW s \in Sessions, HandlerDone(s) PROVE Goal
  <2>1. /\ calls[s] = <<>> /\ strand[s] = "handler" /\ strand' = [strand EXCEPT ![s] = "idle"]
        /\ reading' = [reading EXCEPT ![s] = TRUE]
        /\ UNCHANGED <<started, connected, authenticated, calls, accepted, writeQueue, routing,
                       holding, late>>
    BY <1>4 DEF HandlerDone, Ws!HandlerReturn, Ws!writeVars, session, router
  <2>2. Strand(x)'
    BY <1>t, <2>1 DEF Strand, TypeOK, Ws!TypeOK
  <2> QED
    BY <1>t, <2>1, <2>2 DEF Guarded, Answered, Late, PacketFor, Ws!NotSending
<1>5. ASSUME NEW s \in Sessions, CloseReturns(s) PROVE Goal
  <2>1. /\ strand[s] = "closing" /\ strand' = [strand EXCEPT ![s] = "handler"]
        /\ UNCHANGED <<started, connected, authenticated, calls, accepted, writeQueue, routing,
                       holding, late, reading>>
    BY <1>5 DEF CloseReturns, Ws!CloseReturns, Ws!writeVars, session, router
  <2>2. Strand(x)'
    BY <1>t, <2>1 DEF Strand, TypeOK, Ws!TypeOK
  <2> QED
    BY <1>t, <2>1, <2>2 DEF Guarded, Answered, Late, PacketFor, Ws!NotSending
<1>6. ASSUME NEW s \in Sessions, RunPosted(s) \/ (Ws!OnWriteOk(s) /\ WriteCompletes(s)) PROVE Goal
  <2>1. UNCHANGED <<started, connected, authenticated, calls, accepted, routing, holding, late,
                    reading, strand>>
    BY <1>6 DEF RunPosted, WriteCompletes, Ws!RunPosted, Ws!OnWriteOk, Ws!strandVars, session,
                router
  <2>2. FramesIn(writeQueue'[x]) \subseteq FramesIn(writeQueue[x])
    BY <1>6, <1>t, DoWriteFrames DEF RunPosted, Ws!RunPosted, Ws!OnWriteOk
  <2>3. PacketFor(x)' => PacketFor(x)
    BY <2>1, <2>2 DEF PacketFor, Ws!NotSending
  <2> QED
    BY <1>t, <2>1, <2>3 DEF Strand, Guarded, Answered, Late, Ws!NotSending
<1>7. ASSUME NEW s \in Sessions, ReadFails(s) \/ (Ws!OnWriteError(s) /\ WriteCompletes(s))
      PROVE  Goal
  <2>1. /\ connected' = [connected EXCEPT ![s] = FALSE]
        /\ reading' = reading \/ reading' = [reading EXCEPT ![s] = FALSE]
        /\ UNCHANGED <<started, strand, authenticated, calls, accepted, writeQueue, routing,
                       holding, late>>
    BY <1>7 DEF ReadFails, WriteCompletes, Ws!OnReadError, Ws!OnWriteError, Ws!writeVars,
                session, router
  <2>2. (connected'[x] => connected[x]) /\ (reading'[x] => reading[x])
    BY <1>t, <2>1 DEF TypeOK, Ws!TypeOK
  <2> QED
    BY <1>t, <2>1, <2>2 DEF Strand, Guarded, Answered, Late, PacketFor, Ws!NotSending
<1>8. ASSUME NEW a \in Addresses, Route(a) PROVE Goal
  <2>1. UNCHANGED <<started, connected, authenticated, calls, accepted, writeQueue, holding,
                    reading, strand, late>>
    BY <1>8 DEF Route, wsVars, session
  <2>2. routing' # NotRouting /\ routing'[1] = x => started[x] /\ authenticated[x]
    BY <1>8, <1>t DEF Route, Strand
  <2>3. PacketFor(x)' => PacketFor(x) \/ (started[x] /\ authenticated[x])
    BY <2>1, <2>2 DEF PacketFor, Ws!NotSending
  <2> QED
    BY <2>1, <2>2, <2>3, SessionKept
<1>9. ASSUME SendIpPacket PROVE Goal
  <2>1. /\ routing # NotRouting /\ routing' = NotRouting /\ connected[routing[1]]
        /\ UNCHANGED <<started, connected, authenticated, calls, accepted, writeQueue,
                       reading, strand, late>>
        /\ holding' = [holding EXCEPT ![TunThread] = <<routing[1], Packet(routing[2])>>]
    BY <1>9 DEF SendIpPacket, Ws!SendCheck, Ws!strandVars, Ws!writeVars, session
  <2>2. holding'[TunThread] = <<routing[1], Packet(routing[2])>>
    BY <1>t, <2>1 DEF TypeOK, Ws!TypeOK
  <2>3. PacketFor(x)' => PacketFor(x)
    BY <2>1, <2>2 DEF PacketFor, Ws!NotSending
  <2>4. holding'[TunThread][1] = x => connected[x]
    BY <2>1, <2>2
  <2> QED
    BY <2>1, <2>3, <2>4, SessionKept
<1>10. ASSUME DropIpPacket PROVE Goal
  <2>1. /\ routing' = NotRouting
        /\ UNCHANGED <<started, connected, authenticated, calls, accepted, writeQueue,
                       reading, strand, late, holding>>
    BY <1>10 DEF DropIpPacket, wsVars, session
  <2>2. PacketFor(x)' => PacketFor(x)
    BY <2>1 DEF PacketFor, Ws!NotSending
  <2> QED
    BY <2>1, <2>2, SessionKept
<1>11. ASSUME EnqueueIpPacket PROVE Goal
  <2> DEFINE s == holding[TunThread][1]
             m == holding[TunThread][2]
  <2>1. s \in Sessions /\ m \in Frames /\ holding[TunThread] # Ws!NotSending /\ started[s]
    BY <1>11, <1>t DEF TypeOK, EnqueueIpPacket, Ws!TypeOK, Ws!SendEnqueue, WsP!HoldingInv,
                       WsP!NotSending, Ws!NotSending
  <2>2. /\ Ws!Enqueue(s, m)
        /\ UNCHANGED <<started, connected, reading, strand, authenticated, calls, routing>>
    BY <1>11 DEF EnqueueIpPacket, Ws!SendEnqueue, Ws!strandVars, session
  <2>3. holding'[TunThread] = Ws!NotSending
    BY <1>11, <1>t DEF EnqueueIpPacket, Ws!SendEnqueue, TypeOK, Ws!TypeOK
  <2>4. late' = [late EXCEPT ![s] = IF connected[s] THEN late[s] ELSE late[s] + 1]
    BY <1>11 DEF EnqueueIpPacket
  <2>5. s = holding[TunThread][1]
    OBVIOUS
  <2> HIDE DEF s, m
  <2>6. /\ FramesIn(writeQueue'[x]) = FramesIn(writeQueue[x]) \cup (IF x = s THEN {m} ELSE {})
        /\ FramesIn(accepted'[x]) = FramesIn(accepted[x]) \cup (IF x = s THEN {m} ELSE {})
    BY <1>t, <2>1, <2>2, EnqueuedFrames
  <2>7. PacketFor(x)' => PacketFor(x)
    BY <2>1, <2>2, <2>3, <2>5, <2>6 DEF PacketFor, Ws!NotSending
  <2>8. Late(x)'
    <3>1. late[x] \in Nat /\ late'[x] = IF x = s /\ ~connected[s] THEN late[x] + 1 ELSE late[x]
      BY <1>t, <2>1, <2>4 DEF TypeOK
    <3> QED
      BY <1>t, <2>1, <2>2, <2>3, <2>5, <3>1 DEF Late, Ws!NotSending
  <2> QED
    BY <1>t, <2>2, <2>6, <2>7, <2>8 DEF Strand, Guarded, Answered
<1>12. ASSUME (\E s \in Sessions : Register(s)) \/ Stop \/ UNCHANGED vars PROVE Goal
  BY <1>12, <1>0 DEF Register, Stop, vars, wsVars, session, router
<1>13. ASSUME NEW s \in Sessions, RunPosted(s) \/ WriteCompletes(s) \/ ReadFails(s) PROVE Goal
  <2> HIDE DEF Goal
  <2>1. CASE RunPosted(s)
    BY <1>6, <2>1
  <2>2. CASE ReadFails(s)
    BY <1>7, <2>2
  <2>3. CASE WriteCompletes(s)
    <3>1. Ws!OnWriteOk(s) \/ Ws!OnWriteError(s)
      BY <2>3 DEF WriteCompletes, Ws!WriteCompletes
    <3> QED
      BY <1>6, <1>7, <2>3, <3>1
  <2> QED
    BY <1>13, <2>1, <2>2, <2>3
<1>14. Goal
  <2> HIDE DEF Goal
  <2> QED
    BY <1>1, <1>2, <1>3, <1>4, <1>5, <1>8, <1>9, <1>10, <1>11, <1>12, <1>13
       DEF Next, HandlerStep, TunStep
<1> QED
  BY <1>14

----------------------------------------------------------------------------
(* The theorems.                                                           *)

\* IInv holds initially and is inductive.
THEOREM Invariant == Spec => []IInv
<1>1. Init => IInv
  <2> SUFFICES ASSUME Init PROVE IInv
    OBVIOUS
  <2> USE DEF Init, Ws!Init
  <2>1. TypeOK
    <3>1. Ws!TypeOK
      BY EmptySeq DEF Ws!TypeOK, Ws!StrandStates, Ws!NotSending
    <3>2. calls \in [Sessions -> Seq(Replies \cup {Close})]
      <4>1. <<>> \in Seq(Replies \cup {Close})
        BY EmptySeq
      <4> QED
        BY <4>1
    <3>3. /\ ipToSession \in [Addresses -> Sessions \cup {NoSession}]
          /\ requests \in 0 .. MaxRequests /\ packets \in 0 .. MaxPackets
          /\ late \in [Sessions -> Nat]
      BY BoundAssumption
    <3> QED
      BY <3>1, <3>2, <3>3 DEF TypeOK
  <2>2. WsP!ChainInv
    BY DEF WsP!ChainInv, WsP!Chain
  <2>3. WsP!HoldingInv
    BY DEF WsP!HoldingInv, WsP!NotSending, Ws!NotSending
  <2>4. \A s \in Sessions : FramesIn(writeQueue[s]) = {}
    BY DEF FramesIn
  <2>5. holding[TunThread] = Ws!NotSending
    OBVIOUS
  <2>6. Addressed
    BY <2>4, <2>5 DEF Addressed
  <2>7. SessionInv
    BY <2>4, <2>5 DEF SessionInv, Strand, Guarded, Answered, Late
  <2> QED
    BY <2>1, <2>2, <2>3, <2>6, <2>7 DEF IInv
<1>2. IInv /\ [Next]_vars => IInv'
  BY TypeStep, WsInvStep, AddressedStep, SessionStep DEF IInv
<1> QED
  BY <1>1, <1>2, PTL DEF Spec

\* The server's variables keep the types of the members they model, the calls a
\* handler has still to make being frames or close().
THEOREM TypeCorrect == Spec => []TypeOK
<1>1. IInv => TypeOK
  BY DEF IInv
<1> QED
  BY <1>1, Invariant, PTL

\* However many packets are routed to a dead session's address, and however many
\* threads run, at most one frame is queued on it after its disconnection.
THEOREM DeadQueueBoundedHolds == Spec => []DeadQueueBounded
<1>1. IInv => DeadQueueBounded
  BY DEF IInv, SessionInv, Late, DeadQueueBounded
<1> QED
  BY <1>1, Invariant, PTL

\* authenticated_ is set before the answer is sent, and still no connected client is
\* left authenticated and unanswered once its handler is done.
THEOREM AnswerAcceptedHolds == Spec => []AnswerAccepted
<1>1. IInv => AnswerAccepted
  <2> SUFFICES ASSUME IInv, NEW s \in Sessions, authenticated[s], connected[s], calls[s] = <<>>
               PROVE  \E i \in 1..Len(accepted[s]) : accepted[s][i] = Plain("authOk")
    BY DEF AnswerAccepted
  <2>1. Plain("authOk") \in FramesIn(accepted[s])
    <3>1. <<>> # <<Plain("authOk")>>
      OBVIOUS
    <3> QED
      BY <3>1 DEF IInv, SessionInv, Answered
  <2> QED
    BY <2>1 DEF FramesIn
<1> QED
  BY <1>1, Invariant, PTL

\* What the socket is given: whenever a session's strand takes a packet off its queue,
\* the packet is the session's own and its client is authenticated then, although the
\* TUN thread made both tests earlier and without the strand's knowledge.
THEOREM TunnelledOnlyToOwnerHolds == Spec => TunnelledOnlyToOwner
<1> DEFINE A == \A s \in Sessions :
          writes'[s] > 0 /\ writeQueue[s] # <<>> /\ writeQueue'[s] = Tail(writeQueue[s])
             /\ Head(writeQueue[s]).kind = "ipPacket"
          => authenticated[s] /\ Head(writeQueue[s]).dst = VipOf(s)
<1>1. IInv /\ [Next]_vars => [A]_vars
  <2> SUFFICES ASSUME IInv, Next, NEW x \in Sessions,
                      writeQueue[x] # <<>>, writeQueue'[x] = Tail(writeQueue[x]),
                      Head(writeQueue[x]).kind = "ipPacket"
               PROVE  authenticated[x] /\ Head(writeQueue[x]).dst = VipOf(x)
    OBVIOUS
  <2>t. TypeOK /\ Addressed /\ Strand(x) /\ Guarded(x)
    BY DEF IInv, SessionInv
  <2>q. /\ writeQueue[x] \in Seq(Frames) /\ Len(writeQueue[x]) \in Nat
        /\ Len(Tail(writeQueue[x])) = Len(writeQueue[x]) - 1
    <3>1. writeQueue[x] \in Seq(Frames)
      BY <2>t DEF TypeOK, Ws!TypeOK
    <3> QED
      BY <3>1, HeadTailProperties, LenProperties
  <2>l. Len(writeQueue'[x]) = Len(writeQueue[x]) - 1
    BY <2>q
  <2>n. writeQueue'[x] # writeQueue[x]
    <3>1. \A n \in Nat : n # n - 1
      OBVIOUS
    <3> QED
      BY <2>q, <2>l, <3>1, Zenon
  <2>h. Head(writeQueue[x]) \in FramesIn(writeQueue[x])
    BY <2>q, FramesInTail
  <2>1. ASSUME NEW s \in Sessions, NEW m \in Frames, Ws!Enqueue(s, m) PROVE FALSE
    <3>1. CASE x = s
      <4>1. Len(writeQueue'[x]) = Len(writeQueue[x]) + 1
        <5>1. writeQueue'[x] = Append(writeQueue[x], m)
          BY <2>1, <2>t, <3>1 DEF TypeOK, Ws!TypeOK, Ws!Enqueue
        <5> QED
          <6>1. Len(Append(writeQueue[x], m)) = Len(writeQueue[x]) + 1
            BY <2>1, <2>q, AppendProperties
          <6> QED
            BY <5>1, <6>1, Zenon
      <4> QED
        BY <2>q, <2>l, <4>1
    <3>2. CASE x # s
      BY <2>1, <2>t, <2>n, <3>2 DEF TypeOK, Ws!TypeOK, Ws!Enqueue
    <3> QED
      BY <3>1, <3>2
  <2>2. ASSUME UNCHANGED writeQueue PROVE FALSE
    BY <2>2, <2>n
  <2>3. ASSUME NEW s \in Sessions, RunPosted(s) \/ WriteCompletes(s)
        PROVE  connected[x] /\ strand[x] = "idle"
    <3>1. \E left, buffer : Ws!DoWrite(s, left, buffer) /\ strand[s] = "idle"
      BY <2>2, <2>3 DEF RunPosted, WriteCompletes, Ws!WriteCompletes, Ws!RunPosted,
                        Ws!OnWriteOk, Ws!OnWriteError
    <3>2. x = s /\ connected[s]
      BY <2>t, <2>n, <3>1 DEF Ws!DoWrite, Ws!SkipWrite, Ws!GoIdle, Ws!WriteFront, TypeOK,
                              Ws!TypeOK
    <3> QED
      BY <3>1, <3>2
  <2>4. ASSUME NEW s \in Sessions, HandlerCall(s) PROVE FALSE
    <3>1. Head(calls[s]) # Close => Head(calls[s]) \in Frames
      BY <2>4, <2>t, HeadTailProperties DEF HandlerCall, TypeOK, Frames
    <3> QED
      BY <2>1, <2>2, <2>4, <3>1 DEF HandlerCall, Ws!HandlerClose, Ws!HandlerSend, Ws!writeVars
  <2>5. ASSUME \/ \E s \in Sessions : Register(s) \/ StartSession(s) \/ HandlerDone(s)
                     \/ CloseReturns(s) \/ ReadFails(s) \/ \E r \in Requests : Receive(s, r)
               \/ \E a \in Addresses : Route(a)
               \/ SendIpPacket \/ DropIpPacket \/ Stop
        PROVE  FALSE
    BY <2>2, <2>5 DEF Register, StartSession, HandlerDone, CloseReturns, ReadFails, Receive,
                      Route, SendIpPacket, DropIpPacket, Stop, wsVars, Ws!Start, Ws!HandlerReturn,
                      Ws!CloseReturns, Ws!OnReadError, Ws!OnRead, Ws!SendCheck, Ws!writeVars
  <2>6. ~EnqueueIpPacket
    <3>1. EnqueueIpPacket => /\ holding[TunThread][1] \in Sessions
                             /\ holding[TunThread][2] \in Frames
                             /\ Ws!Enqueue(holding[TunThread][1], holding[TunThread][2])
      BY <2>t DEF TypeOK, EnqueueIpPacket, Ws!TypeOK, Ws!SendEnqueue
    <3> QED
      BY <2>1, <3>1
  <2>7. connected[x] /\ strand[x] = "idle"
    BY <2>3, <2>4, <2>5, <2>6 DEF Next, HandlerStep, TunStep
  <2>8. PacketFor(x)
    BY <2>h DEF PacketFor
  <2>9. authenticated[x]
    <3>1. <<>> \notin {<<Plain("authNo"), Close>>, <<Close>>}
      OBVIOUS
    <3> QED
      BY <2>t, <2>7, <2>8, <3>1 DEF Strand, Guarded
  <2> QED
    BY <2>t, <2>9, <2>h DEF Addressed
<1> QED
  BY <1>1, Invariant, PTL DEF Spec, TunnelledOnlyToOwner

\* The server drives each session's write path as WsSession describes it, so what is
\* proved of WsSession alone holds in the server: one writer per session, no frame
\* lost or overtaken, no queue without a writer while the session is connected.
THEOREM ServerImplementsWsSession == Spec => Ws!Spec
<1>1. Init => Ws!Init
  BY DEF Init
<1>2. IInv /\ [Next]_vars => [Ws!Next]_(Ws!vars)
  <2> USE DEF WsP!writeVars, Ws!writeVars, WsP!strandVars, Ws!strandVars
  <2>1. UNCHANGED WsP!vars => UNCHANGED Ws!vars
    BY DEF WsP!vars, Ws!vars
  <2>2. WsP!Next => Ws!Next
    BY DEF WsP!Next, Ws!Next, WsP!Start, Ws!Start, WsP!RunPosted, Ws!RunPosted, WsP!OnWriteOk,
           Ws!OnWriteOk, WsP!OnWriteError, Ws!OnWriteError, WsP!OnRead, Ws!OnRead,
           WsP!HandlerSend, Ws!HandlerSend, WsP!HandlerClose, Ws!HandlerClose, WsP!CloseReturns,
           Ws!CloseReturns, WsP!HandlerReturn, Ws!HandlerReturn, WsP!OnReadError,
           Ws!OnReadError, WsP!SendCheck, Ws!SendCheck, WsP!SendEnqueue, Ws!SendEnqueue,
           WsP!Enqueue, Ws!Enqueue, WsP!NotSending, Ws!NotSending, WsP!DoWrite, Ws!DoWrite,
           WsP!SkipWrite, Ws!SkipWrite, WsP!GoIdle, Ws!GoIdle, WsP!WriteFront, Ws!WriteFront
  <2> QED
    BY <2>1, <2>2, WsStep DEF IInv
<1> QED
  BY <1>1, <1>2, Invariant, PTL DEF Spec, Ws!Spec

\* In particular: in the running server too, each session has one writer, a connected
\* session's queue is never left without one, and no frame is lost between send() and
\* the socket.
COROLLARY ServerWritePath == Spec => [](Ws!SingleWriter /\ Ws!NoLostWakeup /\ Ws!Conserved)
<1>0. MaxRequests + MaxPackets \in Nat
  BY BoundAssumption
<1>1. Spec => WsP!Spec
  <2>1. Init => WsP!Init
    BY DEF Init, Ws!Init, WsP!Init, Ws!NotSending, WsP!NotSending
  <2>2. IInv /\ [Next]_vars => [WsP!Next]_(WsP!vars)
    BY WsStep DEF IInv
  <2> QED
    BY <2>1, <2>2, Invariant, PTL DEF Spec, WsP!Spec
<1>2. WsP!Spec => []WsP!SingleWriter /\ []WsP!NoLostWakeup /\ []WsP!Conserved
  BY <1>0, WsP!SingleWriterHolds, WsP!NoLostWakeupHolds, WsP!ConservedHolds
<1>3. WsP!SingleWriter /\ WsP!NoLostWakeup /\ WsP!Conserved =>
          Ws!SingleWriter /\ Ws!NoLostWakeup /\ Ws!Conserved
  BY DEF WsP!SingleWriter, Ws!SingleWriter, WsP!NoLostWakeup, Ws!NoLostWakeup,
         WsP!Conserved, Ws!Conserved
<1> QED
  BY <1>1, <1>2, <1>3, PTL
=============================================================================
