---------------------------- MODULE TunnelProofs ----------------------------
(***************************************************************************)
(* Theorems of Tunnel for any number of connections and packets, any MTU a *)
(* frame can carry, and any width of the clock's word.  The refinement of  *)
(* VirtualLink rests on where the packets of a queue stand among those     *)
(* offered: right behind those taken, as long as someone reads the queue;  *)
(* and up to the last one, as long as something may still be sent behind   *)
(* it.  A failure of either end gives up one or the other.                 *)
(***************************************************************************)
EXTENDS Tunnel, WireProofs, SequenceTheorems, FiniteSetTheorems

----------------------------------------------------------------------------
(* The inductive invariant.                                                *)

AskFrame    == build_packet(MsgType.AuthRequest,
                   Whole(Request(clientClock, build_auth_token(clientSecret, clientClock))))
AnswerFrame == build_packet(MsgType.AuthResponse, Whole(Answer(TRUE)))
PacketFrame(p) == build_packet(MsgType.IpPacket, Whole(p))

\* A frame that is not a packet's.
Control(f) == f.header[1] # MsgType.IpPacket

\* Of the frames before the i-th, how many are not packets: at most one is.
Skipped(q, i) == IF \E j \in 1 .. i - 1 : Control(q[j]) THEN 1 ELSE 0

\* The packets in q are those of sent that follow the first n.
Follows(q, sent, n) ==
    \A i \in DOMAIN q : ~Control(q[i]) =>
        /\ n + i - Skipped(q, i) \in 1 .. Len(sent)
        /\ q[i] = PacketFrame(sent[n + i - Skipped(q, i)])

\* ... up to the last.
Complete(q, sent, n) == n + Len(q) - Skipped(q, Len(q) + 1) = Len(sent)

\* At most one frame of a queue is not a packet's; none is.
Once(q)    == \A i, j \in DOMAIN q : Control(q[i]) /\ Control(q[j]) => i = j
Packed(q)  == \A i \in DOMAIN q : ~Control(q[i])

\* The frames the two ends send, and a packet as a TUN thread has read it.
UpFrames   == {AskFrame} \cup {PacketFrame(p) : p \in Packets}
DownFrames == {AnswerFrame} \cup {PacketFrame(p) : p \in Packets}
Read       == {[packet |-> p, bytes |-> Whole(p)] : p \in Packets}

\* What TunnelTypeOK leaves out, and what it leaves open.
WellFormed ==
    /\ holding \in [Sessions -> SUBSET Read]
    /\ upQueue \in [Sessions -> Seq(UpFrames)] /\ downQueue \in [Sessions -> Seq(DownFrames)]
    /\ offered \in [Virtual!Directions -> [Sessions -> Seq(Packets)]]
    /\ taken \in [Virtual!Directions -> [Sessions -> Nat]]

\* A connection not made yet has done nothing.
Ahead ==
    \A s \in Sessions : s > current =>
        /\ s \notin reading \cup writable \cup serving \cup open
        /\ upQueue[s] = <<>> /\ downQueue[s] = <<>> /\ verdict[s] = "none"
        /\ \A d \in Virtual!Directions : offered[d][s] = <<>> /\ taken[d][s] = 0

\* Every connection asks once, and is answered once.
AskedOnce ==
    /\ ~asked => current \in Sessions /\ verdict[current] = "none" /\ Packed(upQueue[current])
    /\ \A s \in Sessions :
          /\ Once(upQueue[s]) /\ Once(downQueue[s])
          /\ verdict[s] # "none" => Packed(upQueue[s])
          /\ verdict[s] = "none" => Packed(downQueue[s])
          /\ offered["down"][s] # <<>> => verdict[s] = "yes"

\* What the server has said is what the settings of the two ends come to.
Judged ==
    \A s \in Sessions : verdict[s] # "none" =>
        verdict[s] = Verdict(serverSecret, build_auth_token(clientSecret, clientClock),
                             clientClock, serverClock)

\* The device has the address of the connection the client counts on.
Addressed == ~stray /\ address # None => connected /\ address = VipOf(current)

\* See above.
InOrder ==
    \A s \in Sessions :
        /\ s \in serving /\ verdict[s] # "never" =>
              /\ Follows(upQueue[s], offered["up"][s], taken["up"][s])
              /\ s \in writable => Complete(upQueue[s], offered["up"][s], taken["up"][s])
        /\ s \in reading =>
              /\ Follows(downQueue[s], offered["down"][s], taken["down"][s])
              /\ s \in open => Complete(downQueue[s], offered["down"][s], taken["down"][s])

IInv == TunnelTypeOK /\ WellFormed /\ Ahead /\ AskedOnce /\ Judged /\ Addressed /\ InOrder

----------------------------------------------------------------------------
(* Queues.                                                                 *)

\* What is where after each operation on a queue.
LEMMA TailElements ==
    ASSUME NEW S, NEW q \in Seq(S), q # <<>>
    PROVE  /\ Head(q) = q[1] /\ 1 \in DOMAIN q /\ Head(q) \in S
           /\ Tail(q) \in Seq(S) /\ Len(Tail(q)) = Len(q) - 1 /\ Len(q) \in Nat
           /\ \A i \in DOMAIN Tail(q) : i \in Nat /\ i + 1 \in DOMAIN q /\ Tail(q)[i] = q[i + 1]
           /\ \A i : i \in 1 .. Len(q) - 1 <=> i \in DOMAIN Tail(q)
BY HeadTailProperties, LenProperties

\* The frame that send() has put behind the others is the last; the others stay.
LEMMA AppendElements ==
    ASSUME NEW S, NEW q \in Seq(S), NEW f \in S
    PROVE  /\ Append(q, f) \in Seq(S) /\ Len(Append(q, f)) = Len(q) + 1 /\ Len(q) \in Nat
           /\ Append(q, f)[Len(q) + 1] = f
           /\ \A i \in 1 .. Len(q) : i \in DOMAIN q /\ Append(q, f)[i] = q[i]
           /\ DOMAIN Append(q, f) = 1 .. Len(q) + 1 /\ DOMAIN q = 1 .. Len(q)
BY AppendProperties, LenProperties

\* What a failing connection still lets out is the front of its queue.
LEMMA PrefixElements ==
    ASSUME NEW S, NEW q \in Seq(S), NEW u \in Prefixes(q)
    PROVE  /\ u \in Seq(S) /\ Len(u) \in Nat /\ Len(q) \in Nat /\ Len(u) <= Len(q)
           /\ DOMAIN u = 1 .. Len(u) /\ DOMAIN q = 1 .. Len(q)
           /\ \A i \in DOMAIN u : i \in DOMAIN q /\ u[i] = q[i]
<1>1. PICK n \in 0 .. Len(q) : u = SubSeq(q, 1, n)
  BY DEF Prefixes
<1>2. Len(q) \in Nat /\ DOMAIN q = 1 .. Len(q)
  BY LenProperties
<1>3. SubSeq(q, 1, n) \in Seq(S) /\ Len(SubSeq(q, 1, n)) = n
  BY <1>2, SubSeqProperties
<1>4. \A i \in 1 .. n : SubSeq(q, 1, n)[i] = q[i]
  BY <1>2, SubSeqProperties
<1>5. DOMAIN u = 1 .. Len(u)
  BY <1>1, <1>3, LenProperties
<1> QED
  BY <1>1, <1>2, <1>3, <1>4, <1>5

\* At most one frame of a queue is skipped.
LEMMA SkippedIs == \A q, i : Skipped(q, i) \in {0, 1}
BY DEF Skipped

\* Nothing has been sent, nothing is in the queue.
LEMMA FollowsEmpty ==
    /\ \A sent, n : Follows(<<>>, sent, n)
    /\ Complete(<<>>, <<>>, 0)
    /\ Once(<<>>) /\ Packed(<<>>)
<1>1. Skipped(<<>>, Len(<<>>) + 1) = 0
  BY DEF Skipped
<1> QED
  BY <1>1 DEF Follows, Complete, Once, Packed

\* One frame less: a packet has been taken, or there are only packets left.
LEMMA FollowsTail ==
    ASSUME NEW S, NEW q \in Seq(S), q # <<>>, Once(q)
    PROVE  /\ Once(Tail(q))
           /\ Packed(q) => Packed(Tail(q))
           /\ Control(Head(q)) =>
                 /\ Packed(Tail(q))
                 /\ \A sent : \A n \in Nat : Follows(q, sent, n) => Follows(Tail(q), sent, n)
                 /\ \A sent : \A n \in Nat : Complete(q, sent, n) => Complete(Tail(q), sent, n)
           /\ ~Control(Head(q)) =>
                 /\ \A sent : \A n \in Nat : Follows(q, sent, n) =>
                       /\ n + 1 \in 1 .. Len(sent) /\ Head(q) = PacketFrame(sent[n + 1])
                       /\ Follows(Tail(q), sent, n + 1)
                 /\ \A sent : \A n \in Nat : Complete(q, sent, n) => Complete(Tail(q), sent, n + 1)
<1> DEFINE t == Tail(q)
<1>1. /\ Head(q) = q[1] /\ 1 \in DOMAIN q
      /\ Len(t) = Len(q) - 1 /\ Len(q) \in Nat
      /\ \A i \in DOMAIN t : i \in Nat /\ i + 1 \in DOMAIN q /\ t[i] = q[i + 1]
      /\ \A i : i \in 1 .. Len(q) - 1 <=> i \in DOMAIN t
  BY TailElements
<1>0. DOMAIN q = 1 .. Len(q)
  BY LenProperties
<1> HIDE DEF t
<1>2. Once(t) /\ (Packed(q) => Packed(t))
  BY <1>1 DEF Once, Packed
<1>3. \A i \in 1 .. Len(t) + 1 : \A j \in 1 .. i - 1 : j \in DOMAIN t /\ t[j] = q[j + 1]
  BY <1>1
<1>4. ASSUME Control(Head(q))
      PROVE  /\ Packed(t)
             /\ \A i \in 1 .. Len(t) + 1 : Skipped(t, i) = 0 /\ Skipped(q, i + 1) = 1
  <2>1. Packed(t)
    BY <1>1, <1>4 DEF Once, Packed
  <2>2. ASSUME NEW i \in 1 .. Len(t) + 1
        PROVE  Skipped(t, i) = 0 /\ Skipped(q, i + 1) = 1
    <3>1. \A j \in 1 .. i - 1 : ~Control(t[j])
      BY <2>1, <1>3 DEF Packed
    <3>2. 1 \in 1 .. (i + 1) - 1 /\ Control(q[1])
      BY <1>1, <1>4
    <3> QED
      BY <3>1, <3>2 DEF Skipped
  <2> QED
    BY <2>1, <2>2
<1>5. ASSUME ~Control(Head(q))
      PROVE  \A i \in 1 .. Len(t) + 1 : Skipped(t, i) = Skipped(q, i + 1)
  <2> SUFFICES ASSUME NEW i \in 1 .. Len(t) + 1
               PROVE  (\E j \in 1 .. i - 1 : Control(t[j])) <=>
                      (\E j \in 1 .. (i + 1) - 1 : Control(q[j]))
    BY DEF Skipped
  <2>1. ASSUME NEW j \in 1 .. i - 1, Control(t[j])
        PROVE  \E k \in 1 .. (i + 1) - 1 : Control(q[k])
    <3>1. j + 1 \in 1 .. (i + 1) - 1 /\ Control(q[j + 1])
      BY <1>3, <2>1
    <3> QED BY <3>1
  <2>2. ASSUME NEW j \in 1 .. (i + 1) - 1, Control(q[j])
        PROVE  \E k \in 1 .. i - 1 : Control(t[k])
    <3>1. j # 1
      BY <1>1, <1>5, <2>2
    <3>2. j - 1 \in 1 .. i - 1 /\ (j - 1) + 1 = j
      BY <3>1
    <3>3. Control(t[j - 1])
      BY <3>2, <1>3, <2>2
    <3> QED BY <3>2, <3>3
  <2> QED BY <2>1, <2>2
<1>6. \A i \in DOMAIN t : i \in 1 .. Len(t) + 1
  BY <1>1
<1>7. Len(t) + 1 \in 1 .. Len(t) + 1 /\ (Len(t) + 1) + 1 = Len(q) + 1
  BY <1>0, <1>1
<1>8. ASSUME Control(Head(q)), NEW sent, NEW n \in Nat
      PROVE  /\ Follows(q, sent, n) => Follows(t, sent, n)
             /\ Complete(q, sent, n) => Complete(t, sent, n)
  <2>1. ASSUME Follows(q, sent, n), NEW i \in DOMAIN t, ~Control(t[i])
        PROVE  /\ n + i - Skipped(t, i) \in 1 .. Len(sent)
               /\ t[i] = PacketFrame(sent[n + i - Skipped(t, i)])
    <3>1. i \in Nat /\ i + 1 \in DOMAIN q /\ t[i] = q[i + 1]
      BY <1>1
    <3>2. Skipped(t, i) = 0 /\ Skipped(q, i + 1) = 1
      BY <1>4, <1>6, <1>8
    <3>3. n + (i + 1) - Skipped(q, i + 1) = n + i - Skipped(t, i)
      BY <3>1, <3>2
    <3>4. /\ n + (i + 1) - Skipped(q, i + 1) \in 1 .. Len(sent)
          /\ q[i + 1] = PacketFrame(sent[n + (i + 1) - Skipped(q, i + 1)])
      BY <2>1, <3>1 DEF Follows
    <3> QED
      BY <3>1, <3>3, <3>4
  <2>2. Skipped(t, Len(t) + 1) = 0 /\ Skipped(q, Len(q) + 1) = 1
    BY <1>4, <1>7, <1>8
  <2>3. Complete(q, sent, n) => Complete(t, sent, n)
    BY <1>1, <2>2 DEF Complete
  <2> QED
    BY <2>1, <2>3 DEF Follows
<1>9. ASSUME ~Control(Head(q)), NEW sent, NEW n \in Nat
      PROVE  /\ Follows(q, sent, n) =>
                    /\ n + 1 \in 1 .. Len(sent) /\ Head(q) = PacketFrame(sent[n + 1])
                    /\ Follows(t, sent, n + 1)
             /\ Complete(q, sent, n) => Complete(t, sent, n + 1)
  <2>1. ASSUME Follows(q, sent, n), NEW i \in DOMAIN t, ~Control(t[i])
        PROVE  /\ (n + 1) + i - Skipped(t, i) \in 1 .. Len(sent)
               /\ t[i] = PacketFrame(sent[(n + 1) + i - Skipped(t, i)])
    <3>1. i \in Nat /\ i + 1 \in DOMAIN q /\ t[i] = q[i + 1]
      BY <1>1
    <3>2. Skipped(t, i) = Skipped(q, i + 1) /\ Skipped(t, i) \in {0, 1}
      BY <1>5, <1>6, <1>9, SkippedIs
    <3>3. n + (i + 1) - Skipped(q, i + 1) = (n + 1) + i - Skipped(t, i)
      BY <3>1, <3>2
    <3>4. /\ n + (i + 1) - Skipped(q, i + 1) \in 1 .. Len(sent)
          /\ q[i + 1] = PacketFrame(sent[n + (i + 1) - Skipped(q, i + 1)])
      BY <2>1, <3>1 DEF Follows
    <3> QED
      BY <3>1, <3>3, <3>4
  <2>2. ASSUME Follows(q, sent, n)
        PROVE  n + 1 \in 1 .. Len(sent) /\ Head(q) = PacketFrame(sent[n + 1])
    <3>1. Skipped(q, 1) = 0
      BY DEF Skipped
    <3>2. n + 1 - Skipped(q, 1) = n + 1
      BY <3>1
    <3>3. /\ n + 1 - Skipped(q, 1) \in 1 .. Len(sent)
          /\ q[1] = PacketFrame(sent[n + 1 - Skipped(q, 1)])
      BY <1>1, <1>9, <2>2 DEF Follows
    <3> QED
      BY <1>1, <3>2, <3>3
  <2>3. Skipped(t, Len(t) + 1) = Skipped(q, Len(q) + 1) /\ Skipped(q, Len(q) + 1) \in {0, 1}
    BY <1>5, <1>7, <1>9, SkippedIs
  <2>4. Complete(q, sent, n) => Complete(t, sent, n + 1)
    BY <1>1, <2>3 DEF Complete
  <2> QED
    BY <2>1, <2>2, <2>4 DEF Follows
<1> QED
  BY <1>2, <1>4, <1>8, <1>9 DEF t

\* Frames behind a queue do not change where those in it stand.
LEMMA FollowsAppend ==
    ASSUME NEW S, NEW q \in Seq(S), NEW f \in S
    PROVE  /\ Control(f) /\ Packed(q) =>
                 /\ Once(Append(q, f))
                 /\ \A sent : \A n \in Nat : Follows(q, sent, n) => Follows(Append(q, f), sent, n)
                 /\ \A sent : \A n \in Nat : Complete(q, sent, n) => Complete(Append(q, f), sent, n)
           /\ ~Control(f) =>
                 /\ Once(q) => Once(Append(q, f))
                 /\ Packed(q) => Packed(Append(q, f))
<1> DEFINE u == Append(q, f)
<1>1. /\ Len(u) = Len(q) + 1 /\ Len(q) \in Nat /\ u[Len(q) + 1] = f
      /\ \A i \in 1 .. Len(q) : i \in DOMAIN q /\ u[i] = q[i]
      /\ DOMAIN u = 1 .. Len(q) + 1 /\ DOMAIN q = 1 .. Len(q)
  BY AppendElements
<1> HIDE DEF u
<1>2. \A i \in DOMAIN u : i \in DOMAIN q \/ i = Len(q) + 1
  BY <1>1
<1>3. ASSUME ~Control(f)
      PROVE  (Once(q) => Once(u)) /\ (Packed(q) => Packed(u))
  BY <1>1, <1>2, <1>3 DEF Once, Packed
<1>4. ASSUME Control(f), Packed(q)
      PROVE  /\ Once(u)
             /\ \A sent : \A n \in Nat : Follows(q, sent, n) => Follows(u, sent, n)
             /\ \A sent : \A n \in Nat : Complete(q, sent, n) => Complete(u, sent, n)
  <2>1. \A i \in DOMAIN q : ~Control(u[i])
    BY <1>1, <1>4 DEF Packed
  <2>2. Once(u)
    BY <1>2, <2>1 DEF Once
  <2>3. \A i \in DOMAIN q : Skipped(u, i) = Skipped(q, i)
    BY <1>1 DEF Skipped
  <2>4. ASSUME NEW sent, NEW n \in Nat, Follows(q, sent, n)
        PROVE  Follows(u, sent, n)
    <3> SUFFICES ASSUME NEW i \in DOMAIN u, ~Control(u[i])
                 PROVE  /\ n + i - Skipped(u, i) \in 1 .. Len(sent)
                        /\ u[i] = PacketFrame(sent[n + i - Skipped(u, i)])
      BY DEF Follows
    <3>1. i \in DOMAIN q /\ u[i] = q[i] /\ Skipped(u, i) = Skipped(q, i)
      BY <1>1, <1>2, <1>4, <2>3
    <3> QED
      BY <2>4, <3>1 DEF Follows
  <2>5. Skipped(q, Len(q) + 1) = 0
    <3>1. \A j \in 1 .. (Len(q) + 1) - 1 : j \in DOMAIN q
      BY <1>1
    <3> QED BY <3>1, <1>4 DEF Skipped, Packed
  <2>6. Skipped(u, Len(u) + 1) = 1
    <3>1. Len(q) + 1 \in 1 .. (Len(u) + 1) - 1 /\ Control(u[Len(q) + 1])
      BY <1>1, <1>4
    <3> QED BY <3>1 DEF Skipped
  <2>7. ASSUME NEW sent, NEW n \in Nat, Complete(q, sent, n)
        PROVE  Complete(u, sent, n)
    BY <1>1, <2>5, <2>6, <2>7 DEF Complete
  <2> QED
    BY <2>2, <2>4, <2>7
<1> QED
  BY <1>3, <1>4 DEF u

\* A packet sent behind a complete queue is offered and queued at the same place.
LEMMA FollowsSend ==
    ASSUME NEW S, NEW q \in Seq(S), NEW P, NEW sent \in Seq(P), NEW n \in Nat, NEW p \in P,
           PacketFrame(p) \in S, ~Control(PacketFrame(p)),
           Follows(q, sent, n), Complete(q, sent, n)
    PROVE  /\ Follows(Append(q, PacketFrame(p)), Append(sent, p), n)
           /\ Complete(Append(q, PacketFrame(p)), Append(sent, p), n)
<1> DEFINE u == Append(q, PacketFrame(p))
           w == Append(sent, p)
<1>1. /\ Len(u) = Len(q) + 1 /\ Len(q) \in Nat /\ u[Len(q) + 1] = PacketFrame(p)
      /\ \A i \in 1 .. Len(q) : i \in DOMAIN q /\ u[i] = q[i]
      /\ DOMAIN u = 1 .. Len(q) + 1 /\ DOMAIN q = 1 .. Len(q)
  BY AppendElements
<1>2. /\ Len(w) = Len(sent) + 1 /\ Len(sent) \in Nat /\ w[Len(sent) + 1] = p
      /\ \A i \in 1 .. Len(sent) : w[i] = sent[i]
  BY AppendElements
<1> HIDE DEF u, w
<1>3. \A i \in 1 .. Len(q) + 1 : Skipped(u, i) = Skipped(q, i)
  BY <1>1 DEF Skipped
<1>4. ASSUME NEW i \in DOMAIN q, ~Control(u[i])
      PROVE  /\ n + i - Skipped(u, i) \in 1 .. Len(w)
             /\ u[i] = PacketFrame(w[n + i - Skipped(u, i)])
  <2>1. i \in 1 .. Len(q) + 1 /\ i \in 1 .. Len(q)
    BY <1>1
  <2>2. u[i] = q[i] /\ Skipped(u, i) = Skipped(q, i)
    BY <1>1, <1>3, <2>1
  <2>3. /\ n + i - Skipped(u, i) \in 1 .. Len(sent)
        /\ q[i] = PacketFrame(sent[n + i - Skipped(u, i)])
    BY <1>4, <2>2 DEF Follows
  <2>4. n + i - Skipped(u, i) \in 1 .. Len(w)
    BY <1>2, <2>3
  <2> QED
    BY <1>2, <2>2, <2>3, <2>4
<1>5. Skipped(u, Len(q) + 1) = Skipped(q, Len(q) + 1) /\ Skipped(q, Len(q) + 1) \in {0, 1}
  BY <1>1, <1>3, SkippedIs
<1>6. n + (Len(q) + 1) - Skipped(u, Len(q) + 1) = Len(w)
  BY <1>1, <1>2, <1>5 DEF Complete
<1>7. Len(w) \in 1 .. Len(w) /\ w[Len(w)] = p
  BY <1>2
<1>8. \A i \in DOMAIN u : i \in DOMAIN q \/ i = Len(q) + 1
  BY <1>1
<1>9. Follows(u, w, n)
  <2> SUFFICES ASSUME NEW i \in DOMAIN u, ~Control(u[i])
               PROVE  /\ n + i - Skipped(u, i) \in 1 .. Len(w)
                      /\ u[i] = PacketFrame(w[n + i - Skipped(u, i)])
    BY DEF Follows
  <2>1. ASSUME i = Len(q) + 1
        PROVE  /\ n + i - Skipped(u, i) \in 1 .. Len(w)
               /\ u[i] = PacketFrame(w[n + i - Skipped(u, i)])
    BY <1>1, <1>6, <1>7, <2>1
  <2> QED
    BY <1>4, <1>8, <2>1
<1>10. Complete(u, w, n)
  <2>1. Skipped(u, Len(u) + 1) = Skipped(u, Len(q) + 1)
    <3>1. ~Control(u[Len(q) + 1])
      BY <1>1
    <3>2. \A j : j \in 1 .. (Len(u) + 1) - 1 => j \in 1 .. (Len(q) + 1) - 1 \/ j = Len(q) + 1
      BY <1>1
    <3>3. \A j : j \in 1 .. (Len(q) + 1) - 1 => j \in 1 .. (Len(u) + 1) - 1
      BY <1>1
    <3> QED BY <3>1, <3>2, <3>3 DEF Skipped
  <2> QED
    BY <1>1, <1>6, <2>1 DEF Complete
<1> QED
  BY <1>9, <1>10 DEF u, w

\* What a failing connection still lets out.
LEMMA FollowsPrefix ==
    ASSUME NEW S, NEW q \in Seq(S), NEW u \in Prefixes(q)
    PROVE  /\ Once(q) => Once(u)
           /\ Packed(q) => Packed(u)
           /\ \A sent, n : Follows(q, sent, n) => Follows(u, sent, n)
<1>1. /\ Len(u) \in Nat /\ Len(q) \in Nat /\ Len(u) <= Len(q)
      /\ DOMAIN u = 1 .. Len(u) /\ DOMAIN q = 1 .. Len(q)
      /\ \A i \in DOMAIN u : i \in DOMAIN q /\ u[i] = q[i]
  BY PrefixElements
<1>2. \A i \in DOMAIN u : Skipped(u, i) = Skipped(q, i)
  <2> SUFFICES ASSUME NEW i \in DOMAIN u
               PROVE  Skipped(u, i) = Skipped(q, i)
    OBVIOUS
  <2>1. \A j \in 1 .. i - 1 : u[j] = q[j]
    BY <1>1
  <2> QED BY <2>1 DEF Skipped
<1>3. (Once(q) => Once(u)) /\ (Packed(q) => Packed(u))
  BY <1>1 DEF Once, Packed
<1>4. ASSUME NEW sent, NEW n, Follows(q, sent, n)
      PROVE  Follows(u, sent, n)
  BY <1>1, <1>2, <1>4 DEF Follows
<1> QED
  BY <1>3, <1>4

----------------------------------------------------------------------------
(* Frames and packets.                                                     *)

\* A packet of a kernel fits in a frame.
LEMMA PacketFits ==
    ASSUME NEW p \in Packets
    PROVE  /\ p.size \in 1 .. Mtu /\ p.size \in 0 .. MAX_PAYLOAD /\ p.size \in Nat
           /\ Mtu \in Nat /\ Length(Whole(p)) = p.size
<1>1. p.size \in Sizes
  BY DEF Packets
<1>2. p.size \in 1 .. Mtu /\ Mtu \in 1 .. MAX_PAYLOAD
  BY <1>1, MtuAssumption
<1>3. p.size \in 0 .. MAX_PAYLOAD /\ p.size \in Nat /\ Mtu \in Nat
  <2>1. ASSUME NEW n \in 1 .. MAX_PAYLOAD, NEW m \in 1 .. n
        PROVE  m \in 0 .. MAX_PAYLOAD /\ m \in Nat /\ n \in Nat
    <3>1. n \in Int /\ n <= MAX_PAYLOAD /\ MAX_PAYLOAD \in Int
      BY MaxPayload
    <3>2. m \in Int /\ 1 <= m /\ m <= n
      BY <3>1
    <3> QED BY <3>1, <3>2
  <2> QED BY <1>2, <2>1
<1>4. Length(Whole(p)) = 0 + p.size
  BY DEF Length, Whole
<1> QED
  BY <1>2, <1>3, <1>4

\* Every header is five bytes.
LEMMA HeaderBytes ==
    ASSUME NEW type \in 1 .. 8, NEW n \in 0 .. MAX_PAYLOAD
    PROVE  serialize_header(type, n) \in [1 .. HEADER_SIZE -> 0 .. 255]
<1>1. n \in Int /\ type \in 0 .. 255
  BY Lengths
<1>2. \A m \in Int : m % 256 \in 0 .. 255
  OBVIOUS
<1>3. n \div 16777216 \in Int /\ n \div 65536 \in Int /\ n \div 256 \in Int
  BY <1>1
<1> DEFINE a == (n \div 16777216) % 256
           b == (n \div 65536) % 256
           c == (n \div 256) % 256
           d == n % 256
<1>4. a \in 0 .. 255 /\ b \in 0 .. 255 /\ c \in 0 .. 255 /\ d \in 0 .. 255
  BY <1>1, <1>2, <1>3
<1>5. serialize_header(type, n) = <<type, a, b, c, d>>
  BY DEF serialize_header
<1> HIDE DEF a, b, c, d
<1>6. <<type, a, b, c, d>> \in [1 .. 5 -> 0 .. 255]
  BY <1>1, <1>4
<1> QED
  BY <1>5, <1>6 DEF HEADER_SIZE

\* Frames the two ends send: their types and what dispatch_packet makes of them.
LEMMA FrameFacts ==
    ASSUME NEW type \in 1 .. 3, NEW b, NEW n \in 0 .. MAX_PAYLOAD, Length(b) = n
    PROVE  /\ build_packet(type, b).header \in [1 .. HEADER_SIZE -> 0 .. 255]
           /\ build_packet(type, b).header[1] = type
           /\ build_packet(type, b).payload = b
           /\ build_packet(type, b) = [header |-> build_packet(type, b).header, payload |-> b]
           /\ dispatch_packet(build_packet(type, b)) = {[type |-> type, payload |-> b]}
<1>1. build_packet(type, b) = [header |-> serialize_header(type, n), payload |-> b]
  BY DEF build_packet
<1>4. type \in 1 .. 8
  OBVIOUS
<1>2. serialize_header(type, n) \in [1 .. HEADER_SIZE -> 0 .. 255]
  BY <1>4, HeaderBytes
<1>3. serialize_header(type, n)[1] = type
  BY DEF serialize_header
<1>5. dispatch_packet(build_packet(type, b)) = {[type |-> type, payload |-> b]}
  BY <1>4, FrameDecodes
<1> QED
  BY <1>1, <1>2, <1>3, <1>5

\* What a frame may hold.
Requests == {Whole(Request(c, <<k, c>>)) : c \in Clocks, k \in Secrets}

\* A header and anything the two ends send make a frame.
LEMMA FramesHold ==
    ASSUME NEW h \in [1 .. HEADER_SIZE -> 0 .. 255], NEW b,
           b \in Strings \/ b = Whole(Answer(TRUE)) \/ b \in Requests
    PROVE  [header |-> h, payload |-> b] \in Frames
<1> DEFINE H == [1 .. HEADER_SIZE -> 0 .. 255]
           A == {Whole(Answer(TRUE))}
           P == Strings \cup A \cup Requests
<1>1. Frames = [header : H, payload : P]
  BY DEF Frames, Requests
<1>2. h \in H
  OBVIOUS
<1>3. b = Whole(Answer(TRUE)) => b \in A
  OBVIOUS
<1> HIDE DEF H, A
<1>4. b \in P
  BY <1>3
<1> HIDE DEF P
<1> QED
  BY <1>1, <1>2, <1>4

\* build_packet makes of every packet a frame that dispatch_packet takes apart again and that
\* is not mistaken for a control frame.
LEMMA PacketFrameFacts ==
    ASSUME NEW p \in Packets
    PROVE  /\ PacketFrame(p) \in Frames /\ ~Control(PacketFrame(p))
           /\ dispatch_packet(PacketFrame(p)) = {[type |-> MsgType.IpPacket, payload |-> Whole(p)]}
           /\ PacketFrame(p).header[1] = MsgType.IpPacket /\ PacketFrame(p).payload = Whole(p)
<1>1. MsgType.IpPacket = 3
  BY DEF MsgType
<1>2. p.size \in 0 .. MAX_PAYLOAD /\ Length(Whole(p)) = p.size /\ p.size \in Nat /\ 3 \in 1 .. 3
  BY PacketFits
<1>3. Whole(p) \in Strings
  BY <1>2 DEF Whole, Strings
<1>4. /\ build_packet(3, Whole(p)).header \in [1 .. HEADER_SIZE -> 0 .. 255]
      /\ build_packet(3, Whole(p)).header[1] = 3
      /\ build_packet(3, Whole(p)).payload = Whole(p)
      /\ build_packet(3, Whole(p)) = [header |-> build_packet(3, Whole(p)).header, payload |-> Whole(p)]
      /\ dispatch_packet(build_packet(3, Whole(p))) = {[type |-> 3, payload |-> Whole(p)]}
  BY <1>2, FrameFacts
<1>5. PacketFrame(p) = build_packet(3, Whole(p))
  BY <1>1 DEF PacketFrame
<1>6. PacketFrame(p) \in Frames
  <2>1. [header |-> build_packet(3, Whole(p)).header, payload |-> Whole(p)] \in Frames
    BY <1>3, <1>4, FramesHold
  <2> QED
    BY <1>4, <1>5, <2>1
<1> QED
  BY <1>1, <1>4, <1>5, <1>6 DEF Control

\* So it does of the AuthRequest and of the answer, and they are not mistaken for packets.
LEMMA ControlFrameFacts ==
    ASSUME clientClock \in Clocks, clientSecret \in Secrets
    PROVE  /\ AskFrame \in Frames /\ Control(AskFrame) /\ AskFrame.header[1] = MsgType.AuthRequest
           /\ dispatch_packet(AskFrame) =
                {[type |-> MsgType.AuthRequest,
                  payload |-> Whole(Request(clientClock, build_auth_token(clientSecret, clientClock)))]}
           /\ AskFrame.payload = Whole(Request(clientClock, build_auth_token(clientSecret, clientClock)))
           /\ AnswerFrame \in Frames /\ Control(AnswerFrame)
           /\ AnswerFrame.header[1] = MsgType.AuthResponse
           /\ AnswerFrame.payload = Whole(Answer(TRUE))
           /\ dispatch_packet(AnswerFrame) =
                {[type |-> MsgType.AuthResponse, payload |-> Whole(Answer(TRUE))]}
<1> DEFINE r == Whole(Request(clientClock, build_auth_token(clientSecret, clientClock)))
           a == Whole(Answer(TRUE))
<1>1. MsgType.AuthRequest = 1 /\ MsgType.AuthResponse = 2 /\ MsgType.IpPacket = 3
  BY DEF MsgType
<1>2. Length(r) = 1 /\ Length(a) = 1 /\ 1 \in 0 .. MAX_PAYLOAD /\ {1, 2} \subseteq 1 .. 3
  <2>1. 1 \in 0 .. MAX_PAYLOAD /\ {1, 2} \subseteq 1 .. 3
    BY MaxPayload
  <2> QED
    BY <2>1 DEF Length, Whole, Request, Answer
<1>3. r \in Requests
  BY DEF build_auth_token, Requests
<1> HIDE DEF r
<1>4. /\ build_packet(1, r).header \in [1 .. HEADER_SIZE -> 0 .. 255]
      /\ build_packet(1, r).header[1] = 1
      /\ build_packet(1, r).payload = r
      /\ build_packet(1, r) = [header |-> build_packet(1, r).header, payload |-> r]
      /\ dispatch_packet(build_packet(1, r)) = {[type |-> 1, payload |-> r]}
  BY <1>2, FrameFacts
<1>5. AskFrame = build_packet(1, r)
  BY <1>1 DEF AskFrame, r
<1>6. AskFrame \in Frames
  <2>1. [header |-> build_packet(1, r).header, payload |-> r] \in Frames
    BY <1>3, <1>4, FramesHold
  <2> QED
    BY <1>4, <1>5, <2>1
<1>7. a = Whole(Answer(TRUE))
  OBVIOUS
<1> HIDE DEF a
<1>8. /\ build_packet(2, a).header \in [1 .. HEADER_SIZE -> 0 .. 255]
      /\ build_packet(2, a).header[1] = 2
      /\ build_packet(2, a).payload = a
      /\ build_packet(2, a) = [header |-> build_packet(2, a).header, payload |-> a]
      /\ dispatch_packet(build_packet(2, a)) = {[type |-> 2, payload |-> a]}
  BY <1>2, FrameFacts
<1>9. AnswerFrame = build_packet(2, a)
  BY <1>1 DEF AnswerFrame, a
<1>10. AnswerFrame \in Frames
  BY <1>7, <1>8, <1>9, FramesHold
<1>11. Control(AskFrame) /\ Control(AnswerFrame)
  BY <1>1, <1>4, <1>5, <1>8, <1>9 DEF Control
<1> QED
  BY <1>1, <1>4, <1>5, <1>6, <1>8, <1>9, <1>10, <1>11 DEF r, a

\* A TUN thread reads whole packets on either platform: the buffer has room for the
\* largest, and the address family goes and no more.
LEMMA ReadWhole ==
    ASSUME NEW host \in Platforms, NEW p \in Packets
    PROVE  read_packet(host, p, Mtu) = {Whole(p)}
<1>1. /\ p.size \in Nat /\ Mtu \in Nat /\ 1 <= p.size /\ p.size <= Mtu
  BY PacketFits
<1> DEFINE k == FamilySize(host)
           b == [of |-> p, lead |-> k, size |-> p.size]
<1>2. k \in Nat
  BY DEF FamilySize, UTUN_HEADER_SIZE
<1> HIDE DEF k
<1>3. Shift(Whole(p), k) = b
  BY <1>2 DEF Shift, Whole
<1>4. Length(b) = k + p.size
  BY DEF Length
<1>5. Cut(b, Mtu + k + BUFFER_SLACK) = b
  BY <1>1, <1>2, <1>4 DEF Cut, BUFFER_SLACK
<1>6. ~(Length(b) <= k)
  BY <1>1, <1>2, <1>4
<1>7. Shift(b, -k) = Whole(p)
  <2>1. Shift(b, -k) = [of |-> p, lead |-> k + (-k), size |-> p.size]
    BY DEF Shift
  <2>2. k + (-k) = 0
    BY <1>2
  <2> QED BY <2>1, <2>2 DEF Whole
<1> HIDE DEF b
<1> QED
  BY <1>3, <1>5, <1>6, <1>7 DEF read_packet, k

\* The other kernel gets the packet itself.
LEMMA KernelGetsPacket ==
    ASSUME NEW host \in Platforms, NEW p \in Packets
    PROVE  AsPacket(KernelGets(host, write_packet(host, Whole(p)))) = p
<1> DEFINE k == FamilySize(host)
           b == [of |-> p, lead |-> k, size |-> p.size]
<1>1. k \in Nat
  BY DEF FamilySize, UTUN_HEADER_SIZE
<1>2. write_packet(host, Whole(p)) = b
  <2> HIDE DEF k
  <2>1. Shift(Whole(p), k) = b
    BY <1>1 DEF Shift, Whole
  <2> QED BY <2>1 DEF write_packet, k
<1>3. KernelGets(host, b) = Whole(p)
  <2> HIDE DEF k
  <2>1. Shift(b, -k) = [of |-> p, lead |-> k + (-k), size |-> p.size]
    BY DEF Shift
  <2>2. k + (-k) = 0
    BY <1>1
  <2>3. Shift(b, -k) = Whole(p)
    BY <2>1, <2>2 DEF Whole
  <2> QED BY <2>3 DEF KernelGets, k
<1>4. Whole(p).of = p
  BY DEF Whole
<1> HIDE DEF b
<1> QED
  BY <1>2, <1>3, <1>4 DEF AsPacket

----------------------------------------------------------------------------
(* The verdict.                                                            *)

\* A time is the same as an unsigned word.
LEMMA SmallRemainder ==
    ASSUME NEW n \in Times
    PROVE  n % TimeSpan = n
<1>1. TimeSpan \in Nat /\ TimeSpan > 0 /\ n \in Int /\ 0 <= n /\ n < TimeSpan
  BY TimeAssumption DEF Times
<1>2. n = 0 * TimeSpan + n
  BY <1>1
<1> QED BY <1>1, <1>2

\* For a plausible time the loop goes from a window before it to a window after it.
LEMMA PlausibleLoop ==
    ASSUME NEW t \in Int, Plausible(t)
    PROVE  /\ First(t) = t - Window /\ Last(t) = t + Window
           /\ \A k \in 0 .. 2 * Window + 1 : Try(t, k) = t - Window + k
           /\ Gets(t, Window) /\ Window \in Times
           /\ Try(t, Window) = t
           /\ ~Gets(t, TimeSpan - 1)
<1>1. /\ TimeSpan \in Nat /\ Window \in Nat /\ TimeSpan > 2 * Window + 2
      /\ Window <= t /\ t <= TimeSpan - Window - 2
  BY TimeAssumption DEF Plausible
<1>2. t - Window \in Times /\ t + Window \in Times /\ Window \in Times
  BY <1>1 DEF Times
<1>3. First(t) = t - Window /\ Last(t) = t + Window
  BY <1>2, SmallRemainder DEF First, Last
<1>4. ASSUME NEW k \in 0 .. 2 * Window + 1
      PROVE  Try(t, k) = t - Window + k
  <2>1. t - Window + k \in Times
    BY <1>1 DEF Times
  <2> QED BY <1>3, <2>1, SmallRemainder DEF Try
<1>5. Gets(t, Window)
  <2> SUFFICES ASSUME NEW j \in 0 .. Window PROVE Try(t, j) <= Last(t)
    BY DEF Gets
  <2>1. j \in 0 .. 2 * Window + 1 /\ j \in Int /\ j <= Window
    BY <1>1
  <2>2. Try(t, j) = t - Window + j
    BY <1>4, <2>1
  <2> QED BY <1>1, <1>3, <2>1, <2>2
<1>6. Try(t, Window) = t
  <2>1. Window \in 0 .. 2 * Window + 1
    BY <1>1
  <2>2. Try(t, Window) = t - Window + Window
    BY <1>4, <2>1
  <2> QED BY <1>1, <2>2
<1>7. ~Gets(t, TimeSpan - 1)
  <2>1. 2 * Window + 1 \in 0 .. TimeSpan - 1 /\ 2 * Window + 1 \in 0 .. 2 * Window + 1
    BY <1>1
  <2>2. Try(t, 2 * Window + 1) = t - Window + (2 * Window + 1)
    BY <1>4, <2>1
  <2>3. Try(t, 2 * Window + 1) > Last(t)
    BY <1>1, <1>3, <2>2
  <2>4. ~(Try(t, 2 * Window + 1) <= Last(t))
    BY <1>1, <1>3, <2>2
  <2> QED BY <2>1, <2>4 DEF Gets
<1> QED
  BY <1>2, <1>3, <1>4, <1>5, <1>6, <1>7

\* Whatever the clocks show, a token made with another secret is not accepted.
LEMMA VerifySound ==
    ASSUME NEW secret, NEW own, NEW stamp, NEW now
    PROVE  /\ verify_auth_token(secret, build_auth_token(own, stamp), now) \in {"yes", "no", "never"}
           /\ verify_auth_token(secret, build_auth_token(own, stamp), now) = "yes" => own = secret
<1> DEFINE token == build_auth_token(own, stamp)
           M == \E k \in Times : /\ Gets(now, k)
                                 /\ token = build_auth_token(secret, Try(now, k))
<1>1. M => own = secret
  BY DEF build_auth_token
<1>2. verify_auth_token(secret, token, now) =
        CASE M -> "yes" [] OTHER -> IF Gets(now, TimeSpan - 1) THEN "never" ELSE "no"
  BY DEF verify_auth_token
<1> HIDE DEF M, token
<1>3. /\ verify_auth_token(secret, token, now) \in {"yes", "no", "never"}
      /\ verify_auth_token(secret, token, now) = "yes" => M
  BY <1>2
<1> QED BY <1>1, <1>3 DEF token

\* Around a plausible time the search finds that time's token, and ends.
LEMMA VerifyExact ==
    ASSUME NEW secret, NEW own, NEW t \in Int, NEW now \in Int, Plausible(now)
    PROVE  /\ own = secret /\ t = now =>
                 verify_auth_token(secret, build_auth_token(own, t), now) = "yes"
           /\ own # secret => verify_auth_token(secret, build_auth_token(own, t), now) = "no"
<1> DEFINE token == build_auth_token(own, t)
           M == \E k \in Times : /\ Gets(now, k)
                                 /\ token = build_auth_token(secret, Try(now, k))
<1>1. Gets(now, Window) /\ Window \in Times /\ Try(now, Window) = now /\ ~Gets(now, TimeSpan - 1)
  BY PlausibleLoop
<1>2. own = secret /\ t = now => M
  <2> SUFFICES ASSUME own = secret, t = now
               PROVE  Gets(now, Window) /\ token = build_auth_token(secret, Try(now, Window))
    BY <1>1
  <2> QED BY <1>1
<1>3. own # secret => ~M
  BY DEF build_auth_token
<1>4. verify_auth_token(secret, token, now) =
        CASE M -> "yes" [] OTHER -> IF Gets(now, TimeSpan - 1) THEN "never" ELSE "no"
  BY DEF verify_auth_token
<1> HIDE DEF M, token
<1>5. /\ M => verify_auth_token(secret, token, now) = "yes"
      /\ ~M => verify_auth_token(secret, token, now) = "no"
  BY <1>1, <1>4
<1> QED BY <1>2, <1>3, <1>5 DEF token

\* What the server makes of a client's token.
LEMMA VerdictIs ==
    ASSUME NEW secret, NEW own, NEW t \in Int, NEW now \in Int
    PROVE  LET v == Verdict(secret, build_auth_token(own, t), t, now)
           IN  /\ v \in {"yes", "no", "never"}
               /\ v = "yes" => secret \in {NoSecret, own}
               /\ Plausible(t) /\ Plausible(now) =>
                     v = IF secret \in {NoSecret, own} THEN "yes" ELSE "no"
<1> DEFINE token == build_auth_token(own, t)
           claimed == verify_auth_token(secret, token, t)
           later == verify_auth_token(secret, token, now)
           v == Verdict(secret, token, t, now)
<1>1. /\ claimed \in {"yes", "no", "never"} /\ (claimed = "yes" => own = secret)
      /\ later \in {"yes", "no", "never"} /\ (later = "yes" => own = secret)
  BY VerifySound
<1>2. Plausible(t) => (own = secret => claimed = "yes") /\ (own # secret => claimed = "no")
  BY VerifyExact
<1>3. Plausible(now) => (own # secret => later = "no")
  BY VerifyExact
<1>4. v = CASE secret = NoSecret -> "yes"
            [] secret # NoSecret /\ claimed # "no" -> claimed
            [] OTHER -> later
  BY DEF Verdict
<1> HIDE DEF token, claimed, later, v
<1>5. /\ secret = NoSecret => v = "yes"
      /\ secret # NoSecret /\ claimed # "no" => v = claimed
      /\ secret # NoSecret /\ claimed = "no" => v = later
  BY <1>4
<1>6. v \in {"yes", "no", "never"} /\ (v = "yes" => secret \in {NoSecret, own})
  BY <1>1, <1>5
<1>7. Plausible(t) /\ Plausible(now) => v = IF secret \in {NoSecret, own} THEN "yes" ELSE "no"
  BY <1>2, <1>3, <1>5
<1> QED
  BY <1>6, <1>7 DEF v, token

----------------------------------------------------------------------------
(* What the actions do, in terms of the frames the two ends send.          *)

\* Nobody is configured anew.
LEMMA Rigid ==
    ASSUME [Next]_vars
    PROVE  UNCHANGED settings
BY DEF Next, vars, settings, SendAuth, Connect, ClientReadFails, ClientWriteFails,
      ServerWriteFails, ServerReadFails, ClientTunRead, ClientTunSend, ServerTun, ServerAuth,
      ServerPacket, ClientAnswer, ClientPacket

\* With the same settings, the same frames are sent.
LEMMA SameFrames ==
    ASSUME UNCHANGED settings
    PROVE  UpFrames' = UpFrames /\ DownFrames' = DownFrames /\ AskFrame' = AskFrame
BY DEF settings, UpFrames, DownFrames, AskFrame

\* The settings' types, and what they make of the frames.
LEMMA Configured ==
    ASSUME TunnelTypeOK
    PROVE  /\ clientSecret \in Secrets /\ clientClock \in Clocks
           /\ clientClock \in Int /\ serverClock \in Int
           /\ platform \in Platforms /\ "linux" \in Platforms
           /\ AskFrame \in UpFrames /\ AnswerFrame \in DownFrames
           /\ \A p \in Packets : PacketFrame(p) \in UpFrames /\ PacketFrame(p) \in DownFrames
           /\ UpFrames \subseteq Frames /\ DownFrames \subseteq Frames
           /\ \A f \in UpFrames : f.header[1] = MsgType.AuthRequest => f = AskFrame
           /\ \A f \in UpFrames : f.header[1] # MsgType.AuthResponse
           /\ \A f \in DownFrames : f.header[1] = MsgType.AuthResponse => f = AnswerFrame
           /\ \A f \in UpFrames : Control(f) <=> f = AskFrame
           /\ \A f \in DownFrames : Control(f) <=> f = AnswerFrame
<1>1. /\ clientSecret \in Secrets /\ clientClock \in Clocks /\ serverClock \in Clocks
      /\ platform \in Platforms
  BY DEF TunnelTypeOK
<1>2. clientClock \in Int /\ serverClock \in Int
  BY <1>1, InputAssumption DEF Times
<1>3. MsgType.AuthRequest = 1 /\ MsgType.AuthResponse = 2 /\ MsgType.IpPacket = 3
  BY DEF MsgType
<1>4. /\ AskFrame \in Frames /\ Control(AskFrame) /\ AskFrame.header[1] = 1
      /\ AnswerFrame \in Frames /\ Control(AnswerFrame) /\ AnswerFrame.header[1] = 2
  BY <1>1, <1>3, ControlFrameFacts
<1>5. \A p \in Packets : /\ PacketFrame(p) \in Frames /\ ~Control(PacketFrame(p))
                         /\ PacketFrame(p).header[1] = 3
  BY <1>3, PacketFrameFacts
<1>6. \A f \in UpFrames : f = AskFrame \/ \E p \in Packets : f = PacketFrame(p)
  BY DEF UpFrames
<1>7. \A f \in DownFrames : f = AnswerFrame \/ \E p \in Packets : f = PacketFrame(p)
  BY DEF DownFrames
<1>8. /\ AskFrame \in UpFrames /\ AnswerFrame \in DownFrames
      /\ \A p \in Packets : PacketFrame(p) \in UpFrames /\ PacketFrame(p) \in DownFrames
  BY DEF UpFrames, DownFrames
<1>9. "linux" \in Platforms
  BY DEF Platforms
<1>10. UpFrames \subseteq Frames /\ DownFrames \subseteq Frames
  BY <1>4, <1>5, <1>6, <1>7
<1>11. \A f \in UpFrames : /\ f.header[1] = 1 => f = AskFrame
                           /\ f.header[1] # 2
                           /\ Control(f) <=> f = AskFrame
  BY <1>4, <1>5, <1>6
<1>12. \A f \in DownFrames : /\ f.header[1] = 2 => f = AnswerFrame
                             /\ Control(f) <=> f = AnswerFrame
  BY <1>4, <1>5, <1>7
<1> QED
  BY <1>1, <1>2, <1>3, <1>8, <1>9, <1>10, <1>11, <1>12

\* The head of a queue with something in it.
LEMMA Heads ==
    ASSUME WellFormed, NEW s \in Sessions
    PROVE  /\ upQueue[s] # <<>> => Head(upQueue[s]) \in UpFrames
           /\ downQueue[s] # <<>> => Head(downQueue[s]) \in DownFrames
<1>1. upQueue[s] \in Seq(UpFrames) /\ downQueue[s] \in Seq(DownFrames)
  BY DEF WellFormed
<1> QED
  BY <1>1, TailElements

\* An AuthRequest is handled once, and for what it is.
LEMMA AuthEffect ==
    ASSUME IInv, NEW s \in Sessions, ServerAuth(s)
    PROVE  /\ s \in serving /\ verdict[s] = "none" /\ upQueue[s] # <<>>
           /\ Head(upQueue[s]) = AskFrame /\ Control(Head(upQueue[s]))
           /\ verdict' = [verdict EXCEPT ![s] =
                 Verdict(serverSecret, build_auth_token(clientSecret, clientClock),
                         clientClock, serverClock)]
           /\ verdict'[s] \in {"yes", "no", "never"}
<1>1. TunnelTypeOK /\ WellFormed /\ AskedOnce
  BY DEF IInv
<1>2. s \in serving /\ upQueue[s] # <<>>
  BY DEF ServerAuth
<1>3. Head(upQueue[s]) \in UpFrames
  BY <1>1, <1>2, Heads
<1>4. PICK m \in dispatch_packet(Head(upQueue[s])) :
          /\ m.type = MsgType.AuthRequest
          /\ verdict' = [verdict EXCEPT ![s] = Verdict(serverSecret, m.payload.of.token,
                                                       m.payload.of.stamp, serverClock)]
  BY DEF ServerAuth
<1>5. Head(upQueue[s]) = AskFrame
  <2>1. ASSUME NEW p \in Packets, Head(upQueue[s]) = PacketFrame(p)
        PROVE  FALSE
    <3>1. dispatch_packet(PacketFrame(p)) = {[type |-> MsgType.IpPacket, payload |-> Whole(p)]}
      BY PacketFrameFacts
    <3>2. m.type = MsgType.IpPacket
      BY <1>4, <2>1, <3>1
    <3> QED
      BY <1>4, <3>2 DEF MsgType
  <2> QED
    BY <1>3, <2>1 DEF UpFrames
<1>6. m.payload = Whole(Request(clientClock, build_auth_token(clientSecret, clientClock)))
  <2>1. dispatch_packet(AskFrame) =
          {[type |-> MsgType.AuthRequest,
            payload |-> Whole(Request(clientClock, build_auth_token(clientSecret, clientClock)))]}
    BY <1>1, Configured, ControlFrameFacts
  <2>2. m = [type |-> MsgType.AuthRequest,
             payload |-> Whole(Request(clientClock, build_auth_token(clientSecret, clientClock)))]
    BY <1>4, <1>5, <2>1
  <2> QED
    BY <2>2
<1>7. /\ m.payload.of.token = build_auth_token(clientSecret, clientClock)
      /\ m.payload.of.stamp = clientClock
  BY <1>6 DEF Whole, Request
<1> DEFINE v == Verdict(serverSecret, build_auth_token(clientSecret, clientClock),
                        clientClock, serverClock)
<1>8. verdict' = [verdict EXCEPT ![s] = v]
  BY <1>4, <1>7
<1>9. v \in {"yes", "no", "never"}
  <2>1. clientClock \in Int /\ serverClock \in Int
    BY <1>1, Configured
  <2> QED BY <2>1, VerdictIs
<1> HIDE DEF v
<1>10. verdict'[s] = v
  BY <1>1, <1>8 DEF TunnelTypeOK
<1>11. Control(Head(upQueue[s]))
  BY <1>1, <1>3, <1>5, Configured
<1>12. verdict[s] = "none"
  <2>1. upQueue[s] \in Seq(UpFrames)
    BY <1>1 DEF WellFormed
  <2>2. Head(upQueue[s]) = upQueue[s][1] /\ 1 \in DOMAIN upQueue[s]
    BY <1>2, <2>1, TailElements
  <2> QED
    BY <1>1, <1>11, <2>2 DEF AskedOnce, Packed
<1> QED
  BY <1>2, <1>5, <1>8, <1>9, <1>10, <1>11, <1>12 DEF v

\* What handle_packet does to the session in each outcome: the answer is queued, the session
\* is closed, or nothing is read any more.
LEMMA AuthOutcome ==
    ASSUME NEW s \in Sessions, ServerAuth(s)
    PROVE  /\ \/ /\ verdict'[s] = "yes"
                 /\ upQueue' = [upQueue EXCEPT ![s] = Tail(@)]
                 /\ \/ s \notin open /\ downQueue' = downQueue
                    \/ /\ s \in open
                       /\ downQueue' = [downQueue EXCEPT ![s] = Append(@, AnswerFrame)]
                 /\ open' = open /\ serving' = serving
              \/ /\ verdict'[s] = "no"
                 /\ upQueue' = [upQueue EXCEPT ![s] = <<>>] /\ downQueue' = downQueue
                 /\ open' = open \ {s} /\ serving' = serving \ {s}
              \/ /\ verdict'[s] = "never"
                 /\ upQueue' = [upQueue EXCEPT ![s] = <<>>] /\ downQueue' = downQueue
                 /\ open' = open /\ serving' = serving
           /\ UNCHANGED <<settings, client, packetVars, emitted>>
BY DEF ServerAuth, ConsumeUp, AnswerFrame

\* A queued packet and its place, once it is at the head.
LEMMA HeadPlace ==
    ASSUME NEW S, NEW q \in Seq(S), q # <<>>, Once(q), NEW sent \in Seq(Packets), NEW n \in Nat,
           Follows(q, sent, n), ~Control(Head(q)), NEW m \in dispatch_packet(Head(q))
    PROVE  /\ n + 1 \in 1 .. Len(sent) /\ sent[n + 1] \in Packets
           /\ m.payload = Whole(sent[n + 1])
<1>1. n + 1 \in 1 .. Len(sent) /\ Head(q) = PacketFrame(sent[n + 1])
  BY FollowsTail
<1>2. sent[n + 1] \in Packets
  BY <1>1, ElementOfSeq
<1>3. dispatch_packet(Head(q)) =
          {[type |-> MsgType.IpPacket, payload |-> Whole(sent[n + 1])]}
  BY <1>1, <1>2, PacketFrameFacts
<1>4. m = [type |-> MsgType.IpPacket, payload |-> Whole(sent[n + 1])]
  BY <1>3
<1> QED
  BY <1>1, <1>2, <1>4

\* The server's device gets the packet that was offered next, or it is lost.
LEMMA ServerPacketEffect ==
    ASSUME IInv, NEW s \in Sessions, ServerPacket(s)
    PROVE  /\ s \in serving /\ verdict[s] # "never" /\ upQueue[s] # <<>>
           /\ ~Control(Head(upQueue[s]))
           /\ upQueue' = [upQueue EXCEPT ![s] = Tail(@)]
           /\ taken["up"][s] + 1 \in 1 .. Len(offered["up"][s])
           /\ taken' = [taken EXCEPT !["up"][s] = @ + 1] /\ offered' = offered
           /\ \/ arrived' = arrived
              \/ /\ verdict[s] = "yes"
                 /\ arrived' = [arrived EXCEPT !["up"][s] =
                                  Append(@, offered["up"][s][taken["up"][s] + 1])]
           /\ UNCHANGED <<settings, client, server, downQueue, emitted>>
<1>1. TunnelTypeOK /\ WellFormed /\ AskedOnce /\ InOrder
  BY DEF IInv
<1>2. /\ s \in serving /\ verdict[s] # "never" /\ upQueue[s] # <<>>
      /\ upQueue' = [upQueue EXCEPT ![s] = Tail(@)]
      /\ UNCHANGED <<settings, client, server, downQueue, emitted>>
  BY DEF ServerPacket, ConsumeUp
<1>3. PICK m \in dispatch_packet(Head(upQueue[s])), written \in BOOLEAN :
          /\ m.type = MsgType.IpPacket
          /\ written => verdict[s] = "yes"
          /\ Takes("up", s, "linux", m.payload, written)
  BY DEF ServerPacket
<1>4. ~Control(Head(upQueue[s]))
  <2>1. ASSUME Head(upQueue[s]) = AskFrame
        PROVE  FALSE
    <3>1. \A x \in dispatch_packet(AskFrame) : x.type = MsgType.AuthRequest
      BY <1>1, Configured, ControlFrameFacts
    <3> QED
      BY <1>3, <2>1, <3>1 DEF MsgType
  <2> QED
    BY <1>1, <1>2, <2>1, Heads, Configured
<1> DEFINE q == upQueue[s]
           sent == offered["up"][s]
           n == taken["up"][s]
           p == sent[n + 1]
<1>5. /\ q \in Seq(UpFrames) /\ sent \in Seq(Packets) /\ n \in Nat /\ Once(q)
      /\ Follows(q, sent, n)
  BY <1>1, <1>2 DEF WellFormed, AskedOnce, InOrder, Virtual!Directions
<1>6. n + 1 \in 1 .. Len(sent) /\ p \in Packets /\ m.payload = Whole(p)
  <2> HIDE DEF sent, n
  <2> QED BY <1>2, <1>3, <1>4, <1>5, HeadPlace
<1>7. AsPacket(KernelGets("linux", write_packet("linux", Whole(p)))) = p
  <2> HIDE DEF p
  <2> QED BY <1>1, <1>6, Configured, KernelGetsPacket
<1> HIDE DEF p
<1>8. /\ taken' = [taken EXCEPT !["up"][s] = @ + 1] /\ offered' = offered
      /\ arrived' = IF written THEN [arrived EXCEPT !["up"][s] = Append(@, p)] ELSE arrived
  BY <1>3, <1>6, <1>7 DEF Takes
<1> QED
  BY <1>2, <1>3, <1>4, <1>6, <1>8 DEF p

\* The same of the client's.
LEMMA ClientPacketEffect ==
    ASSUME IInv, NEW s \in Sessions, ClientPacket(s)
    PROVE  /\ s \in reading /\ downQueue[s] # <<>> /\ ~Control(Head(downQueue[s]))
           /\ downQueue' = [downQueue EXCEPT ![s] = Tail(@)]
           /\ taken["down"][s] + 1 \in 1 .. Len(offered["down"][s])
           /\ verdict[s] = "yes"
           /\ taken' = [taken EXCEPT !["down"][s] = @ + 1] /\ offered' = offered
           /\ \/ arrived' = arrived
              \/ arrived' = [arrived EXCEPT !["down"][s] =
                               Append(@, offered["down"][s][taken["down"][s] + 1])]
           /\ UNCHANGED <<settings, client, server, upQueue, emitted>>
<1>1. TunnelTypeOK /\ WellFormed /\ AskedOnce /\ InOrder
  BY DEF IInv
<1>2. /\ s \in reading /\ downQueue[s] # <<>>
      /\ downQueue' = [downQueue EXCEPT ![s] = Tail(@)]
      /\ UNCHANGED <<settings, client, server, upQueue, emitted>>
  BY DEF ClientPacket, ConsumeDown
<1>3. PICK m \in dispatch_packet(Head(downQueue[s])), written \in BOOLEAN :
          /\ m.type = MsgType.IpPacket
          /\ Takes("down", s, platform, m.payload, written)
  BY DEF ClientPacket
<1>4. ~Control(Head(downQueue[s]))
  <2>1. ASSUME Head(downQueue[s]) = AnswerFrame
        PROVE  FALSE
    <3> DEFINE a == Whole(Answer(TRUE))
    <3>1. dispatch_packet(AnswerFrame) = {[type |-> MsgType.AuthResponse, payload |-> a]}
      BY <1>1, Configured, ControlFrameFacts
    <3> HIDE DEF a
    <3>2. m.type = MsgType.AuthResponse
      BY <1>3, <2>1, <3>1
    <3> QED
      BY <1>3, <3>2 DEF MsgType
  <2> QED
    BY <1>1, <1>2, <2>1, Heads, Configured
<1> DEFINE q == downQueue[s]
           sent == offered["down"][s]
           n == taken["down"][s]
           p == sent[n + 1]
<1>5. /\ q \in Seq(DownFrames) /\ sent \in Seq(Packets) /\ n \in Nat /\ Once(q)
      /\ Follows(q, sent, n)
  BY <1>1, <1>2 DEF WellFormed, AskedOnce, InOrder, Virtual!Directions
<1>6. n + 1 \in 1 .. Len(sent) /\ p \in Packets /\ m.payload = Whole(p)
  <2> HIDE DEF sent, n
  <2> QED BY <1>2, <1>3, <1>4, <1>5, HeadPlace
<1>7. AsPacket(KernelGets(platform, write_packet(platform, Whole(p)))) = p
  <2> HIDE DEF p
  <2> QED BY <1>1, <1>6, Configured, KernelGetsPacket
<1> HIDE DEF p
<1>8. /\ taken' = [taken EXCEPT !["down"][s] = @ + 1] /\ offered' = offered
      /\ arrived' = IF written THEN [arrived EXCEPT !["down"][s] = Append(@, p)] ELSE arrived
  BY <1>3, <1>6, <1>7 DEF Takes
<1>9. sent # <<>>
  <2>1. Len(sent) # 0
    <3> HIDE DEF sent, n
    <3>1. Len(sent) \in Nat
      BY <1>5, LenProperties
    <3> QED BY <1>5, <1>6, <3>1
  <2> QED
    BY <1>5, <2>1, EmptySeq
<1>10. verdict[s] = "yes"
  BY <1>1, <1>9 DEF AskedOnce
<1> QED
  BY <1>2, <1>3, <1>4, <1>6, <1>8, <1>10 DEF p

\* An AuthResponse is read for what it is.
LEMMA AnswerEffect ==
    ASSUME IInv, NEW s \in Sessions, ClientAnswer(s)
    PROVE  /\ s \in reading /\ downQueue[s] # <<>> /\ Control(Head(downQueue[s]))
           /\ downQueue' = [downQueue EXCEPT ![s] = Tail(@)]
           /\ answered' = answered \cup {s}
           /\ \/ /\ address' = VipOf(s) /\ running' = running
                 /\ stray' = (stray \/ s # current \/ ~connected)
              \/ running' = FALSE /\ address' = None /\ stray' = stray
           /\ UNCHANGED <<settings, connected, current, asked, transports, holding, server, upQueue,
                          packetVars, emitted>>
<1>1. TunnelTypeOK /\ WellFormed
  BY DEF IInv
<1>2. /\ s \in reading /\ downQueue[s] # <<>>
      /\ downQueue' = [downQueue EXCEPT ![s] = Tail(@)]
      /\ answered' = answered \cup {s}
      /\ UNCHANGED <<settings, connected, current, asked, transports, holding, server, upQueue,
                     packetVars, emitted>>
  BY DEF ClientAnswer, ConsumeDown
<1>3. \/ /\ address' = VipOf(s) /\ running' = running
         /\ stray' = (stray \/ s # current \/ ~connected)
      \/ running' = FALSE /\ address' = None /\ stray' = stray
  BY Zenon DEF ClientAnswer
<1>4. PICK m \in dispatch_packet(Head(downQueue[s])) : m.type = MsgType.AuthResponse
  BY DEF ClientAnswer
<1>5. ASSUME NEW p \in Packets, Head(downQueue[s]) = PacketFrame(p)
      PROVE  FALSE
  <2>1. \A x \in dispatch_packet(PacketFrame(p)) : x.type = MsgType.IpPacket
    BY PacketFrameFacts
  <2> QED
    BY <1>4, <1>5, <2>1 DEF MsgType
<1>6. Head(downQueue[s]) = AnswerFrame
  BY <1>1, <1>2, <1>5, Heads DEF DownFrames
<1>7. Control(Head(downQueue[s]))
  BY <1>1, <1>2, <1>6, Heads, Configured
<1> QED
  BY <1>2, <1>3, <1>7

\* A TUN thread holds the packet it has read.
LEMMA TunReadEffect ==
    ASSUME TunnelTypeOK, NEW t \in Sessions, ClientTunRead(t)
    PROVE  /\ \E p \in Packets : holding' = [holding EXCEPT ![t] = {[packet |-> p, bytes |-> Whole(p)]}]
           /\ emitted < MaxPackets /\ emitted' = emitted + 1
           /\ UNCHANGED <<settings, running, connected, current, asked, transports, address,
                          answered, stray, server, links, packetVars>>
<1>1. PICK p \in Packets :
          /\ Emits(p)
          /\ holding' = [holding EXCEPT ![t] =
                            {[packet |-> p, bytes |-> b] : b \in read_packet(platform, p, Mtu)}]
  BY DEF ClientTunRead
<1>2. read_packet(platform, p, Mtu) = {Whole(p)}
  BY Configured, ReadWhole
<1>3. {[packet |-> p, bytes |-> b] : b \in {Whole(p)}} = {[packet |-> p, bytes |-> Whole(p)]}
  OBVIOUS
<1>4. holding' = [holding EXCEPT ![t] = {[packet |-> p, bytes |-> Whole(p)]}]
  BY <1>1, <1>2, <1>3
<1>5. emitted < MaxPackets /\ emitted' = emitted + 1
  BY <1>1 DEF Emits
<1>6. UNCHANGED <<settings, running, connected, current, asked, transports, address,
                  answered, stray, server, links, packetVars>>
  BY DEF ClientTunRead
<1> QED
  BY <1>4, <1>5, <1>6

\* What it held is sent on the current connection, or dropped.
LEMMA TunSendEffect ==
    ASSUME TunnelTypeOK, WellFormed, NEW t \in Sessions, ClientTunSend(t)
    PROVE  /\ \/ UNCHANGED <<links, packetVars>>
              \/ /\ current \in Sessions /\ current \in writable /\ current \in reading
                 /\ \E p \in Packets :
                       /\ upQueue' = [upQueue EXCEPT ![current] = Append(@, PacketFrame(p))]
                       /\ downQueue' = downQueue
                       /\ offered' = [offered EXCEPT !["up"][current] = Append(@, p)]
                       /\ taken' = taken /\ arrived' = arrived
           /\ holding' = [holding EXCEPT ![t] = {}]
           /\ UNCHANGED <<settings, running, connected, current, asked, transports, address,
                          answered, stray, server, emitted>>
<1>1. PICK h \in holding[t] :
          IF TransportConnected
          THEN /\ SendUp(current, build_packet(MsgType.IpPacket, h.bytes))
               /\ Offers("up", current, h.packet)
          ELSE UNCHANGED <<links, packetVars>>
  BY DEF ClientTunSend
<1>2. PICK p \in Packets : h = [packet |-> p, bytes |-> Whole(p)]
  BY <1>1 DEF WellFormed, Read
<1>3. build_packet(MsgType.IpPacket, h.bytes) = PacketFrame(p) /\ h.packet = p
  BY <1>2 DEF PacketFrame
<1>4. ASSUME TransportConnected
      PROVE  /\ current \in Sessions /\ current \in writable /\ current \in reading
             /\ upQueue' = [upQueue EXCEPT ![current] = Append(@, PacketFrame(p))]
             /\ downQueue' = downQueue
             /\ offered' = [offered EXCEPT !["up"][current] = Append(@, p)]
             /\ taken' = taken /\ arrived' = arrived
  <2>1. SendUp(current, PacketFrame(p)) /\ Offers("up", current, p)
    BY <1>1, <1>3, <1>4
  <2>2. current \in writable /\ current \in reading /\ reading \subseteq Sessions
    BY <1>4 DEF TransportConnected, TunnelTypeOK
  <2> QED
    BY <2>1, <2>2 DEF SendUp, Offers
<1>5. /\ holding' = [holding EXCEPT ![t] = {}]
      /\ UNCHANGED <<settings, running, connected, current, asked, transports, address,
                     answered, stray, server, emitted>>
  BY DEF ClientTunSend
<1> QED
  BY <1>1, <1>4, <1>5

\* The server sends a packet to the connection that has its destination.
LEMMA ServerTunEffect ==
    ASSUME NEW s \in Sessions, ServerTun(s)
    PROVE  /\ verdict[s] = "yes" /\ s \in open /\ emitted < MaxPackets /\ emitted' = emitted + 1
           /\ \E p \in Packets :
                 /\ p.word = VipOf(s)
                 /\ downQueue' = [downQueue EXCEPT ![s] = Append(@, PacketFrame(p))]
                 /\ upQueue' = upQueue
                 /\ offered' = [offered EXCEPT !["down"][s] = Append(@, p)]
                 /\ taken' = taken /\ arrived' = arrived
           /\ UNCHANGED <<settings, client, server>>
<1>0. PICK p \in Packets : \E b \in read_packet("linux", p, Mtu) :
          /\ Emits(p) /\ Length(b) >= IP4_HEADER_SIZE /\ ip4_dst(b) = VipOf(s)
          /\ SendDown(s, build_packet(MsgType.IpPacket, b))
          /\ Offers("down", s, p)
  BY DEF ServerTun
<1>1. PICK b \in read_packet("linux", p, Mtu) :
          /\ Emits(p) /\ Length(b) >= IP4_HEADER_SIZE /\ ip4_dst(b) = VipOf(s)
          /\ SendDown(s, build_packet(MsgType.IpPacket, b))
          /\ Offers("down", s, p)
  BY <1>0
<1>2. "linux" \in Platforms
  BY DEF Platforms
<1>3. b = Whole(p)
  BY <1>1, <1>2, ReadWhole
<1>4. Whole(p).of = p /\ Length(Whole(p)) = p.size /\ p.size \in Nat
  <2>1. Whole(p).of = p
    BY DEF Whole
  <2> QED BY <2>1, PacketFits
<1>5. p.word = VipOf(s)
  <2>1. p.size >= 20
    BY <1>1, <1>3, <1>4 DEF IP4_HEADER_SIZE
  <2>2. ~(Length(Whole(p)) < 20)
    BY <1>4, <2>1
  <2>3. ip4_dst(Whole(p)) = p.word
    BY <1>4, <2>2 DEF ip4_dst, IP4_HEADER_SIZE
  <2> QED
    BY <1>1, <1>3, <2>3
<1>6. SendDown(s, PacketFrame(p))
  BY <1>1, <1>3 DEF PacketFrame
<1>7. emitted < MaxPackets /\ emitted' = emitted + 1
  BY <1>1 DEF Emits
<1>8. verdict[s] = "yes" /\ s \in open /\ UNCHANGED <<settings, client, server>>
  BY DEF ServerTun
<1> QED
  BY <1>1, <1>5, <1>6, <1>7, <1>8 DEF SendDown, Offers

----------------------------------------------------------------------------
(* The invariant, part by part.                                            *)

\* Before the first connection the invariant holds.
LEMMA InitInv == Init => IInv
<1> SUFFICES ASSUME Init PROVE IInv
  OBVIOUS
<1>1. /\ upQueue = [s \in Sessions |-> <<>>] /\ downQueue = [s \in Sessions |-> <<>>]
      /\ verdict = [s \in Sessions |-> "none"] /\ holding = [s \in Sessions |-> {}]
      /\ offered = [d \in Virtual!Directions |-> [l \in Sessions |-> <<>>]]
      /\ taken = [d \in Virtual!Directions |-> [l \in Sessions |-> 0]]
      /\ reading = {} /\ writable = {} /\ serving = {} /\ open = {} /\ answered = {}
      /\ asked = TRUE /\ address = None /\ current = None
  BY DEF Init, Virtual!LinkInit
<1>2. TunnelTypeOK
  <2>1. upQueue \in [Sessions -> Seq(Frames)] /\ downQueue \in [Sessions -> Seq(Frames)]
    BY <1>1
  <2>2. \A s \in Sessions : Cardinality(holding[s]) <= 1 /\ holding[s] \subseteq Held
    BY <1>1, FS_EmptySet
  <2>3. verdict \in [Sessions -> {"none", "yes", "no", "never"}]
    BY <1>1
  <2>4. {running, connected, asked, stray} \subseteq BOOLEAN
    BY Zenon DEF Init
  <2> QED
    BY <1>1, <2>1, <2>2, <2>3, <2>4 DEF TunnelTypeOK, Init
<1>3. WellFormed
  <2>1. upQueue \in [Sessions -> Seq(UpFrames)] /\ downQueue \in [Sessions -> Seq(DownFrames)]
    BY <1>1
  <2>2. [l \in Sessions |-> <<>>] \in [Sessions -> Seq(Packets)] /\ [l \in Sessions |-> 0] \in [Sessions -> Nat]
    OBVIOUS
  <2>3. holding \in [Sessions -> SUBSET Read]
    BY <1>1
  <2> QED
    BY <1>1, <2>1, <2>2, <2>3 DEF WellFormed
<1>4. Ahead
  BY <1>1 DEF Ahead
<1>5. AskedOnce
  <2>1. \A s \in Sessions : /\ upQueue[s] = <<>> /\ downQueue[s] = <<>>
                            /\ offered["down"][s] = <<>> /\ verdict[s] = "none"
    BY <1>1 DEF Virtual!Directions
  <2> QED
    BY <1>1, <2>1, FollowsEmpty DEF AskedOnce
<1>6. Judged /\ Addressed /\ InOrder
  BY <1>1 DEF Judged, Addressed, InOrder
<1> QED
  BY <1>2, <1>3, <1>4, <1>5, <1>6 DEF IInv

\* What can happen to the frames on their way to the server.
LEMMA UpMoves ==
    ASSUME IInv, [Next]_vars
    PROVE  /\ upQueue' = [s \in Sessions |-> upQueue'[s]]
           /\ \A s \in Sessions :
                 \/ upQueue'[s] = upQueue[s]
                 \/ upQueue'[s] = <<>>
                 \/ upQueue[s] # <<>> /\ upQueue'[s] = Tail(upQueue[s])
                 \/ upQueue'[s] \in Prefixes(upQueue[s])
                 \/ /\ SendAuth /\ ~asked /\ s = current
                    /\ upQueue'[s] = Append(upQueue[s], AskFrame)
                 \/ s = current /\ \E p \in Packets : upQueue'[s] = Append(upQueue[s], PacketFrame(p))
<1>1. TunnelTypeOK /\ WellFormed /\ AskedOnce
  BY DEF IInv
<1>2. upQueue \in [Sessions -> Seq(UpFrames)]
  BY <1>1 DEF WellFormed
<1> DEFINE Moves == /\ upQueue' = [s \in Sessions |-> upQueue'[s]]
                    /\ \A s \in Sessions :
                          \/ upQueue'[s] = upQueue[s]
                          \/ upQueue'[s] = <<>>
                          \/ upQueue[s] # <<>> /\ upQueue'[s] = Tail(upQueue[s])
                          \/ upQueue'[s] \in Prefixes(upQueue[s])
                          \/ /\ SendAuth /\ ~asked /\ s = current
                             /\ upQueue'[s] = Append(upQueue[s], AskFrame)
                          \/ s = current /\ \E p \in Packets : upQueue'[s] = Append(upQueue[s], PacketFrame(p))
<1>3. ASSUME upQueue' = upQueue PROVE Moves
  BY <1>2, <1>3
<1>4. ASSUME SendAuth PROVE Moves
  <2>1. upQueue' = [upQueue EXCEPT ![current] = Append(@, AskFrame)] /\ ~asked
    BY <1>4 DEF SendAuth, SendUp, AskFrame
  <2> QED
    BY <1>2, <1>4, <2>1
<1>5. ASSUME NEW s \in Sessions, Connect(s) \/ ClientReadFails(s) \/ ServerWriteFails(s)
                                 \/ ClientTunRead(s) \/ ServerTun(s)
      PROVE  Moves
  <2>1. upQueue' = upQueue
    BY <1>5 DEF Connect, ClientReadFails, ServerWriteFails, ClientTunRead, ServerTun, SendDown, links
  <2> QED BY <1>3, <2>1
<1>6. ASSUME NEW s \in Sessions, ClientWriteFails(s)
      PROVE  Moves
  <2>1. PICK q \in Prefixes(upQueue[s]) : upQueue' = [upQueue EXCEPT ![s] = q]
    BY <1>6 DEF ClientWriteFails
  <2> QED BY <1>2, <2>1
<1>7. ASSUME NEW s \in Sessions, ServerReadFails(s)
      PROVE  Moves
  <2>1. upQueue' = [upQueue EXCEPT ![s] = <<>>]
    BY <1>7 DEF ServerReadFails
  <2> QED BY <1>2, <2>1
<1>8. ASSUME NEW s \in Sessions, ClientTunSend(s)
      PROVE  Moves
  <2>1. \/ upQueue' = upQueue
        \/ \E p \in Packets : upQueue' = [upQueue EXCEPT ![current] = Append(@, PacketFrame(p))]
    BY <1>1, <1>8, TunSendEffect DEF links
  <2> QED BY <1>2, <1>3, <2>1
<1>9. ASSUME NEW s \in Sessions, ServerAuth(s)
      PROVE  Moves
  <2>1. /\ upQueue[s] # <<>>
        /\ \/ upQueue' = [upQueue EXCEPT ![s] = Tail(@)]
           \/ upQueue' = [upQueue EXCEPT ![s] = <<>>]
    BY <1>9, AuthEffect, AuthOutcome
  <2> QED BY <1>2, <2>1
<1>10. ASSUME NEW s \in Sessions, ServerPacket(s)
       PROVE  Moves
  <2>1. upQueue[s] # <<>> /\ upQueue' = [upQueue EXCEPT ![s] = Tail(@)]
    BY <1>10 DEF ServerPacket, ConsumeUp
  <2> QED BY <1>2, <2>1
<1>11. ASSUME NEW s \in Sessions, ClientAnswer(s) \/ ClientPacket(s)
       PROVE  Moves
  <2>1. upQueue' = upQueue
    BY <1>11 DEF ClientAnswer, ClientPacket
  <2> QED BY <1>3, <2>1
<1>12. ASSUME UNCHANGED vars PROVE Moves
  <2>1. upQueue' = upQueue
    BY <1>12 DEF vars, links
  <2> QED BY <1>3, <2>1
<1> HIDE DEF Moves
<1>13. Moves
  BY <1>4, <1>5, <1>6, <1>7, <1>8, <1>9, <1>10, <1>11, <1>12 DEF Next
<1> QED BY <1>13 DEF Moves

\* And to those on their way to the client.
LEMMA DownMoves ==
    ASSUME IInv, [Next]_vars
    PROVE  /\ downQueue' = [s \in Sessions |-> downQueue'[s]]
           /\ \A s \in Sessions :
                 \/ downQueue'[s] = downQueue[s]
                 \/ downQueue'[s] = <<>>
                 \/ downQueue[s] # <<>> /\ downQueue'[s] = Tail(downQueue[s])
                 \/ downQueue'[s] \in Prefixes(downQueue[s])
                 \/ /\ verdict[s] = "none" /\ verdict'[s] = "yes"
                    /\ downQueue'[s] = Append(downQueue[s], AnswerFrame)
                 \/ /\ verdict[s] = "yes"
                    /\ \E p \in Packets : downQueue'[s] = Append(downQueue[s], PacketFrame(p))
<1>1. TunnelTypeOK /\ WellFormed /\ AskedOnce
  BY DEF IInv
<1>2. downQueue \in [Sessions -> Seq(DownFrames)]
  BY <1>1 DEF WellFormed
<1> DEFINE Moves == /\ downQueue' = [s \in Sessions |-> downQueue'[s]]
                    /\ \A s \in Sessions :
                          \/ downQueue'[s] = downQueue[s]
                          \/ downQueue'[s] = <<>>
                          \/ downQueue[s] # <<>> /\ downQueue'[s] = Tail(downQueue[s])
                          \/ downQueue'[s] \in Prefixes(downQueue[s])
                          \/ /\ verdict[s] = "none" /\ verdict'[s] = "yes"
                             /\ downQueue'[s] = Append(downQueue[s], AnswerFrame)
                          \/ /\ verdict[s] = "yes"
                             /\ \E p \in Packets : downQueue'[s] = Append(downQueue[s], PacketFrame(p))
<1>3. ASSUME downQueue' = downQueue PROVE Moves
  BY <1>2, <1>3
<1>4. ASSUME SendAuth PROVE Moves
  <2>1. downQueue' = downQueue
    BY <1>4 DEF SendAuth, SendUp
  <2> QED BY <1>3, <2>1
<1>5. ASSUME NEW s \in Sessions, Connect(s) \/ ClientWriteFails(s)
                                 \/ ClientTunRead(s) \/ ServerPacket(s)
      PROVE  Moves
  <2>1. downQueue' = downQueue
    BY <1>5 DEF Connect, ClientWriteFails, ClientTunRead, ServerPacket, links
  <2> QED BY <1>3, <2>1
<1>6. ASSUME NEW s \in Sessions, ServerWriteFails(s) \/ ServerReadFails(s)
      PROVE  Moves
  <2>1. PICK q \in Prefixes(downQueue[s]) : downQueue' = [downQueue EXCEPT ![s] = q]
    BY <1>6 DEF ServerWriteFails, ServerReadFails
  <2> QED BY <1>2, <2>1
<1>7. ASSUME NEW s \in Sessions, ClientReadFails(s)
      PROVE  Moves
  <2>1. downQueue' = [downQueue EXCEPT ![s] = <<>>]
    BY <1>7 DEF ClientReadFails
  <2> QED BY <1>2, <2>1
<1>8. ASSUME NEW s \in Sessions, ServerTun(s)
      PROVE  Moves
  <2>1. /\ \E p \in Packets : downQueue' = [downQueue EXCEPT ![s] = Append(@, PacketFrame(p))]
        /\ verdict[s] = "yes"
    BY <1>8, ServerTunEffect
  <2> QED BY <1>2, <2>1
<1>9. ASSUME NEW s \in Sessions, ServerAuth(s)
      PROVE  Moves
  <2>1. \/ downQueue' = downQueue
        \/ /\ verdict[s] = "none" /\ verdict'[s] = "yes"
           /\ downQueue' = [downQueue EXCEPT ![s] = Append(@, AnswerFrame)]
    BY <1>9, AuthEffect, AuthOutcome
  <2> QED BY <1>2, <1>3, <2>1
<1>10. ASSUME NEW s \in Sessions, ClientAnswer(s) \/ ClientPacket(s)
       PROVE  Moves
  <2>1. downQueue[s] # <<>> /\ downQueue' = [downQueue EXCEPT ![s] = Tail(@)]
    BY <1>10 DEF ClientAnswer, ClientPacket, ConsumeDown
  <2> QED BY <1>2, <2>1
<1>11. ASSUME NEW s \in Sessions, ClientTunSend(s)
       PROVE  Moves
  <2>1. downQueue' = downQueue
    BY <1>1, <1>11, TunSendEffect DEF links
  <2> QED BY <1>3, <2>1
<1>12. ASSUME UNCHANGED vars PROVE Moves
  <2>1. downQueue' = downQueue
    BY <1>12 DEF vars, links
  <2> QED BY <1>3, <2>1
<1> HIDE DEF Moves
<1>13. Moves
  BY <1>4, <1>5, <1>6, <1>7, <1>8, <1>9, <1>10, <1>11, <1>12 DEF Next
<1> QED BY <1>13 DEF Moves

\* Packets are offered by the two TUN threads and taken by the two packet handlers.
LEMMA PacketMoves ==
    ASSUME [Next]_vars
    PROVE  \/ UNCHANGED packetVars
           \/ \E s \in Sessions : ClientTunSend(s) \/ ServerTun(s) \/ ServerPacket(s) \/ ClientPacket(s)
<1>1. ASSUME NEW s \in Sessions, \/ Connect(s) \/ ClientReadFails(s) \/ ClientWriteFails(s)
                                 \/ ServerWriteFails(s) \/ ServerReadFails(s)
      PROVE  UNCHANGED packetVars
  BY <1>1 DEF Connect, ClientReadFails, ClientWriteFails, ServerWriteFails, ServerReadFails
<1>2. ASSUME NEW s \in Sessions, ClientTunRead(s) \/ ServerAuth(s) \/ ClientAnswer(s)
      PROVE  UNCHANGED packetVars
  BY <1>2 DEF ClientTunRead, ServerAuth, ClientAnswer
<1>3. SendAuth \/ UNCHANGED vars => UNCHANGED packetVars
  BY DEF SendAuth, vars
<1> QED
  BY <1>1, <1>2, <1>3 DEF Next

\* handle_packet alone judges.
LEMMA VerdictMoves ==
    ASSUME [Next]_vars
    PROVE  verdict' = verdict \/ \E s \in Sessions : ServerAuth(s)
BY DEF Next, vars, server, SendAuth, Connect, ClientReadFails, ClientWriteFails,
      ServerWriteFails, ServerReadFails, ClientTunRead, ClientTunSend, ServerTun,
      ServerPacket, ClientAnswer, ClientPacket

\* What a verdict was before and is now.
LEMMA VerdictStep ==
    ASSUME IInv, [Next]_vars, NEW s \in Sessions
    PROVE  \/ verdict'[s] = verdict[s]
           \/ /\ verdict[s] = "none" /\ verdict'[s] \in {"yes", "no", "never"}
              /\ verdict'[s] = Verdict(serverSecret, build_auth_token(clientSecret, clientClock),
                                       clientClock, serverClock)
              /\ upQueue[s] # <<>> /\ Head(upQueue[s]) = AskFrame /\ Control(Head(upQueue[s]))
              /\ upQueue'[s] = Tail(upQueue[s]) \/ upQueue'[s] = <<>>
              /\ UNCHANGED packetVars
<1>1. CASE verdict' = verdict
  BY <1>1
<1>2. ASSUME NEW x \in Sessions, ServerAuth(x)
      PROVE  \/ verdict'[s] = verdict[s]
             \/ /\ verdict[s] = "none" /\ verdict'[s] \in {"yes", "no", "never"}
                /\ verdict'[s] = Verdict(serverSecret, build_auth_token(clientSecret, clientClock),
                                         clientClock, serverClock)
                /\ upQueue[s] # <<>> /\ Head(upQueue[s]) = AskFrame /\ Control(Head(upQueue[s]))
                /\ upQueue'[s] = Tail(upQueue[s]) \/ upQueue'[s] = <<>>
                /\ UNCHANGED packetVars
  <2> DEFINE v == Verdict(serverSecret, build_auth_token(clientSecret, clientClock),
                          clientClock, serverClock)
  <2>1. /\ verdict[x] = "none" /\ upQueue[x] # <<>>
        /\ Head(upQueue[x]) = AskFrame /\ Control(Head(upQueue[x]))
        /\ verdict' = [verdict EXCEPT ![x] = v] /\ verdict'[x] \in {"yes", "no", "never"}
    BY <1>2, AuthEffect
  <2>2. /\ UNCHANGED packetVars
        /\ \/ upQueue' = [upQueue EXCEPT ![x] = Tail(@)]
           \/ upQueue' = [upQueue EXCEPT ![x] = <<>>]
    BY <1>2, AuthOutcome
  <2>3. verdict \in [Sessions -> {"none", "yes", "no", "never"}]
        /\ upQueue \in [Sessions -> Seq(UpFrames)]
    BY DEF IInv, TunnelTypeOK, WellFormed
  <2> HIDE DEF v
  <2>4. x # s => verdict'[s] = verdict[s]
    BY <2>1, <2>3
  <2>5. verdict'[x] = v
    BY <2>1, <2>3
  <2>6. upQueue'[x] = Tail(upQueue[x]) \/ upQueue'[x] = <<>>
    BY <2>2, <2>3
  <2> QED
    BY <2>1, <2>2, <2>4, <2>5, <2>6 DEF v
<1> QED
  BY <1>1, <1>2, VerdictMoves

\* Types.
LEMMA WellFormedStep ==
    ASSUME IInv, [Next]_vars
    PROVE  WellFormed'
<1>1. TunnelTypeOK /\ WellFormed /\ AskedOnce
  BY DEF IInv
<1>2. UpFrames' = UpFrames /\ DownFrames' = DownFrames
  BY Rigid, SameFrames
<1>3. upQueue' \in [Sessions -> Seq(UpFrames)]
  <2>1. /\ AskFrame \in UpFrames /\ \A p \in Packets : PacketFrame(p) \in UpFrames
        /\ \A s \in Sessions : upQueue[s] \in Seq(UpFrames)
    BY <1>1, Configured DEF WellFormed
  <2>2. ASSUME NEW s \in Sessions
        PROVE  upQueue'[s] \in Seq(UpFrames)
    <3>1. \A f \in UpFrames : Append(upQueue[s], f) \in Seq(UpFrames)
      BY <2>1, AppendElements
    <3>2. upQueue[s] # <<>> => Tail(upQueue[s]) \in Seq(UpFrames)
      BY <2>1, TailElements
    <3>3. \A q \in Prefixes(upQueue[s]) : q \in Seq(UpFrames)
      BY <2>1, PrefixElements
    <3>4. <<>> \in Seq(UpFrames)
      OBVIOUS
    <3> QED
      BY <2>1, <3>1, <3>2, <3>3, <3>4, UpMoves
  <2>3. upQueue' = [s \in Sessions |-> upQueue'[s]]
    BY UpMoves
  <2> QED
    BY <2>2, <2>3
<1>4. downQueue' \in [Sessions -> Seq(DownFrames)]
  <2>1. /\ AnswerFrame \in DownFrames /\ \A p \in Packets : PacketFrame(p) \in DownFrames
        /\ \A s \in Sessions : downQueue[s] \in Seq(DownFrames)
    BY <1>1, Configured DEF WellFormed
  <2>2. ASSUME NEW s \in Sessions
        PROVE  downQueue'[s] \in Seq(DownFrames)
    <3>1. \A f \in DownFrames : Append(downQueue[s], f) \in Seq(DownFrames)
      BY <2>1, AppendElements
    <3>2. downQueue[s] # <<>> => Tail(downQueue[s]) \in Seq(DownFrames)
      BY <2>1, TailElements
    <3>3. \A q \in Prefixes(downQueue[s]) : q \in Seq(DownFrames)
      BY <2>1, PrefixElements
    <3>4. <<>> \in Seq(DownFrames)
      OBVIOUS
    <3> QED
      BY <2>1, <3>1, <3>2, <3>3, <3>4, DownMoves
  <2>3. downQueue' = [s \in Sessions |-> downQueue'[s]]
    BY DownMoves
  <2> QED
    BY <2>2, <2>3
<1>5. holding' \in [Sessions -> SUBSET Read]
  <2>1. \/ holding' = holding
        \/ \E t \in Sessions : ClientTunRead(t) \/ ClientTunSend(t)
    BY DEF Next, vars, client, device, SendAuth, Connect, ClientReadFails, ClientWriteFails,
          ServerWriteFails, ServerReadFails, ServerTun, ServerAuth, ServerPacket,
          ClientAnswer, ClientPacket
  <2>2. holding \in [Sessions -> SUBSET Read]
    BY <1>1 DEF WellFormed
  <2>3. ASSUME NEW t \in Sessions, ClientTunRead(t)
        PROVE  holding' \in [Sessions -> SUBSET Read]
    <3>1. PICK p \in Packets : holding' = [holding EXCEPT ![t] = {[packet |-> p, bytes |-> Whole(p)]}]
      BY <1>1, <2>3, TunReadEffect
    <3>2. {[packet |-> p, bytes |-> Whole(p)]} \subseteq Read
      BY DEF Read
    <3> QED BY <2>2, <3>1, <3>2
  <2>4. ASSUME NEW t \in Sessions, ClientTunSend(t)
        PROVE  holding' \in [Sessions -> SUBSET Read]
    <3>1. holding' = [holding EXCEPT ![t] = {}]
      BY <2>4 DEF ClientTunSend
    <3> QED BY <2>2, <3>1
  <2> QED
    BY <2>1, <2>2, <2>3, <2>4
<1>6. /\ offered' \in [Virtual!Directions -> [Sessions -> Seq(Packets)]]
      /\ taken' \in [Virtual!Directions -> [Sessions -> Nat]]
  <2>1. /\ offered \in [Virtual!Directions -> [Sessions -> Seq(Packets)]]
        /\ taken \in [Virtual!Directions -> [Sessions -> Nat]]
        /\ "up" \in Virtual!Directions /\ "down" \in Virtual!Directions
    BY <1>1 DEF WellFormed, Virtual!Directions
  <2>2. ASSUME NEW d \in Virtual!Directions, NEW s \in Sessions, NEW p \in Packets
        PROVE  [offered EXCEPT ![d][s] = Append(@, p)] \in [Virtual!Directions -> [Sessions -> Seq(Packets)]]
    <3>1. Append(offered[d][s], p) \in Seq(Packets)
      BY <2>1, AppendElements
    <3> QED BY <2>1, <3>1
  <2>3. ASSUME NEW d \in Virtual!Directions, NEW s \in Sessions
        PROVE  [taken EXCEPT ![d][s] = @ + 1] \in [Virtual!Directions -> [Sessions -> Nat]]
    BY <2>1
  <2> DEFINE O == [Virtual!Directions -> [Sessions -> Seq(Packets)]]
             T == [Virtual!Directions -> [Sessions -> Nat]]
  <2>4. ASSUME NEW s \in Sessions, ClientTunSend(s)
        PROVE  offered' \in O /\ taken' \in T
    <3>1. /\ \/ offered' = offered
             \/ \E x \in Sessions, p \in Packets : offered' = [offered EXCEPT !["up"][x] = Append(@, p)]
          /\ taken' = taken
      BY <1>1, <2>4, TunSendEffect DEF packetVars
    <3>2. CASE offered' = offered
      BY <2>1, <3>1, <3>2
    <3>3. ASSUME NEW x \in Sessions, NEW p \in Packets,
                 offered' = [offered EXCEPT !["up"][x] = Append(@, p)]
          PROVE  offered' \in O
      BY <2>1, <2>2, <3>3
    <3> QED BY <2>1, <3>1, <3>2, <3>3
  <2>5. ASSUME NEW s \in Sessions, ServerTun(s)
        PROVE  offered' \in O /\ taken' \in T
    <3>1. PICK p \in Packets : offered' = [offered EXCEPT !["down"][s] = Append(@, p)] /\ taken' = taken
      BY <2>5, ServerTunEffect
    <3> QED BY <2>1, <2>2, <3>1
  <2>6. ASSUME NEW s \in Sessions, ServerPacket(s)
        PROVE  offered' \in O /\ taken' \in T
    <3>1. offered' = offered /\ taken' = [taken EXCEPT !["up"][s] = @ + 1]
      BY <2>6, ServerPacketEffect
    <3> QED BY <2>1, <2>3, <3>1
  <2>7. ASSUME NEW s \in Sessions, ClientPacket(s)
        PROVE  offered' \in O /\ taken' \in T
    <3>1. offered' = offered /\ taken' = [taken EXCEPT !["down"][s] = @ + 1]
      BY <2>7, ClientPacketEffect
    <3> QED BY <2>1, <2>3, <3>1
  <2>8. UNCHANGED packetVars => offered' \in O /\ taken' \in T
    BY <2>1 DEF packetVars
  <2> HIDE DEF O, T
  <2>9. offered' \in O /\ taken' \in T
    BY <2>4, <2>5, <2>6, <2>7, <2>8, PacketMoves
  <2> QED
    BY <2>9 DEF O, T
<1> QED
  BY <1>2, <1>3, <1>4, <1>5, <1>6 DEF WellFormed

\* Queues of some frames are queues of frames.
LEMMA LongerSeqs ==
    ASSUME NEW S, NEW T, S \subseteq T, NEW Q \in [Sessions -> Seq(S)]
    PROVE  Q \in [Sessions -> Seq(T)]
<1>1. ASSUME NEW q \in Seq(S) PROVE q \in Seq(T)
  BY SeqDef
<1> QED BY <1>1

\* Every step keeps the flags' types.
LEMMA FlagsStep ==
    ASSUME TunnelTypeOK, [Next]_vars
    PROVE  {running, connected, asked, stray}' \subseteq BOOLEAN
<1>1. /\ running \in BOOLEAN /\ connected \in BOOLEAN /\ asked \in BOOLEAN /\ stray \in BOOLEAN
  BY DEF TunnelTypeOK
<1>2. running' = running \/ running' = FALSE
  BY DEF Next, vars, client, SendAuth, Connect, ClientReadFails, ClientWriteFails,
      ServerWriteFails, ServerReadFails, ClientTunRead, ClientTunSend, ServerTun, ServerAuth,
      ServerPacket, ClientAnswer, ClientPacket
<1>3. connected' = connected \/ connected' = FALSE \/ connected' = TRUE
  BY DEF Next, vars, client, SendAuth, Connect, ClientReadFails, ClientWriteFails, OnError,
      ServerWriteFails, ServerReadFails, ClientTunRead, ClientTunSend, ServerTun, ServerAuth,
      ServerPacket, ClientAnswer, ClientPacket
<1>4. asked' = asked \/ asked' = FALSE \/ asked' = TRUE
  BY DEF Next, vars, client, SendAuth, Connect, ClientReadFails, ClientWriteFails,
      ServerWriteFails, ServerReadFails, ClientTunRead, ClientTunSend, ServerTun, ServerAuth,
      ServerPacket, ClientAnswer, ClientPacket
<1>5. \/ stray' = stray
      \/ \E s \in Sessions : stray' = (stray \/ s # current \/ ~connected)
  <2>1. stray' = stray \/ \E s \in Sessions : ClientAnswer(s)
    BY DEF Next, vars, client, device, SendAuth, Connect, ClientReadFails, ClientWriteFails,
      ServerWriteFails, ServerReadFails, ClientTunRead, ClientTunSend, ServerTun, ServerAuth,
      ServerPacket, ClientPacket
  <2>2. ASSUME NEW s \in Sessions, ClientAnswer(s)
        PROVE  stray' = stray \/ stray' = (stray \/ s # current \/ ~connected)
    BY <2>2, Zenon DEF ClientAnswer
  <2> QED BY <2>1, <2>2
<1>6. stray' \in BOOLEAN
  BY <1>1, <1>5, Zenon
<1> QED
  BY <1>1, <1>2, <1>3, <1>4, <1>6

\* Every step keeps the types.
LEMMA TypeStep ==
    ASSUME IInv, [Next]_vars
    PROVE  TunnelTypeOK'
<1>1. TunnelTypeOK /\ WellFormed
  BY DEF IInv
<1>2. UNCHANGED <<platform, clientSecret, clientClock, serverSecret, serverClock>>
  BY Rigid DEF settings
<1>3. /\ platform' \in Platforms /\ {clientSecret, serverSecret}' \subseteq Secrets
      /\ {clientClock, serverClock}' \subseteq Clocks
  BY <1>1, <1>2 DEF TunnelTypeOK
<1>4. current' \in Sessions \cup {None}
  <2>1. current' = current \/ \E s \in Sessions : current' = s
    BY DEF Next, vars, client, SendAuth, Connect, ClientReadFails, ClientWriteFails,
          ServerWriteFails, ServerReadFails, ClientTunRead, ClientTunSend, ServerTun, ServerAuth,
          ServerPacket, ClientAnswer, ClientPacket
  <2> QED BY <1>1, <2>1 DEF TunnelTypeOK
<1>5. address' \in {VipOf(s) : s \in Sessions} \cup {None}
  <2>1. address' = address \/ address' = None \/ \E s \in Sessions : address' = VipOf(s)
    BY DEF Next, vars, client, device, SendAuth, Connect, ClientReadFails, ClientWriteFails, OnError,
          ServerWriteFails, ServerReadFails, ClientTunRead, ClientTunSend, ServerTun, ServerAuth,
          ServerPacket, ClientAnswer, ClientPacket
  <2>2. \A s \in Sessions : VipOf(s) \in {VipOf(x) : x \in Sessions}
    OBVIOUS
  <2>3. address \in {VipOf(s) : s \in Sessions} \cup {None}
    BY <1>1 DEF TunnelTypeOK
  <2> DEFINE V == {VipOf(s) : s \in Sessions}
  <2> HIDE DEF V
  <2> QED BY <2>1, <2>2, <2>3 DEF V
<1>6. \A set \in {writable, reading, open, serving, answered}' : set \subseteq Sessions
  <2>1. /\ writable \subseteq Sessions /\ reading \subseteq Sessions /\ open \subseteq Sessions
        /\ serving \subseteq Sessions /\ answered \subseteq Sessions
    BY <1>1 DEF TunnelTypeOK
  <2>2. /\ \/ writable' = writable
           \/ \E s \in Sessions : writable' = writable \cup {s} \/ writable' = writable \ {s}
        /\ \/ reading' = reading
           \/ \E s \in Sessions : reading' = reading \cup {s} \/ reading' = reading \ {s}
    BY DEF Next, vars, client, transports, SendAuth, Connect, ClientReadFails, ClientWriteFails,
          ServerWriteFails, ServerReadFails, ClientTunRead, ClientTunSend, ServerTun, ServerAuth,
          ServerPacket, ClientAnswer, ClientPacket
  <2>3. /\ \/ open' = open
           \/ \E s \in Sessions : open' = open \cup {s} \/ open' = open \ {s}
        /\ \/ serving' = serving
           \/ \E s \in Sessions : serving' = serving \cup {s} \/ serving' = serving \ {s}
    BY DEF Next, vars, server, SendAuth, Connect, ClientReadFails, ClientWriteFails,
          ServerWriteFails, ServerReadFails, ClientTunRead, ClientTunSend, ServerTun, ServerAuth,
          ServerPacket, ClientAnswer, ClientPacket
  <2>4. answered' = answered \/ \E s \in Sessions : answered' = answered \cup {s}
    BY DEF Next, vars, client, device, SendAuth, Connect, ClientReadFails, ClientWriteFails,
          ServerWriteFails, ServerReadFails, ClientTunRead, ClientTunSend, ServerTun, ServerAuth,
          ServerPacket, ClientAnswer, ClientPacket
  <2>5. writable' \subseteq Sessions /\ reading' \subseteq Sessions
    BY <2>1, <2>2
  <2>6. open' \subseteq Sessions /\ serving' \subseteq Sessions /\ answered' \subseteq Sessions
    BY <2>1, <2>3, <2>4
  <2> QED BY <2>5, <2>6
<1>7. \A s \in Sessions : Cardinality(holding'[s]) <= 1 /\ holding'[s] \subseteq Held
  <2>1. holding' \in [Sessions -> SUBSET Read]
    BY WellFormedStep DEF WellFormed
  <2>2. Read \subseteq Held
    <3>1. \A p \in Packets : Whole(p) \in Strings
      BY PacketFits DEF Whole, Strings
    <3> QED BY <3>1 DEF Read, Held
  <2>3. \/ holding' = holding
        \/ \E t \in Sessions : \E h : holding' = [holding EXCEPT ![t] = {h}]
        \/ \E t \in Sessions : holding' = [holding EXCEPT ![t] = {}]
    <3>1. \/ holding' = holding
          \/ \E t \in Sessions : ClientTunRead(t) \/ ClientTunSend(t)
      BY DEF Next, vars, client, device, SendAuth, Connect, ClientReadFails, ClientWriteFails,
            ServerWriteFails, ServerReadFails, ServerTun, ServerAuth, ServerPacket,
            ClientAnswer, ClientPacket
    <3>2. ASSUME NEW t \in Sessions, ClientTunRead(t)
          PROVE  \E h : holding' = [holding EXCEPT ![t] = {h}]
      BY <1>1, <3>2, TunReadEffect
    <3>3. ASSUME NEW t \in Sessions, ClientTunSend(t)
          PROVE  holding' = [holding EXCEPT ![t] = {}]
      BY <3>3 DEF ClientTunSend
    <3> QED BY <3>1, <3>2, <3>3
  <2>4. \A h : Cardinality({h}) = 1
    BY FS_Singleton
  <2>5. Cardinality({}) = 0
    BY FS_EmptySet
  <2>6. \A s \in Sessions : Cardinality(holding[s]) <= 1
    BY <1>1 DEF TunnelTypeOK
  <2>7. ASSUME NEW s \in Sessions
        PROVE  holding'[s] = holding[s] \/ holding'[s] = {} \/ \E h : holding'[s] = {h}
    <3>1. DOMAIN holding = Sessions
      BY <1>1 DEF WellFormed
    <3> QED BY <2>3, <3>1
  <2>8. ASSUME NEW s \in Sessions
        PROVE  Cardinality(holding'[s]) <= 1
    <3>1. CASE holding'[s] = holding[s]
      BY <2>6, <3>1
    <3>2. CASE holding'[s] = {}
      BY <2>5, <3>2
    <3>3. ASSUME NEW h, holding'[s] = {h}
          PROVE  Cardinality(holding'[s]) <= 1
      BY <2>4, <3>3
    <3> QED BY <2>7, <3>1, <3>2, <3>3
  <2> QED
    BY <2>1, <2>2, <2>8
<1>8. verdict' \in [Sessions -> {"none", "yes", "no", "never"}]
  <2>1. verdict \in [Sessions -> {"none", "yes", "no", "never"}]
    BY <1>1 DEF TunnelTypeOK
  <2>2. ASSUME NEW s \in Sessions, ServerAuth(s)
        PROVE  verdict' \in [Sessions -> {"none", "yes", "no", "never"}]
    <3>1. \E v : verdict' = [verdict EXCEPT ![s] = v] /\ verdict'[s] \in {"yes", "no", "never"}
      BY <2>2, AuthEffect
    <3> QED BY <2>1, <3>1
  <2> QED BY <2>1, <2>2, VerdictMoves
<1>9. upQueue' \in [Sessions -> Seq(Frames)] /\ downQueue' \in [Sessions -> Seq(Frames)]
  <2>1. UpFrames' = UpFrames /\ DownFrames' = DownFrames
    BY Rigid, SameFrames
  <2>2. upQueue' \in [Sessions -> Seq(UpFrames)] /\ downQueue' \in [Sessions -> Seq(DownFrames)]
    BY <2>1, WellFormedStep DEF WellFormed
  <2>3. UpFrames \subseteq Frames /\ DownFrames \subseteq Frames
    BY <1>1, Configured
  <2> QED BY <2>2, <2>3, LongerSeqs
<1>10. emitted' \in 0 .. MaxPackets
  <2>1. emitted' = emitted \/ (emitted < MaxPackets /\ emitted' = emitted + 1)
    <3>1. ASSUME NEW s \in Sessions, \/ Connect(s) \/ ClientReadFails(s) \/ ClientWriteFails(s)
                                     \/ ServerWriteFails(s) \/ ServerReadFails(s)
          PROVE  emitted' = emitted
      BY <3>1 DEF Connect, ClientReadFails, ClientWriteFails, ServerWriteFails, ServerReadFails
    <3>2. ASSUME NEW s \in Sessions, \/ ClientTunSend(s) \/ ServerAuth(s) \/ ServerPacket(s)
                                     \/ ClientAnswer(s) \/ ClientPacket(s)
          PROVE  emitted' = emitted
      BY <3>2 DEF ClientTunSend, ServerAuth, ServerPacket, ClientAnswer, ClientPacket
    <3>3. ASSUME NEW s \in Sessions, ClientTunRead(s) \/ ServerTun(s)
          PROVE  emitted < MaxPackets /\ emitted' = emitted + 1
      BY <3>3 DEF ClientTunRead, ServerTun, Emits
    <3>4. SendAuth \/ UNCHANGED vars => emitted' = emitted
      BY DEF SendAuth, vars
    <3> QED
      BY <3>1, <3>2, <3>3, <3>4 DEF Next
  <2> QED BY <1>1, <2>1, TunnelBounds DEF TunnelTypeOK
<1> QED
  BY <1>3, <1>4, <1>5, <1>6, <1>7, <1>8, <1>9, <1>10, FlagsStep, <1>1 DEF TunnelTypeOK

\* A verdict is given once, and by the settings of the two ends.
LEMMA JudgedStep ==
    ASSUME IInv, [Next]_vars
    PROVE  Judged'
<1>1. Judged
  BY DEF IInv
<1>2. UNCHANGED <<clientSecret, clientClock, serverSecret, serverClock>>
  BY Rigid DEF settings
<1> DEFINE v == Verdict(serverSecret, build_auth_token(clientSecret, clientClock),
                        clientClock, serverClock)
<1>3. v' = v
  BY <1>2
<1>4. ASSUME NEW s \in Sessions, verdict'[s] # "none"
      PROVE  verdict'[s] = v
  BY <1>1, <1>4, VerdictStep DEF Judged
<1> HIDE DEF v
<1>5. \A s \in Sessions : verdict'[s] # "none" => verdict'[s] = v'
  BY <1>3, <1>4
<1> QED
  BY <1>5 DEF Judged, v

\* The device is open to the current connection, or somebody has answered in its place.
LEMMA AddressedStep ==
    ASSUME TunnelTypeOK, Addressed, [Next]_vars
    PROVE  Addressed'
<1> SUFFICES ASSUME ~stray', address' # None
             PROVE  connected' /\ address' = VipOf(current')
  BY DEF Addressed
<1>1. ASSUME UNCHANGED <<stray, address, connected, current>>
      PROVE  connected' /\ address' = VipOf(current')
  BY <1>1 DEF Addressed
<1>2. \/ UNCHANGED <<stray, address, connected, current>>
      \/ SendAuth
      \/ \E s \in Sessions : Connect(s) \/ ClientReadFails(s) \/ ClientWriteFails(s) \/ ClientAnswer(s)
  <2>1. ASSUME NEW s \in Sessions, \/ ServerWriteFails(s) \/ ServerReadFails(s) \/ ServerTun(s)
                                   \/ ServerAuth(s) \/ ServerPacket(s) \/ ClientPacket(s)
        PROVE  UNCHANGED client
    BY <2>1 DEF ServerWriteFails, ServerReadFails, ServerTun, ServerAuth, ServerPacket, ClientPacket
  <2>2. ASSUME NEW s \in Sessions, ClientTunRead(s) \/ ClientTunSend(s)
        PROVE  UNCHANGED <<stray, address, connected, current>>
    BY <2>2 DEF ClientTunRead, ClientTunSend
  <2>3. UNCHANGED client => UNCHANGED <<stray, address, connected, current>>
    BY DEF client, device
  <2>4. UNCHANGED vars => UNCHANGED client
    BY DEF vars
  <2> QED
    BY <2>1, <2>2, <2>3, <2>4 DEF Next
<1>3. ASSUME SendAuth
      PROVE  connected' /\ address' = VipOf(current')
  <2>1. /\ stray' = stray /\ address' = address /\ current' = current /\ connected' = TRUE
    BY <1>3 DEF SendAuth, device
  <2> QED BY <2>1 DEF Addressed
<1>4. ASSUME NEW s \in Sessions, Connect(s)
      PROVE  FALSE
  <2>1. ~connected /\ stray' = stray /\ address' = address
    BY <1>4 DEF Connect, device
  <2> QED BY <2>1 DEF Addressed
<1>5. ASSUME NEW s \in Sessions, ClientReadFails(s) \/ ClientWriteFails(s)
      PROVE  FALSE
  <2>1. stray' = stray /\ address' = IF connected THEN None ELSE address
    BY <1>5 DEF ClientReadFails, ClientWriteFails, OnError
  <2> QED BY <2>1 DEF Addressed
<1>6. ASSUME NEW s \in Sessions, ClientAnswer(s)
      PROVE  connected' /\ address' = VipOf(current')
  <2>1. /\ \/ address' = VipOf(s) /\ (stray' <=> stray \/ s # current \/ ~connected)
           \/ address' = None
        /\ connected' = connected /\ current' = current
    BY <1>6, Zenon DEF ClientAnswer
  <2> QED BY <2>1
<1> QED
  BY <1>1, <1>2, <1>3, <1>4, <1>5, <1>6

\* A queue's prefixes are no longer than it is.
LEMMA EmptyPrefix ==
    ASSUME NEW u \in Prefixes(<<>>)
    PROVE  u = <<>>
<1>1. <<>> \in Seq({0}) /\ Len(<<>>) = 0
  OBVIOUS
<1>2. u \in Seq({0}) /\ Len(u) \in Nat /\ Len(u) <= Len(<<>>)
  BY <1>1, PrefixElements
<1> QED
  BY <1>1, <1>2, EmptySeq

\* A connection that was not made yet and is not made now has done nothing.
LEMMA AheadStep ==
    ASSUME IInv, [Next]_vars
    PROVE  Ahead'
<1>1. TunnelTypeOK /\ WellFormed /\ Ahead
  BY DEF IInv
<1> SUFFICES ASSUME NEW s \in Sessions, s > current'
             PROVE  /\ s \notin reading' \cup writable' \cup serving' \cup open'
                    /\ upQueue'[s] = <<>> /\ downQueue'[s] = <<>> /\ verdict'[s] = "none"
                    /\ \A d \in Virtual!Directions : offered'[d][s] = <<>> /\ taken'[d][s] = 0
  BY DEF Ahead
<1>2. current \in Int /\ current' \in Int /\ s \in Int
  BY <1>1, TypeStep, TunnelBounds DEF TunnelTypeOK, Sessions, None
<1>3. s > current /\ \A x \in Sessions : Connect(x) => x # s
  <2>1. ASSUME NEW x \in Sessions, Connect(x)
        PROVE  current = x - 1 /\ current' = x
    BY <2>1 DEF Connect
  <2>2. current' = current \/ \E x \in Sessions : Connect(x)
    BY DEF Next, vars, client, SendAuth, ClientReadFails, ClientWriteFails,
          ServerWriteFails, ServerReadFails, ClientTunRead, ClientTunSend, ServerTun, ServerAuth,
          ServerPacket, ClientAnswer, ClientPacket
  <2> QED BY <1>2, <2>1, <2>2
<1>4. /\ s \notin reading /\ s \notin writable /\ s \notin serving /\ s \notin open
      /\ upQueue[s] = <<>> /\ downQueue[s] = <<>> /\ verdict[s] = "none"
      /\ \A d \in Virtual!Directions : offered[d][s] = <<>> /\ taken[d][s] = 0
  BY <1>1, <1>3 DEF Ahead
<1>5. /\ reading' \subseteq reading \/ \E x \in Sessions : Connect(x) /\ reading' = reading \cup {x}
      /\ writable' \subseteq writable \/ \E x \in Sessions : Connect(x) /\ writable' = writable \cup {x}
  BY DEF Next, vars, client, transports, SendAuth, Connect, ClientReadFails, ClientWriteFails,
        ServerWriteFails, ServerReadFails, ClientTunRead, ClientTunSend, ServerTun, ServerAuth,
        ServerPacket, ClientAnswer, ClientPacket
<1>6. /\ serving' \subseteq serving \/ \E x \in Sessions : Connect(x) /\ serving' = serving \cup {x}
      /\ open' \subseteq open \/ \E x \in Sessions : Connect(x) /\ open' = open \cup {x}
  BY DEF Next, vars, server, SendAuth, Connect, ClientReadFails, ClientWriteFails,
        ServerWriteFails, ServerReadFails, ClientTunRead, ClientTunSend, ServerTun, ServerAuth,
        ServerPacket, ClientAnswer, ClientPacket
<1>7. s \notin reading' \cup writable' \cup serving' \cup open'
  BY <1>3, <1>4, <1>5, <1>6
<1>8. verdict'[s] = "none"
  BY <1>4, VerdictStep
<1>9. upQueue'[s] = <<>>
  <2>1. s # current
    BY <1>2, <1>3
  <2> QED BY <1>4, <2>1, UpMoves, EmptyPrefix
<1>10. downQueue'[s] = <<>>
  <2>1. verdict[s] # "yes" /\ verdict'[s] # "yes"
    BY <1>4, <1>8
  <2> QED BY <1>4, <2>1, DownMoves, EmptyPrefix
<1>11. \A d \in Virtual!Directions : offered'[d][s] = offered[d][s] /\ taken'[d][s] = taken[d][s]
  <2>1. /\ offered \in [Virtual!Directions -> [Sessions -> Seq(Packets)]]
        /\ taken \in [Virtual!Directions -> [Sessions -> Nat]]
    BY <1>1 DEF WellFormed
  <2>2. ASSUME NEW x \in Sessions, ClientTunSend(x)
        PROVE  \A d \in Virtual!Directions : offered'[d][s] = offered[d][s] /\ taken'[d][s] = taken[d][s]
    <3>1. /\ taken' = taken
          /\ \/ offered' = offered
             \/ \E p \in Packets : offered' = [offered EXCEPT !["up"][current] = Append(@, p)]
      BY <1>1, <2>2, TunSendEffect DEF packetVars
    <3>2. s # current
      BY <1>2, <1>3
    <3>3. ASSUME NEW p, offered' = [offered EXCEPT !["up"][current] = Append(@, p)]
          PROVE  \A d \in Virtual!Directions : offered'[d][s] = offered[d][s]
      BY <2>1, <3>2, <3>3
    <3> QED BY <3>1, <3>3
  <2>3. ASSUME NEW x \in Sessions, ServerTun(x)
        PROVE  \A d \in Virtual!Directions : offered'[d][s] = offered[d][s] /\ taken'[d][s] = taken[d][s]
    <3>1. /\ taken' = taken /\ verdict[x] = "yes"
          /\ \E p \in Packets : offered' = [offered EXCEPT !["down"][x] = Append(@, p)]
      BY <2>3, ServerTunEffect
    <3>2. s # x
      BY <1>4, <3>1
    <3> QED BY <2>1, <3>1, <3>2
  <2>4. ASSUME NEW x \in Sessions, ServerPacket(x)
        PROVE  \A d \in Virtual!Directions : offered'[d][s] = offered[d][s] /\ taken'[d][s] = taken[d][s]
    <3>1. /\ offered' = offered /\ upQueue[x] # <<>>
          /\ taken' = [taken EXCEPT !["up"][x] = @ + 1]
      BY <2>4, ServerPacketEffect
    <3>2. s # x
      BY <1>4, <3>1
    <3> QED BY <2>1, <3>1, <3>2
  <2>5. ASSUME NEW x \in Sessions, ClientPacket(x)
        PROVE  \A d \in Virtual!Directions : offered'[d][s] = offered[d][s] /\ taken'[d][s] = taken[d][s]
    <3>1. /\ offered' = offered /\ downQueue[x] # <<>>
          /\ taken' = [taken EXCEPT !["down"][x] = @ + 1]
      BY <2>5, ClientPacketEffect
    <3>2. s # x
      BY <1>4, <3>1
    <3> QED BY <2>1, <3>1, <3>2
  <2>6. UNCHANGED packetVars => offered' = offered /\ taken' = taken
    BY DEF packetVars
  <2> QED BY <2>2, <2>3, <2>4, <2>5, <2>6, PacketMoves
<1> QED
  BY <1>4, <1>7, <1>8, <1>9, <1>10, <1>11

\* A connection has one AuthRequest on its way, or a verdict and no AuthRequest.
LEMMA AskedOnceStep ==
    ASSUME IInv, [Next]_vars
    PROVE  AskedOnce'
<1>1. TunnelTypeOK /\ WellFormed /\ Ahead /\ AskedOnce
  BY DEF IInv
<1>2. /\ Control(AskFrame) /\ AskFrame \in UpFrames /\ Control(AnswerFrame) /\ AnswerFrame \in DownFrames
      /\ \A p \in Packets : PacketFrame(p) \in UpFrames /\ PacketFrame(p) \in DownFrames
                            /\ ~Control(PacketFrame(p))
  BY <1>1, Configured, PacketFrameFacts
<1>3. ASSUME NEW s \in Sessions, NEW S, NEW q \in Seq(S), Once(q), NEW u,
             \/ u = q
             \/ u = <<>>
             \/ q # <<>> /\ u = Tail(q)
             \/ u \in Prefixes(q)
             \/ \E p \in Packets : PacketFrame(p) \in S /\ u = Append(q, PacketFrame(p))
      PROVE  Once(u) /\ (Packed(q) => Packed(u))
  <2>1. ASSUME NEW p \in Packets, PacketFrame(p) \in S, u = Append(q, PacketFrame(p))
        PROVE  Once(u) /\ (Packed(q) => Packed(u))
    BY <1>2, <1>3, <2>1, FollowsAppend
  <2>2. CASE q # <<>> /\ u = Tail(q)
    BY <1>3, <2>2, FollowsTail
  <2>3. CASE u \in Prefixes(q)
    BY <1>3, <2>3, FollowsPrefix
  <2>4. CASE u = q \/ u = <<>>
    BY <1>3, <2>4, FollowsEmpty
  <2> QED BY <1>3, <2>1, <2>2, <2>3, <2>4
<1>4. ASSUME NEW s \in Sessions
      PROVE  /\ Once(upQueue'[s])
             /\ ~SendAuth \/ s # current => (Packed(upQueue[s]) => Packed(upQueue'[s]))
  <2>1. upQueue[s] \in Seq(UpFrames) /\ Once(upQueue[s])
    BY <1>1 DEF WellFormed, AskedOnce
  <2>2. ASSUME SendAuth, ~asked, s = current, upQueue'[s] = Append(upQueue[s], AskFrame)
        PROVE  Once(upQueue'[s])
    <3>1. Packed(upQueue[s])
      BY <1>1, <2>2 DEF AskedOnce
    <3> QED BY <1>2, <2>1, <2>2, <3>1, FollowsAppend
  <2>3. \/ upQueue'[s] = upQueue[s]
        \/ upQueue'[s] = <<>>
        \/ upQueue[s] # <<>> /\ upQueue'[s] = Tail(upQueue[s])
        \/ upQueue'[s] \in Prefixes(upQueue[s])
        \/ SendAuth /\ ~asked /\ s = current /\ upQueue'[s] = Append(upQueue[s], AskFrame)
        \/ \E p \in Packets : PacketFrame(p) \in UpFrames /\ upQueue'[s] = Append(upQueue[s], PacketFrame(p))
    BY <1>2, UpMoves
  <2> QED BY <1>3, <2>1, <2>2, <2>3
<1>5. ASSUME NEW s \in Sessions
      PROVE  /\ Once(downQueue'[s])
             /\ verdict'[s] = "none" => Packed(downQueue'[s])
  <2>1. downQueue[s] \in Seq(DownFrames) /\ Once(downQueue[s])
    BY <1>1 DEF WellFormed, AskedOnce
  <2>2. ASSUME verdict[s] = "none", verdict'[s] = "yes",
               downQueue'[s] = Append(downQueue[s], AnswerFrame)
        PROVE  Once(downQueue'[s])
    <3>1. Packed(downQueue[s])
      BY <1>1, <2>2 DEF AskedOnce
    <3> QED BY <1>2, <2>1, <2>2, <3>1, FollowsAppend
  <2>3. \/ downQueue'[s] = downQueue[s]
        \/ downQueue'[s] = <<>>
        \/ downQueue[s] # <<>> /\ downQueue'[s] = Tail(downQueue[s])
        \/ downQueue'[s] \in Prefixes(downQueue[s])
        \/ /\ verdict[s] = "none" /\ verdict'[s] = "yes"
           /\ downQueue'[s] = Append(downQueue[s], AnswerFrame)
        \/ \E p \in Packets : /\ PacketFrame(p) \in DownFrames
                              /\ downQueue'[s] = Append(downQueue[s], PacketFrame(p))
    BY <1>2, DownMoves
  <2>4. verdict'[s] = "none" => Packed(downQueue[s])
    BY <1>1, VerdictStep DEF AskedOnce
  <2>5. verdict'[s] = "none" => verdict'[s] # "yes"
    OBVIOUS
  <2> QED BY <1>3, <2>1, <2>2, <2>3, <2>4, <2>5
<1>6. ASSUME NEW s \in Sessions, verdict'[s] # "none"
      PROVE  Packed(upQueue'[s])
  <2>1. CASE verdict[s] # "none"
    <3>1. Packed(upQueue[s])
      BY <1>1, <2>1 DEF AskedOnce
    <3>2. ~SendAuth \/ s # current
      BY <1>1, <2>1 DEF AskedOnce, SendAuth
    <3> QED BY <1>4, <3>1, <3>2
  <2>2. CASE verdict[s] = "none"
    <3>1. /\ upQueue[s] # <<>> /\ Control(Head(upQueue[s]))
          /\ upQueue'[s] = Tail(upQueue[s]) \/ upQueue'[s] = <<>>
      BY <1>6, <2>2, VerdictStep
    <3>2. upQueue[s] \in Seq(UpFrames) /\ Once(upQueue[s])
      BY <1>1 DEF WellFormed, AskedOnce
    <3>3. Packed(Tail(upQueue[s]))
      BY <3>1, <3>2, FollowsTail
    <3> QED BY <3>1, <3>3, FollowsEmpty
  <2> QED BY <2>1, <2>2
<1>7. ASSUME NEW s \in Sessions, offered'["down"][s] # <<>>
      PROVE  verdict'[s] = "yes"
  <2>1. verdict[s] = "yes" => verdict'[s] = "yes"
    BY VerdictStep
  <2>2. offered["down"][s] # <<>> => verdict[s] = "yes"
    BY <1>1 DEF AskedOnce
  <2>3. /\ offered \in [Virtual!Directions -> [Sessions -> Seq(Packets)]]
        /\ "up" \in Virtual!Directions /\ "down" \in Virtual!Directions /\ "up" # "down"
    BY <1>1 DEF WellFormed, Virtual!Directions
  <2>4. ASSUME NEW x \in Sessions, ClientTunSend(x)
        PROVE  offered'["down"][s] = offered["down"][s]
    <3>1. \/ offered' = offered
          \/ \E p \in Packets : offered' = [offered EXCEPT !["up"][current] = Append(@, p)]
      BY <1>1, <2>4, TunSendEffect DEF packetVars
    <3> QED BY <2>3, <3>1
  <2>5. ASSUME NEW x \in Sessions, ServerTun(x)
        PROVE  offered'["down"][s] = offered["down"][s] \/ verdict[s] = "yes"
    <3>1. /\ verdict[x] = "yes"
          /\ \E p \in Packets : offered' = [offered EXCEPT !["down"][x] = Append(@, p)]
      BY <2>5, ServerTunEffect
    <3> QED BY <2>3, <3>1
  <2>6. ASSUME NEW x \in Sessions, ServerPacket(x) \/ ClientPacket(x)
        PROVE  offered' = offered
    BY <2>6, ServerPacketEffect, ClientPacketEffect
  <2>7. UNCHANGED packetVars => offered' = offered
    BY DEF packetVars
  <2>8. offered'["down"][s] = offered["down"][s] \/ verdict[s] = "yes"
    BY <2>4, <2>5, <2>6, <2>7, PacketMoves
  <2> QED BY <1>7, <2>1, <2>2, <2>8
<1>8. ASSUME ~asked'
      PROVE  current' \in Sessions /\ verdict'[current'] = "none" /\ Packed(upQueue'[current'])
  <2>1. \/ asked' = asked /\ current' = current /\ ~SendAuth
        \/ \E s \in Sessions : Connect(s)
    <3>1. ASSUME NEW s \in Sessions, \/ ClientReadFails(s) \/ ClientWriteFails(s) \/ ClientTunRead(s)
                                     \/ ClientTunSend(s) \/ ClientAnswer(s)
          PROVE  asked' = asked /\ current' = current
      BY <3>1 DEF ClientReadFails, ClientWriteFails, ClientTunRead, ClientTunSend, ClientAnswer
    <3>2. ASSUME NEW s \in Sessions, \/ ServerWriteFails(s) \/ ServerReadFails(s) \/ ServerTun(s)
                                     \/ ServerAuth(s) \/ ServerPacket(s) \/ ClientPacket(s)
          PROVE  UNCHANGED client
      BY <3>2 DEF ServerWriteFails, ServerReadFails, ServerTun, ServerAuth, ServerPacket, ClientPacket
    <3>3. UNCHANGED vars => UNCHANGED client
      BY DEF vars
    <3>4. UNCHANGED client => asked' = asked /\ current' = current
      BY DEF client
    <3>5. ~SendAuth
      BY <1>8 DEF SendAuth
    <3> QED
      BY <3>1, <3>2, <3>3, <3>4, <3>5 DEF Next
  <2>2. ASSUME asked' = asked, current' = current, ~SendAuth
        PROVE  current' \in Sessions /\ verdict'[current'] = "none" /\ Packed(upQueue'[current'])
    <3>1. current \in Sessions /\ verdict[current] = "none" /\ Packed(upQueue[current])
      BY <1>1, <1>8, <2>2 DEF AskedOnce
    <3>2. Packed(upQueue'[current])
      BY <1>4, <2>2, <3>1
    <3>3. upQueue[current] # <<>> => ~Control(Head(upQueue[current]))
      <4>1. upQueue[current] \in Seq(UpFrames)
        BY <1>1, <3>1 DEF WellFormed
      <4>2. upQueue[current] # <<>> =>
               Head(upQueue[current]) = upQueue[current][1] /\ 1 \in DOMAIN upQueue[current]
        BY <4>1, TailElements
      <4> QED BY <3>1, <4>2 DEF Packed
    <3>4. verdict'[current] = "none"
      BY <3>1, <3>3, VerdictStep
    <3> QED BY <2>2, <3>1, <3>2, <3>4
  <2>3. ASSUME NEW s \in Sessions, Connect(s)
        PROVE  current' \in Sessions /\ verdict'[current'] = "none" /\ Packed(upQueue'[current'])
    <3>1. current = s - 1 /\ current' = s /\ verdict' = verdict /\ upQueue' = upQueue
      BY <2>3 DEF Connect, links
    <3>2. s > current
      BY <3>1, TunnelBounds DEF Sessions
    <3>3. verdict[s] = "none" /\ upQueue[s] = <<>>
      BY <1>1, <3>2 DEF Ahead
    <3> QED BY <3>1, <3>3, FollowsEmpty
  <2> QED BY <2>1, <2>2, <2>3
<1> QED
  BY <1>4, <1>5, <1>6, <1>7, <1>8 DEF AskedOnce

\* The packets on their way to a server that reads follow those it has read, in every step.
LEMMA UpStep ==
    ASSUME IInv, [Next]_vars, NEW s \in Sessions, s \in serving', verdict'[s] # "never"
    PROVE  /\ Follows(upQueue'[s], offered'["up"][s], taken'["up"][s])
           /\ s \in writable' => Complete(upQueue'[s], offered'["up"][s], taken'["up"][s])
<1> DEFINE Goal == /\ Follows(upQueue'[s], offered'["up"][s], taken'["up"][s])
                   /\ s \in writable' => Complete(upQueue'[s], offered'["up"][s], taken'["up"][s])
<1>1. TunnelTypeOK /\ WellFormed /\ Ahead /\ AskedOnce /\ InOrder
  BY DEF IInv
<1>2. /\ offered \in [Virtual!Directions -> [Sessions -> Seq(Packets)]]
      /\ taken \in [Virtual!Directions -> [Sessions -> Nat]]
      /\ "up" \in Virtual!Directions /\ "down" \in Virtual!Directions /\ "up" # "down"
      /\ upQueue \in [Sessions -> Seq(UpFrames)]
  BY <1>1 DEF WellFormed, Virtual!Directions
<1>3. /\ offered["up"][s] \in Seq(Packets) /\ taken["up"][s] \in Nat
      /\ upQueue[s] \in Seq(UpFrames) /\ Once(upQueue[s])
  BY <1>1, <1>2 DEF AskedOnce
<1>4. verdict'[s] = verdict[s] \/ verdict[s] = "none"
  BY VerdictStep
<1>5. verdict[s] # "never"
  BY <1>4
<1>6. ASSUME s \in serving
      PROVE  /\ Follows(upQueue[s], offered["up"][s], taken["up"][s])
             /\ s \in writable => Complete(upQueue[s], offered["up"][s], taken["up"][s])
  BY <1>1, <1>5, <1>6 DEF InOrder
<1>7. ASSUME s \in serving, s \in writable' => s \in writable,
             upQueue'[s] = upQueue[s], offered'["up"][s] = offered["up"][s],
             taken'["up"][s] = taken["up"][s]
      PROVE  Goal
  BY <1>6, <1>7
<1> HIDE DEF Goal
<1>8. ASSUME SendAuth
      PROVE  Goal
  <2>1. /\ upQueue' = [upQueue EXCEPT ![current] = Append(@, AskFrame)] /\ ~asked
        /\ offered' = offered /\ taken' = taken /\ serving' = serving /\ writable' = writable
    BY <1>8 DEF SendAuth, SendUp, AskFrame, transports, server, packetVars
  <2>2. CASE s # current
    BY <1>2, <1>7, <2>1, <2>2
  <2>3. CASE s = current
    <3>1. Packed(upQueue[s])
      BY <1>1, <2>1, <2>3 DEF AskedOnce
    <3>2. Control(AskFrame) /\ AskFrame \in UpFrames
      BY <1>1, Configured
    <3>3. upQueue'[s] = Append(upQueue[s], AskFrame)
      BY <1>2, <2>1, <2>3
    <3> DEFINE q == upQueue[s]
               n == taken["up"][s]
               sent == offered["up"][s]
    <3> HIDE DEF q, n, sent
    <3>4. /\ Follows(q, sent, n) => Follows(Append(q, AskFrame), sent, n)
          /\ Complete(q, sent, n) => Complete(Append(q, AskFrame), sent, n)
      BY <1>3, <3>1, <3>2, FollowsAppend DEF q, n
    <3> QED
      BY <1>6, <2>1, <3>3, <3>4 DEF q, n, sent, Goal
  <2> QED BY <2>2, <2>3
<1>9. ASSUME NEW x \in Sessions, Connect(x)
      PROVE  Goal
  <2>1. /\ current = x - 1 /\ UNCHANGED <<upQueue, offered, taken>>
        /\ writable' = writable \cup {x} /\ serving' = serving \cup {x}
    BY <1>9 DEF Connect, links, packetVars
  <2>2. CASE s # x
    BY <1>7, <2>1, <2>2
  <2>3. CASE s = x
    <3>1. s > current
      BY <2>1, <2>3, TunnelBounds DEF Sessions
    <3>2. upQueue[s] = <<>> /\ offered["up"][s] = <<>> /\ taken["up"][s] = 0
      BY <1>1, <1>2, <3>1 DEF Ahead
    <3> QED BY <2>1, <3>2, FollowsEmpty DEF Goal
  <2> QED BY <2>2, <2>3
<1>10. ASSUME NEW x \in Sessions,
              ClientReadFails(x) \/ ServerWriteFails(x) \/ ClientTunRead(x) \/ ClientAnswer(x)
       PROVE  Goal
  <2>1. UNCHANGED <<upQueue, offered, taken, serving, writable>>
    BY <1>10 DEF ClientReadFails, ServerWriteFails, ClientTunRead, ClientAnswer, transports, client,
                 server, links, packetVars
  <2> QED BY <1>7, <2>1
<1>11. ASSUME NEW x \in Sessions, ClientWriteFails(x)
       PROVE  Goal
  <2>1. PICK q \in Prefixes(upQueue[x]) : upQueue' = [upQueue EXCEPT ![x] = q]
    BY <1>11 DEF ClientWriteFails
  <2>2. /\ UNCHANGED <<offered, taken, serving>> /\ writable' = writable \ {x}
    BY <1>11 DEF ClientWriteFails, server, packetVars
  <2>3. CASE s # x
    BY <1>2, <1>7, <2>1, <2>2, <2>3
  <2>4. CASE s = x
    <3>1. upQueue'[s] = q /\ s \notin writable' /\ s \in serving
      BY <1>2, <2>1, <2>2, <2>4
    <3>2. Follows(q, offered["up"][s], taken["up"][s])
      BY <1>3, <1>6, <2>1, <2>4, <3>1, FollowsPrefix
    <3> QED BY <2>2, <3>1, <3>2 DEF Goal
  <2> QED BY <2>3, <2>4
<1>12. ASSUME NEW x \in Sessions, ServerReadFails(x)
       PROVE  Goal
  <2>1. /\ upQueue' = [upQueue EXCEPT ![x] = <<>>] /\ serving' = serving \ {x}
        /\ UNCHANGED <<offered, taken, writable>>
    BY <1>12 DEF ServerReadFails, client, transports, packetVars
  <2>2. s # x /\ s \in serving
    BY <2>1
  <2> QED BY <1>2, <1>7, <2>1, <2>2
<1>13. ASSUME NEW x \in Sessions, ClientTunSend(x)
       PROVE  Goal
  <2>1. UNCHANGED <<serving, writable>>
    BY <1>13 DEF ClientTunSend, transports, server
  <2>2. CASE UNCHANGED <<links, packetVars>>
    BY <1>7, <2>1, <2>2 DEF links, packetVars
  <2>3. ASSUME NEW p \in Packets, current \in Sessions, current \in writable,
               upQueue' = [upQueue EXCEPT ![current] = Append(@, PacketFrame(p))],
               offered' = [offered EXCEPT !["up"][current] = Append(@, p)],
               taken' = taken
        PROVE  Goal
    <3>1. CASE s # current
      <4>1. upQueue'[s] = upQueue[s] /\ offered'["up"][s] = offered["up"][s]
        BY <1>2, <2>3, <3>1
      <4> QED BY <1>7, <2>1, <2>3, <4>1
    <3>2. CASE s = current
      <4> DEFINE q == upQueue[s]
                 n == taken["up"][s]
                 sent == offered["up"][s]
      <4>1. /\ upQueue'[s] = Append(q, PacketFrame(p)) /\ offered'["up"][s] = Append(sent, p)
            /\ taken'["up"][s] = n
        BY <1>2, <2>3, <3>2
      <4>2. /\ q \in Seq(UpFrames) /\ sent \in Seq(Packets) /\ n \in Nat
            /\ Follows(q, sent, n) /\ Complete(q, sent, n)
        BY <1>3, <1>6, <2>1, <2>3, <3>2
      <4>3. PacketFrame(p) \in UpFrames /\ ~Control(PacketFrame(p))
        BY <1>1, Configured, PacketFrameFacts
      <4> HIDE DEF q, n, sent
      <4>4. /\ Follows(Append(q, PacketFrame(p)), Append(sent, p), n)
            /\ Complete(Append(q, PacketFrame(p)), Append(sent, p), n)
        BY <4>2, <4>3, FollowsSend
      <4> QED BY <4>1, <4>4 DEF Goal
    <3> QED BY <3>1, <3>2
  <2> QED BY <1>1, <1>13, <2>2, <2>3, TunSendEffect
<1>14. ASSUME NEW x \in Sessions, ServerTun(x)
       PROVE  Goal
  <2>1. /\ \E p \in Packets : offered' = [offered EXCEPT !["down"][x] = Append(@, p)]
        /\ UNCHANGED <<upQueue, taken>>
    BY <1>14, ServerTunEffect
  <2>2. UNCHANGED <<serving, writable>>
    BY <1>14 DEF ServerTun, client, server, transports
  <2>3. offered'["up"][s] = offered["up"][s]
    BY <1>2, <2>1
  <2> QED BY <1>7, <2>1, <2>2, <2>3
<1>15. ASSUME NEW x \in Sessions, ServerAuth(x)
       PROVE  Goal
  <2>1. /\ upQueue[x] # <<>> /\ Control(Head(upQueue[x])) /\ x \in serving
    BY <1>15, AuthEffect
  <2>2. UNCHANGED <<offered, taken, writable>>
    BY <1>15, AuthOutcome DEF client, transports, packetVars
  <2>3. /\ \/ /\ verdict'[x] = "yes"
              /\ upQueue' = [upQueue EXCEPT ![x] = Tail(@)] /\ serving' = serving
           \/ /\ verdict'[x] = "no"
              /\ upQueue' = [upQueue EXCEPT ![x] = <<>>] /\ serving' = serving \ {x}
           \/ /\ verdict'[x] = "never"
              /\ upQueue' = [upQueue EXCEPT ![x] = <<>>] /\ serving' = serving
    BY <1>15, AuthOutcome
  <2>4. CASE s # x
    BY <1>2, <1>7, <2>2, <2>3, <2>4
  <2>5. CASE s = x
    <3>1. upQueue'[s] = Tail(upQueue[s])
      BY <1>2, <2>3, <2>5
    <3> DEFINE q == upQueue[s]
               n == taken["up"][s]
               sent == offered["up"][s]
    <3> HIDE DEF q, n, sent
    <3>2. /\ Follows(q, sent, n) => Follows(Tail(q), sent, n)
          /\ Complete(q, sent, n) => Complete(Tail(q), sent, n)
      BY <1>3, <2>1, <2>5, FollowsTail DEF q, n
    <3> QED
      BY <1>6, <2>1, <2>2, <2>5, <3>1, <3>2 DEF q, n, sent, Goal
  <2> QED BY <2>4, <2>5
<1>16. ASSUME NEW x \in Sessions, ServerPacket(x)
       PROVE  Goal
  <2>1. /\ upQueue[x] # <<>> /\ ~Control(Head(upQueue[x])) /\ x \in serving
        /\ upQueue' = [upQueue EXCEPT ![x] = Tail(@)]
        /\ taken' = [taken EXCEPT !["up"][x] = @ + 1] /\ offered' = offered
    BY <1>16, ServerPacketEffect
  <2>2. UNCHANGED <<serving, writable>>
    BY <1>16 DEF ServerPacket, client, server, transports
  <2>3. CASE s # x
    <3>1. upQueue'[s] = upQueue[s] /\ taken'["up"][s] = taken["up"][s]
      BY <1>2, <2>1, <2>3
    <3> QED BY <1>7, <2>1, <2>2, <3>1
  <2>4. CASE s = x
    <3>1. upQueue'[s] = Tail(upQueue[s]) /\ taken'["up"][s] = taken["up"][s] + 1
      BY <1>2, <2>1, <2>4
    <3> DEFINE q == upQueue[s]
               n == taken["up"][s]
               sent == offered["up"][s]
    <3> HIDE DEF q, n, sent
    <3>2. /\ Follows(q, sent, n) => Follows(Tail(q), sent, n + 1)
          /\ Complete(q, sent, n) => Complete(Tail(q), sent, n + 1)
      BY <1>3, <2>1, <2>4, FollowsTail DEF q, n
    <3> QED
      BY <1>6, <2>1, <2>2, <2>4, <3>1, <3>2 DEF q, n, sent, Goal
  <2> QED BY <2>3, <2>4
<1>17. ASSUME NEW x \in Sessions, ClientPacket(x)
       PROVE  Goal
  <2>1. /\ taken' = [taken EXCEPT !["down"][x] = @ + 1] /\ offered' = offered /\ upQueue' = upQueue
    BY <1>17, ClientPacketEffect
  <2>2. UNCHANGED <<serving, writable>>
    BY <1>17 DEF ClientPacket, client, server, transports
  <2>3. taken'["up"][s] = taken["up"][s]
    BY <1>2, <2>1
  <2> QED BY <1>7, <2>1, <2>2, <2>3
<1>18. ASSUME UNCHANGED vars
       PROVE  Goal
  <2>1. UNCHANGED <<upQueue, offered, taken, serving, writable>>
    BY <1>18 DEF vars, client, transports, server, links, packetVars
  <2> QED BY <1>7, <2>1
<1>19. Goal
  BY <1>8, <1>9, <1>10, <1>11, <1>12, <1>13, <1>14, <1>15, <1>16, <1>17, <1>18 DEF Next
<1> QED BY <1>19 DEF Goal

\* And those on their way to a client that reads.
LEMMA DownStep ==
    ASSUME IInv, [Next]_vars, NEW s \in Sessions, s \in reading'
    PROVE  /\ Follows(downQueue'[s], offered'["down"][s], taken'["down"][s])
           /\ s \in open' => Complete(downQueue'[s], offered'["down"][s], taken'["down"][s])
<1> DEFINE Goal == /\ Follows(downQueue'[s], offered'["down"][s], taken'["down"][s])
                   /\ s \in open' => Complete(downQueue'[s], offered'["down"][s], taken'["down"][s])
<1>1. TunnelTypeOK /\ WellFormed /\ Ahead /\ AskedOnce /\ InOrder
  BY DEF IInv
<1>2. /\ offered \in [Virtual!Directions -> [Sessions -> Seq(Packets)]]
      /\ taken \in [Virtual!Directions -> [Sessions -> Nat]]
      /\ "up" \in Virtual!Directions /\ "down" \in Virtual!Directions /\ "up" # "down"
      /\ downQueue \in [Sessions -> Seq(DownFrames)]
  BY <1>1 DEF WellFormed, Virtual!Directions
<1>3. /\ offered["down"][s] \in Seq(Packets) /\ taken["down"][s] \in Nat
      /\ downQueue[s] \in Seq(DownFrames) /\ Once(downQueue[s])
  BY <1>1, <1>2 DEF AskedOnce
<1>6. ASSUME s \in reading
      PROVE  /\ Follows(downQueue[s], offered["down"][s], taken["down"][s])
             /\ s \in open => Complete(downQueue[s], offered["down"][s], taken["down"][s])
  BY <1>1, <1>6 DEF InOrder
<1>7. ASSUME s \in reading, s \in open' => s \in open,
             downQueue'[s] = downQueue[s], offered'["down"][s] = offered["down"][s],
             taken'["down"][s] = taken["down"][s]
      PROVE  Goal
  BY <1>6, <1>7
<1> HIDE DEF Goal
<1>8. ASSUME SendAuth
      PROVE  Goal
  <2>1. UNCHANGED <<downQueue, offered, taken, reading, open>>
    BY <1>8 DEF SendAuth, SendUp, transports, server, packetVars
  <2> QED BY <1>7, <2>1
<1>9. ASSUME NEW x \in Sessions, Connect(x)
      PROVE  Goal
  <2>1. /\ current = x - 1 /\ UNCHANGED <<downQueue, offered, taken>>
        /\ reading' = reading \cup {x} /\ open' = open \cup {x}
    BY <1>9 DEF Connect, links, packetVars
  <2>2. CASE s # x
    BY <1>7, <2>1, <2>2
  <2>3. CASE s = x
    <3>1. s > current
      BY <2>1, <2>3, TunnelBounds DEF Sessions
    <3>2. downQueue[s] = <<>> /\ offered["down"][s] = <<>> /\ taken["down"][s] = 0
      BY <1>1, <1>2, <3>1 DEF Ahead
    <3> QED BY <2>1, <3>2, FollowsEmpty DEF Goal
  <2> QED BY <2>2, <2>3
<1>10. ASSUME NEW x \in Sessions, ClientWriteFails(x) \/ ClientTunRead(x)
       PROVE  Goal
  <2>1. UNCHANGED <<downQueue, offered, taken, reading, open>>
    BY <1>10 DEF ClientWriteFails, ClientTunRead, transports, server, links, packetVars
  <2> QED BY <1>7, <2>1
<1>11. ASSUME NEW x \in Sessions, ServerWriteFails(x) \/ ServerReadFails(x)
       PROVE  Goal
  <2>1. PICK q \in Prefixes(downQueue[x]) : downQueue' = [downQueue EXCEPT ![x] = q]
    BY <1>11 DEF ServerWriteFails, ServerReadFails
  <2>2. /\ UNCHANGED <<offered, taken, reading>> /\ open' = open \ {x}
    BY <1>11 DEF ServerWriteFails, ServerReadFails, client, transports, packetVars
  <2>3. CASE s # x
    BY <1>2, <1>7, <2>1, <2>2, <2>3
  <2>4. CASE s = x
    <3>1. downQueue'[s] = q /\ s \notin open' /\ s \in reading
      BY <1>2, <2>1, <2>2, <2>4
    <3>2. Follows(q, offered["down"][s], taken["down"][s])
      BY <1>3, <1>6, <2>1, <2>4, <3>1, FollowsPrefix
    <3> QED BY <2>2, <3>1, <3>2 DEF Goal
  <2> QED BY <2>3, <2>4
<1>12. ASSUME NEW x \in Sessions, ClientReadFails(x)
       PROVE  Goal
  <2>1. /\ downQueue' = [downQueue EXCEPT ![x] = <<>>] /\ reading' = reading \ {x}
        /\ UNCHANGED <<offered, taken, open>>
    BY <1>12 DEF ClientReadFails, server, packetVars
  <2>2. s # x /\ s \in reading
    BY <2>1
  <2> QED BY <1>2, <1>7, <2>1, <2>2
<1>13. ASSUME NEW x \in Sessions, ClientTunSend(x)
       PROVE  Goal
  <2>1. UNCHANGED <<reading, open>>
    BY <1>13 DEF ClientTunSend, transports, server
  <2>2. /\ taken' = taken /\ downQueue' = downQueue
        /\ \/ offered' = offered
           \/ \E p \in Packets : offered' = [offered EXCEPT !["up"][current] = Append(@, p)]
    BY <1>1, <1>13, TunSendEffect DEF links, packetVars
  <2>3. offered'["down"][s] = offered["down"][s]
    BY <1>2, <2>2
  <2> QED BY <1>7, <2>1, <2>2, <2>3
<1>14. ASSUME NEW x \in Sessions, ServerTun(x)
       PROVE  Goal
  <2>1. PICK p \in Packets :
           /\ downQueue' = [downQueue EXCEPT ![x] = Append(@, PacketFrame(p))]
           /\ offered' = [offered EXCEPT !["down"][x] = Append(@, p)]
           /\ taken' = taken
    BY <1>14, ServerTunEffect
  <2>2. UNCHANGED <<reading, open>> /\ x \in open
    BY <1>14 DEF ServerTun, client, server, transports
  <2>3. CASE s # x
    <3>1. downQueue'[s] = downQueue[s] /\ offered'["down"][s] = offered["down"][s]
      BY <1>2, <2>1, <2>3
    <3> QED BY <1>7, <2>1, <2>2, <3>1
  <2>4. CASE s = x
    <3> DEFINE q == downQueue[s]
               n == taken["down"][s]
               sent == offered["down"][s]
    <3>1. /\ downQueue'[s] = Append(q, PacketFrame(p)) /\ offered'["down"][s] = Append(sent, p)
          /\ taken'["down"][s] = n
      BY <1>2, <2>1, <2>4
    <3>2. /\ q \in Seq(DownFrames) /\ sent \in Seq(Packets) /\ n \in Nat
          /\ Follows(q, sent, n) /\ Complete(q, sent, n)
      BY <1>3, <1>6, <2>2, <2>4
    <3>3. PacketFrame(p) \in DownFrames /\ ~Control(PacketFrame(p))
      BY <1>1, Configured, PacketFrameFacts
    <3> HIDE DEF q, n, sent
    <3>4. /\ Follows(Append(q, PacketFrame(p)), Append(sent, p), n)
          /\ Complete(Append(q, PacketFrame(p)), Append(sent, p), n)
      BY <3>2, <3>3, FollowsSend
    <3> QED BY <3>1, <3>4 DEF Goal
  <2> QED BY <2>3, <2>4
<1>15. ASSUME NEW x \in Sessions, ServerAuth(x)
       PROVE  Goal
  <2>1. UNCHANGED <<offered, taken, reading>>
    BY <1>15, AuthOutcome DEF client, transports, packetVars
  <2>2. \/ downQueue' = downQueue /\ open' \subseteq open
        \/ /\ verdict[x] = "none" /\ x \in open /\ open' = open
           /\ downQueue' = [downQueue EXCEPT ![x] = Append(@, AnswerFrame)]
    BY <1>15, AuthOutcome, AuthEffect
  <2>3. CASE downQueue' = downQueue /\ open' \subseteq open
    BY <1>7, <2>1, <2>3
  <2>4. ASSUME verdict[x] = "none", open' = open,
               downQueue' = [downQueue EXCEPT ![x] = Append(@, AnswerFrame)]
        PROVE  Goal
    <3>1. CASE s # x
      BY <1>2, <1>7, <2>1, <2>4, <3>1
    <3>2. CASE s = x
      <4> DEFINE q == downQueue[s]
                 n == taken["down"][s]
                 sent == offered["down"][s]
      <4>1. downQueue'[s] = Append(q, AnswerFrame)
        BY <1>2, <2>4, <3>2
      <4>2. Packed(q)
        BY <1>1, <2>4, <3>2 DEF AskedOnce
      <4>3. AnswerFrame \in DownFrames /\ Control(AnswerFrame)
        BY <1>1, Configured
      <4> HIDE DEF q, n, sent
      <4>4. /\ Follows(q, sent, n) => Follows(Append(q, AnswerFrame), sent, n)
            /\ Complete(q, sent, n) => Complete(Append(q, AnswerFrame), sent, n)
        BY <1>3, <4>2, <4>3, FollowsAppend DEF q, n
      <4> QED
        BY <1>6, <2>1, <2>4, <4>1, <4>4 DEF q, n, sent, Goal
    <3> QED BY <3>1, <3>2
  <2> QED BY <2>2, <2>3, <2>4
<1>16. ASSUME NEW x \in Sessions, ClientAnswer(x)
       PROVE  Goal
  <2>1. /\ downQueue[x] # <<>> /\ Control(Head(downQueue[x]))
        /\ downQueue' = [downQueue EXCEPT ![x] = Tail(@)]
    BY <1>16, AnswerEffect
  <2>2. UNCHANGED <<offered, taken, reading, open>>
    BY <1>16, AnswerEffect DEF transports, server, packetVars
  <2>3. CASE s # x
    BY <1>2, <1>7, <2>1, <2>2, <2>3
  <2>4. CASE s = x
    <3>1. downQueue'[s] = Tail(downQueue[s])
      BY <1>2, <2>1, <2>4
    <3> DEFINE q == downQueue[s]
               n == taken["down"][s]
               sent == offered["down"][s]
    <3> HIDE DEF q, n, sent
    <3>2. /\ Follows(q, sent, n) => Follows(Tail(q), sent, n)
          /\ Complete(q, sent, n) => Complete(Tail(q), sent, n)
      BY <1>3, <2>1, <2>4, FollowsTail DEF q, n
    <3> QED
      BY <1>6, <2>2, <2>4, <3>1, <3>2 DEF q, n, sent, Goal
  <2> QED BY <2>3, <2>4
<1>17. ASSUME NEW x \in Sessions, ClientPacket(x)
       PROVE  Goal
  <2>1. /\ downQueue[x] # <<>> /\ ~Control(Head(downQueue[x]))
        /\ downQueue' = [downQueue EXCEPT ![x] = Tail(@)]
        /\ taken' = [taken EXCEPT !["down"][x] = @ + 1] /\ offered' = offered
    BY <1>17, ClientPacketEffect
  <2>2. UNCHANGED <<reading, open>>
    BY <1>17 DEF ClientPacket, client, server, transports
  <2>3. CASE s # x
    <3>1. downQueue'[s] = downQueue[s] /\ taken'["down"][s] = taken["down"][s]
      BY <1>2, <2>1, <2>3
    <3> QED BY <1>7, <2>1, <2>2, <3>1
  <2>4. CASE s = x
    <3>1. downQueue'[s] = Tail(downQueue[s]) /\ taken'["down"][s] = taken["down"][s] + 1
      BY <1>2, <2>1, <2>4
    <3> DEFINE q == downQueue[s]
               n == taken["down"][s]
               sent == offered["down"][s]
    <3> HIDE DEF q, n, sent
    <3>2. /\ Follows(q, sent, n) => Follows(Tail(q), sent, n + 1)
          /\ Complete(q, sent, n) => Complete(Tail(q), sent, n + 1)
      BY <1>3, <2>1, <2>4, FollowsTail DEF q, n
    <3> QED
      BY <1>6, <2>1, <2>2, <2>4, <3>1, <3>2 DEF q, n, sent, Goal
  <2> QED BY <2>3, <2>4
<1>18. ASSUME NEW x \in Sessions, ServerPacket(x)
       PROVE  Goal
  <2>1. /\ taken' = [taken EXCEPT !["up"][x] = @ + 1] /\ offered' = offered
        /\ downQueue' = downQueue
    BY <1>18, ServerPacketEffect
  <2>2. UNCHANGED <<reading, open>>
    BY <1>18 DEF ServerPacket, client, server, transports
  <2>3. taken'["down"][s] = taken["down"][s]
    BY <1>2, <2>1
  <2> QED BY <1>7, <2>1, <2>2, <2>3
<1>19. ASSUME UNCHANGED vars
       PROVE  Goal
  <2>1. UNCHANGED <<downQueue, offered, taken, reading, open>>
    BY <1>19 DEF vars, client, transports, server, links, packetVars
  <2> QED BY <1>7, <2>1
<1>20. Goal
  BY <1>8, <1>9, <1>10, <1>11, <1>12, <1>13, <1>14, <1>15, <1>16, <1>17, <1>18, <1>19 DEF Next
<1> QED BY <1>20 DEF Goal

----------------------------------------------------------------------------
(* Theorems.                                                               *)

\* The invariant: what is queued is what was offered and is not taken yet, frames are what
\* their senders built, and every connection asks and is answered once.
THEOREM Invariant == Spec => []IInv
<1>1. Init => IInv
  BY InitInv
<1>2. IInv /\ [Next]_vars => IInv'
  <2> SUFFICES ASSUME IInv, [Next]_vars PROVE IInv'
    OBVIOUS
  <2>1. InOrder'
    BY UpStep, DownStep DEF InOrder
  <2>2. Addressed'
    BY AddressedStep DEF IInv
  <2> QED
    BY <2>1, <2>2, TypeStep, WellFormedStep, AheadStep, AskedOnceStep, JudgedStep DEF IInv
<1> QED
  BY <1>1, <1>2, PTL DEF Spec

\* Types, for any number of connections and packets: in particular a TUN thread never
\* holds more than one packet, and no frame has a header byte out of range.
THEOREM TypeCorrect == Spec => []TunnelTypeOK
<1>1. IInv => TunnelTypeOK
  BY DEF IInv
<1> QED
  BY <1>1, Invariant, PTL

\* dispatch_packet makes of every frame in flight what build_packet was given, whatever
\* the MTU and the packet's size.
THEOREM FramesDecodeHolds == Spec => []FramesDecode
<1>1. ASSUME IInv, NEW s \in Sessions, NEW queue \in {upQueue[s], downQueue[s]},
             NEW i \in DOMAIN queue
      PROVE  dispatch_packet(queue[i]) =
                 {[type |-> queue[i].header[1], payload |-> queue[i].payload]}
  <2>1. TunnelTypeOK /\ upQueue[s] \in Seq(UpFrames) /\ downQueue[s] \in Seq(DownFrames)
    BY <1>1 DEF IInv, WellFormed
  <2>2. queue[i] \in UpFrames \/ queue[i] \in DownFrames
    BY <2>1, ElementOfSeq, LenProperties
  <2>3. \A p \in Packets : dispatch_packet(PacketFrame(p)) =
            {[type |-> PacketFrame(p).header[1], payload |-> PacketFrame(p).payload]}
    BY PacketFrameFacts
  <2>4. /\ dispatch_packet(AskFrame) =
              {[type |-> AskFrame.header[1], payload |-> AskFrame.payload]}
        /\ dispatch_packet(AnswerFrame) =
              {[type |-> AnswerFrame.header[1], payload |-> AnswerFrame.payload]}
    BY <2>1, Configured, ControlFrameFacts
  <2> QED
    BY <2>2, <2>3, <2>4 DEF UpFrames, DownFrames
<1>2. IInv => FramesDecode
  BY <1>1 DEF FramesDecode
<1> QED
  BY <1>2, Invariant, PTL

\* verify_auth_token never errs in the client's favour, and with clocks a window away
\* from the ends of the word, of whatever width, it is right.
THEOREM VerdictExactHolds == Spec => []VerdictExact
<1>1. ASSUME IInv, NEW s \in Sessions, verdict[s] # "none"
      PROVE  /\ verdict[s] = "yes" => serverSecret \in {NoSecret, clientSecret}
             /\ Plausible(clientClock) /\ Plausible(serverClock) =>
                    verdict[s] = IF serverSecret \in {NoSecret, clientSecret} THEN "yes" ELSE "no"
  <2>1. clientClock \in Int /\ serverClock \in Int
    BY <1>1, Configured DEF IInv
  <2>2. verdict[s] = Verdict(serverSecret, build_auth_token(clientSecret, clientClock),
                             clientClock, serverClock)
    BY <1>1 DEF IInv, Judged
  <2> QED
    BY <2>1, <2>2, VerdictIs
<1>2. IInv => VerdictExact
  BY <1>1 DEF VerdictExact
<1> QED
  BY <1>2, Invariant, PTL

\* The device's address is the current connection's, whatever old transports report,
\* unless on_packet has taken the answer of one that was given up.
THEOREM AddressOfCurrentHolds == Spec => []AddressOfCurrent
<1>1. IInv => AddressOfCurrent
  BY DEF IInv, Addressed, AddressOfCurrent
<1> QED
  BY <1>1, Invariant, PTL

----------------------------------------------------------------------------
(* The refinement.                                                         *)

\* handle_packet lets one connection in, or none.
LEMMA AuthAdmits ==
    ASSUME IInv, NEW s \in Sessions, ServerAuth(s)
    PROVE  Virtual!Admit(s) \/ UNCHANGED Virtual!linkVars
<1>1. /\ verdict \in [Sessions -> {"none", "yes", "no", "never"}]
      /\ verdict[s] = "none" /\ UNCHANGED packetVars
      /\ \E v \in {"yes", "no", "never"} : verdict' = [verdict EXCEPT ![s] = v]
  <2>1. verdict \in [Sessions -> {"none", "yes", "no", "never"}]
    BY DEF IInv, TunnelTypeOK
  <2>2. verdict'[s] \in {"yes", "no", "never"} /\ verdict[s] = "none"
    BY AuthEffect
  <2>3. PICK v : verdict' = [verdict EXCEPT ![s] = v]
    BY AuthEffect
  <2>4. v \in {"yes", "no", "never"}
    BY <2>1, <2>2, <2>3
  <2>5. UNCHANGED packetVars
    BY AuthOutcome
  <2> QED
    BY <2>1, <2>2, <2>3, <2>4, <2>5
<1>2. PICK v \in {"yes", "no", "never"} : verdict' = [verdict EXCEPT ![s] = v]
  BY <1>1
<1>3. UNCHANGED <<offered, taken, arrived>>
  BY <1>1 DEF packetVars
<1>4. \A l \in Sessions : verdict'[l] = IF l = s THEN v ELSE verdict[l]
  BY <1>1, <1>2
<1>5. Admitted' = IF v = "yes" THEN Admitted \cup {s} ELSE Admitted
  <2>1. \A l : l \in Admitted' <=> l \in Sessions /\ verdict'[l] = "yes"
    BY DEF Admitted
  <2>2. \A l : l \in Admitted <=> l \in Sessions /\ verdict[l] = "yes"
    BY DEF Admitted
  <2>3. CASE v = "yes"
    <3>1. \A l : l \in Admitted' <=> l \in Admitted \/ l = s
      BY <1>4, <2>1, <2>2, <2>3
    <3> QED BY <2>3, <3>1
  <2>4. CASE v # "yes"
    <3>1. \A l : l \in Admitted' <=> l \in Admitted
      BY <1>1, <1>4, <2>1, <2>2, <2>4
    <3> QED BY <2>4, <3>1
  <2> QED BY <2>3, <2>4
<1> QED
  BY <1>3, <1>5 DEF Virtual!Admit, Virtual!linkVars

\* Everything else that happens to packets is a step of the link.
LEMMA PacketsAreTheLinks ==
    ASSUME IInv, NEW s \in Sessions,
           ClientTunSend(s) \/ ServerTun(s) \/ ServerPacket(s) \/ ClientPacket(s)
    PROVE  [Virtual!LinkNext]_(Virtual!linkVars)
<1>1. "up" \in Virtual!Directions /\ "down" \in Virtual!Directions /\ "up" # "down"
  BY DEF Virtual!Directions
<1>2. /\ TunnelTypeOK /\ WellFormed
      /\ \A d \in Virtual!Directions : \A l \in Sessions :
            taken[d][l] \in Nat /\ Len(offered[d][l]) \in Nat
  BY LenProperties DEF IInv, WellFormed
<1>3. verdict' = verdict => Admitted' = Admitted
  BY DEF Admitted
<1>4. CASE ClientTunSend(s)
  <2>1. Admitted' = Admitted
    BY <1>3, <1>4 DEF ClientTunSend, server
  <2>2. CASE UNCHANGED <<links, packetVars>>
    BY <2>1, <2>2 DEF packetVars, Virtual!linkVars
  <2>3. ASSUME current \in Sessions, NEW p \in Packets,
               offered' = [offered EXCEPT !["up"][current] = Append(@, p)],
               UNCHANGED <<taken, arrived>>
        PROVE  Virtual!LinkNext
    <3>1. Virtual!Offer("up", current, p)
      BY <1>1, <2>1, <2>3 DEF Virtual!Offer
    <3> QED
      BY <1>1, <2>3, <3>1 DEF Virtual!LinkNext
  <2> QED
    BY <1>2, <1>4, <2>2, <2>3, TunSendEffect
<1>5. CASE ServerTun(s)
  <2>1. Admitted' = Admitted
    BY <1>3, <1>5 DEF ServerTun, server
  <2>2. PICK p \in Packets :
           /\ p.word = VipOf(s)
           /\ offered' = [offered EXCEPT !["down"][s] = Append(@, p)]
           /\ UNCHANGED <<taken, arrived>>
    BY <1>5, ServerTunEffect
  <2>3. s \in Admitted
    BY <1>5, ServerTunEffect DEF Admitted
  <2>4. Virtual!Offer("down", s, p)
    BY <2>1, <2>2, <2>3 DEF Virtual!Offer
  <2> QED
    BY <1>1, <2>4 DEF Virtual!LinkNext
<1>6. ASSUME NEW d \in Virtual!Directions, verdict' = verdict,
             taken[d][s] + 1 \in 1 .. Len(offered[d][s]),
             taken' = [taken EXCEPT ![d][s] = @ + 1], offered' = offered,
             \/ arrived' = arrived
             \/ /\ verdict[s] = "yes"
                /\ arrived' = [arrived EXCEPT ![d][s] =
                                 Append(@, offered[d][s][taken[d][s] + 1])]
      PROVE  Virtual!LinkNext
  <2>1. Virtual!Take(d, s)
    BY <1>2, <1>3, <1>6 DEF Virtual!Take
  <2>2. CASE arrived' = arrived
    <3>1. Virtual!Lose(d, s)
      BY <2>1, <2>2 DEF Virtual!Lose
    <3> QED BY <1>6, <3>1 DEF Virtual!LinkNext
  <2>3. CASE /\ verdict[s] = "yes"
             /\ arrived' = [arrived EXCEPT ![d][s] = Append(@, offered[d][s][taken[d][s] + 1])]
    <3>1. Virtual!Pass(d, s)
      BY <2>1, <2>3 DEF Virtual!Pass, Admitted
    <3> QED BY <1>6, <3>1 DEF Virtual!LinkNext
  <2> QED BY <1>6, <2>2, <2>3
<1>7. CASE ServerPacket(s)
  <2>1. verdict' = verdict
    BY <1>7 DEF ServerPacket, server
  <2> QED BY <1>1, <1>6, <1>7, <2>1, ServerPacketEffect
<1>8. CASE ClientPacket(s)
  <2>1. verdict' = verdict
    BY <1>8 DEF ClientPacket, server
  <2> QED BY <1>1, <1>6, <1>8, <2>1, ClientPacketEffect
<1> QED
  BY <1>4, <1>5, <1>7, <1>8

\* The tunnel is a VirtualLink, for any number of connections and packets: whatever ends
\* fail and when, whichever transport ws_ stands for when a TUN thread sends what it
\* holds, and whatever prefix utun puts before a packet, none reaches the other host
\* changed, twice, out of order, from a client not let in or for another's address.
THEOREM TunnelImplementsVirtualLink == Spec => ImplementsVirtualLink
<1>1. Init => Virtual!LinkInit
  BY DEF Init
<1>2. ASSUME IInv, [Next]_vars
      PROVE  [Virtual!LinkNext]_(Virtual!linkVars)
  <2>1. CASE \E s \in Sessions : ServerAuth(s)
    BY <1>2, <2>1, AuthAdmits DEF Virtual!LinkNext
  <2>2. CASE \E s \in Sessions : \/ ClientTunSend(s) \/ ServerTun(s)
                                 \/ ServerPacket(s) \/ ClientPacket(s)
    BY <1>2, <2>2, PacketsAreTheLinks
  <2>3. CASE verdict' = verdict /\ UNCHANGED packetVars
    BY <2>3 DEF Admitted, packetVars, Virtual!linkVars
  <2> QED
    BY <1>2, <2>1, <2>2, <2>3, VerdictMoves, PacketMoves
<1> QED
  BY <1>1, <1>2, Invariant, PTL DEF Spec, ImplementsVirtualLink, Virtual!LinkSpec

LinkP == INSTANCE VirtualLinkProofs WITH Links <- Sessions, admitted <- Admitted

\* So the tunnel has what VirtualLinkProofs proves of every virtual link: for any number of
\* connections, of any sizes of packets and clocks, what TUN threads and handle_packet have
\* written is, connection by connection, what was read at the other end, in order and none
\* twice, with some left out.
COROLLARY PacketsInOrderHolds == Spec => []PacketsInOrder
<1>1. Virtual!LinkSpec => LinkP!LinkSpec
  <2>1. Virtual!LinkInit => LinkP!LinkInit
    BY DEF Virtual!LinkInit, LinkP!LinkInit, Virtual!Directions, LinkP!Directions
  <2>2. [Virtual!LinkNext]_(Virtual!linkVars) => [LinkP!LinkNext]_(LinkP!linkVars)
    BY DEF Virtual!LinkNext, LinkP!LinkNext, Virtual!linkVars, LinkP!linkVars,
           Virtual!Admit, LinkP!Admit, Virtual!Offer, LinkP!Offer, Virtual!Take, LinkP!Take,
           Virtual!Lose, LinkP!Lose, Virtual!Pass, LinkP!Pass, Virtual!Directions, LinkP!Directions
  <2> QED
    BY <2>1, <2>2, PTL DEF Virtual!LinkSpec, LinkP!LinkSpec
<1>2. LinkP!DeliveredInOrder => PacketsInOrder
  BY DEF PacketsInOrder, Virtual!DeliveredInOrder, LinkP!DeliveredInOrder,
         Virtual!LossyPrefix, LinkP!LossyPrefix, Virtual!Directions, LinkP!Directions
<1> QED
  BY <1>1, <1>2, TunnelImplementsVirtualLink, LinkP!DeliveredInOrderHolds, PTL
     DEF ImplementsVirtualLink
=============================================================================
