------------------------- MODULE VirtualLinkProofs -------------------------
(***************************************************************************)
(* What follows from VirtualLink for any links, packets and addresses.     *)
(* The specification says what a step may do; DeliveredInOrder says what   *)
(* two hosts find after any number of steps.  It is not inductive: that a  *)
(* client gets only packets for its address depends on what was offered to *)
(* it (Addressed).                                                         *)
(***************************************************************************)
EXTENDS VirtualLink, SequenceTheorems, TLAPS

----------------------------------------------------------------------------
(* Sequences with elements left out.                                       *)

\* Nothing, of whatever was given.
LEMMA LossyEmpty ==
    ASSUME NEW got, NEW given, Len(got) = 0, Len(given) = 0
    PROVE  LossyPrefix(got, given, 0)
<1> DEFINE places == 1 .. Len(got)
           none   == [i \in places |-> 0]
<1>1. none = [i \in places |-> none[i]]
  OBVIOUS
<1>2. \A i \in places : FALSE
  OBVIOUS
<1> HIDE DEF places, none
<1>3. none \in [places -> 1 .. 0]
  BY <1>1, <1>2
<1>4. /\ \A i, j \in places : i < j => none[i] < none[j]
      /\ \A i \in places : got[i] = given[none[i]]
  BY <1>2
<1>5. \E place \in [places -> 1 .. 0] :
          /\ \A i, j \in places : i < j => place[i] < place[j]
          /\ \A i \in places : got[i] = given[place[i]]
  BY <1>3, <1>4
<1>6. 0 <= Len(given)
  OBVIOUS
<1> QED
  BY <1>5, <1>6 DEF LossyPrefix, places

\* One more element is given: nothing got so far moves.
LEMMA LossyOffer ==
    ASSUME NEW S, NEW got \in Seq(S), NEW given \in Seq(S), NEW n \in Nat, NEW p \in S,
           LossyPrefix(got, given, n)
    PROVE  LossyPrefix(got, Append(given, p), n)
<1>1. PICK place \in [1 .. Len(got) -> 1 .. n] :
          /\ \A i, j \in 1 .. Len(got) : i < j => place[i] < place[j]
          /\ \A i \in 1 .. Len(got) : got[i] = given[place[i]]
  BY DEF LossyPrefix
<1>2. n <= Len(given) /\ Len(given) \in Nat
  BY LenProperties DEF LossyPrefix
<1>3. /\ Len(Append(given, p)) = Len(given) + 1
      /\ \A i \in 1 .. Len(given) : Append(given, p)[i] = given[i]
  BY AppendProperties
<1>4. n <= Len(Append(given, p))
  BY <1>2, <1>3
<1>5. ASSUME NEW i \in 1 .. Len(got)
      PROVE  got[i] = Append(given, p)[place[i]]
  <2>1. place[i] \in 1 .. n /\ got[i] = given[place[i]]
    BY <1>1
  <2>2. place[i] \in 1 .. Len(given)
    BY <1>2, <2>1
  <2> QED
    BY <1>3, <2>1, <2>2
<1> QED
  BY <1>1, <1>4, <1>5 DEF LossyPrefix

\* The next element given is left out.
LEMMA LossyLose ==
    ASSUME NEW S, NEW got \in Seq(S), NEW given \in Seq(S), NEW n \in Nat, n < Len(given),
           LossyPrefix(got, given, n)
    PROVE  LossyPrefix(got, given, n + 1)
<1>1. PICK place \in [1 .. Len(got) -> 1 .. n] :
          /\ \A i, j \in 1 .. Len(got) : i < j => place[i] < place[j]
          /\ \A i \in 1 .. Len(got) : got[i] = given[place[i]]
  BY DEF LossyPrefix
<1>2. place \in [1 .. Len(got) -> 1 .. n + 1]
  <2>1. 1 .. n \subseteq 1 .. n + 1
    OBVIOUS
  <2> QED
    BY <2>1
<1>3. n + 1 <= Len(given)
  BY LenProperties
<1> QED
  BY <1>1, <1>2, <1>3 DEF LossyPrefix

\* The next element given is got: it stands behind all that were.
LEMMA LossyPass ==
    ASSUME NEW S, NEW got \in Seq(S), NEW given \in Seq(S), NEW n \in Nat, n < Len(given),
           LossyPrefix(got, given, n)
    PROVE  LossyPrefix(Append(got, given[n + 1]), given, n + 1)
<1>1. PICK place \in [1 .. Len(got) -> 1 .. n] :
          /\ \A i, j \in 1 .. Len(got) : i < j => place[i] < place[j]
          /\ \A i \in 1 .. Len(got) : got[i] = given[place[i]]
  BY DEF LossyPrefix
<1> DEFINE e == given[n + 1]
           k == Len(got)
           longer == Append(got, e)
<1>2. e \in S /\ Len(given) \in Nat /\ k \in Nat
  BY ElementOfSeq, LenProperties
<1> HIDE DEF e
<1>3. /\ Len(longer) = k + 1
      /\ \A i \in 1 .. k : longer[i] = got[i]
      /\ longer[k + 1] = e
  BY <1>2, AppendProperties
<1> HIDE DEF longer, k
<1> DEFINE next == [i \in 1 .. k + 1 |-> IF i = k + 1 THEN n + 1 ELSE place[i]]
<1>4. \A i \in 1 .. k : place[i] \in 1 .. n /\ next[i] = place[i]
  BY <1>1, <1>2 DEF k
<1>5. next[k + 1] = n + 1
  BY <1>2
<1>6. \A i \in 1 .. k + 1 : i \in 1 .. k \/ i = k + 1
  BY <1>2
<1>7. next \in [1 .. k + 1 -> 1 .. n + 1]
  <2>1. next = [i \in 1 .. k + 1 |-> next[i]]
    OBVIOUS
  <2> HIDE DEF next
  <2>2. ASSUME NEW i \in 1 .. k + 1
        PROVE  next[i] \in 1 .. n + 1
    <3>1. CASE i \in 1 .. k
      BY <1>4, <3>1
    <3>2. CASE i = k + 1
      BY <1>5, <3>2
    <3> QED
      BY <1>6, <3>1, <3>2
  <2> QED
    BY <2>1, <2>2
<1> HIDE DEF next
<1>8. ASSUME NEW i \in 1 .. k + 1, NEW j \in 1 .. k + 1, i < j
      PROVE  next[i] < next[j]
  <2>1. i \in 1 .. k
    BY <1>2, <1>8
  <2>2. CASE j = k + 1
    BY <1>4, <1>5, <2>1, <2>2
  <2>3. CASE j \in 1 .. k
    BY <1>1, <1>4, <1>8, <2>1, <2>3 DEF k
  <2> QED
    BY <1>6, <2>2, <2>3
<1>9. ASSUME NEW i \in 1 .. k + 1
      PROVE  longer[i] = given[next[i]]
  <2>1. CASE i = k + 1
    BY <1>3, <1>5, <2>1 DEF e
  <2>2. CASE i \in 1 .. k
    BY <1>1, <1>3, <1>4, <2>2 DEF k
  <2> QED
    BY <1>6, <2>1, <2>2
<1>10. n + 1 <= Len(given)
  BY <1>2
<1>11. LossyPrefix(longer, given, n + 1)
  BY <1>3, <1>7, <1>8, <1>9, <1>10 DEF LossyPrefix
<1> QED
  BY <1>11 DEF longer, e

----------------------------------------------------------------------------
(* The inductive invariant.                                                *)

LinkTypeOK ==
    /\ admitted \subseteq Links
    /\ offered \in [Directions -> [Links -> Seq(Packets)]]
    /\ taken \in [Directions -> [Links -> Nat]]
    /\ arrived \in [Directions -> [Links -> Seq(Packets)]]

InOrder == \A l \in Links, d \in Directions : LossyPrefix(arrived[d][l], offered[d][l], taken[d][l])

LetIn == \A l \in Links : l \notin admitted => arrived["up"][l] = <<>> /\ offered["down"][l] = <<>>

Addressed ==
    \A l \in Links :
        /\ \A i \in 1 .. Len(offered["down"][l]) : offered["down"][l][i].word = VipOf(l)
        /\ \A i \in 1 .. Len(arrived["down"][l]) : arrived["down"][l][i].word = VipOf(l)

LinkInv == LinkTypeOK /\ InOrder /\ LetIn /\ Addressed

\* It holds at the start.
LEMMA LinkInitInv == LinkInit => LinkInv
<1> SUFFICES ASSUME LinkInit PROVE LinkInv
  OBVIOUS
<1>0. <<>> \in Seq(Packets) /\ Len(<<>>) = 0 /\ 0 \in Nat
  OBVIOUS
<1>1. LinkTypeOK
  BY <1>0 DEF LinkTypeOK, LinkInit
<1>2. ASSUME NEW l \in Links, NEW d \in Directions
      PROVE  offered[d][l] = <<>> /\ arrived[d][l] = <<>> /\ taken[d][l] = 0
  BY <1>2 DEF LinkInit
<1>3. InOrder
  BY <1>0, <1>2, LossyEmpty DEF InOrder
<1>4. LetIn
  BY <1>2 DEF LetIn, Directions
<1>5. Addressed
  <2>1. \A i \in 1 .. 0 : FALSE
    OBVIOUS
  <2> QED
    BY <1>0, <1>2, <2>1 DEF Addressed, Directions
<1> QED
  BY <1>1, <1>3, <1>4, <1>5 DEF LinkInv

\* An element of a sequence made longer is the new one or an old one.
LEMMA LongerElement ==
    ASSUME NEW S, NEW s \in Seq(S), NEW e \in S, NEW i \in 1 .. Len(Append(s, e))
    PROVE  Append(s, e)[i] = e \/ (i \in 1 .. Len(s) /\ Append(s, e)[i] = s[i])
<1>1. /\ Len(Append(s, e)) = Len(s) + 1
      /\ \A j \in 1 .. Len(s) : Append(s, e)[j] = s[j]
      /\ Append(s, e)[Len(s) + 1] = e
  BY AppendProperties
<1>2. Len(s) \in Nat
  BY LenProperties
<1>3. i \in 1 .. Len(s) \/ i = Len(s) + 1
  BY <1>1, <1>2
<1> QED
  BY <1>1, <1>3

\* A link in a direction is left alone by a step at another.
LEMMA Untouched ==
    ASSUME NEW S, NEW f \in [Directions -> [Links -> S]], NEW v \in S,
           NEW d \in Directions, NEW l \in Links
    PROVE  LET g == [f EXCEPT ![d][l] = v]
           IN  /\ g \in [Directions -> [Links -> S]]
               /\ g[d][l] = v
               /\ \A x \in Links, e \in Directions : x # l \/ e # d => g[e][x] = f[e][x]
OBVIOUS

\* The sequences of packets, one by one.
LEMMA LinkTypes ==
    ASSUME LinkTypeOK, NEW l \in Links, NEW d \in Directions
    PROVE  /\ offered[d][l] \in Seq(Packets) /\ arrived[d][l] \in Seq(Packets)
           /\ taken[d][l] \in Nat /\ Len(offered[d][l]) \in Nat
BY LenProperties DEF LinkTypeOK

\* A connection is let in: nothing moves.
LEMMA AdmitKeeps ==
    ASSUME LinkInv, NEW l \in Links, Admit(l)
    PROVE  LinkInv'
<1>1. LinkTypeOK'
  BY DEF LinkInv, LinkTypeOK, Admit
<1>2. InOrder'
  BY DEF LinkInv, InOrder, Admit
<1>3. LetIn'
  BY DEF LinkInv, LetIn, Admit
<1>4. Addressed'
  BY DEF LinkInv, Addressed, Admit
<1> QED
  BY <1>1, <1>2, <1>3, <1>4 DEF LinkInv

\* A packet is handed to a connection; downward, to one let in, for its own address.
LEMMA OfferKeeps ==
    ASSUME LinkInv, NEW d \in Directions, NEW l \in Links, NEW p \in Packets, Offer(d, l, p)
    PROVE  LinkInv'
<1> DEFINE more == Append(offered[d][l], p)
<1>1. LinkTypeOK /\ InOrder /\ LetIn /\ Addressed
  BY DEF LinkInv
<1>2. /\ offered' = [offered EXCEPT ![d][l] = more]
      /\ UNCHANGED <<admitted, taken, arrived>>
      /\ d = "down" => l \in admitted /\ p.word = VipOf(l)
  BY DEF Offer
<1>3. offered[d][l] \in Seq(Packets)
  BY <1>1, LinkTypes
<1>4. more \in Seq(Packets)
  BY <1>3, AppendProperties
<1> HIDE DEF more
<1>5. /\ offered' \in [Directions -> [Links -> Seq(Packets)]]
      /\ offered'[d][l] = more
      /\ \A x \in Links, e \in Directions : x # l \/ e # d => offered'[e][x] = offered[e][x]
  BY <1>1, <1>2, <1>4, Untouched DEF LinkTypeOK
<1>6. LinkTypeOK'
  BY <1>1, <1>2, <1>5 DEF LinkTypeOK
<1>7. ASSUME NEW x \in Links, NEW e \in Directions
      PROVE  LossyPrefix(arrived[e][x], offered'[e][x], taken[e][x])
  <2>1. LossyPrefix(arrived[e][x], offered[e][x], taken[e][x])
    BY <1>1 DEF InOrder
  <2>2. CASE x = l /\ e = d
    <3>1. arrived[d][l] \in Seq(Packets) /\ taken[d][l] \in Nat
      BY <1>1, LinkTypes
    <3>2. LossyPrefix(arrived[d][l], more, taken[d][l])
      BY <1>3, <2>1, <2>2, <3>1, LossyOffer DEF more
    <3> QED
      BY <1>5, <2>2, <3>2
  <2>3. CASE x # l \/ e # d
    BY <1>5, <2>1, <2>3
  <2> QED
    BY <2>2, <2>3
<1>8. InOrder'
  BY <1>2, <1>7 DEF InOrder
<1>9. LetIn'
  <2> SUFFICES ASSUME NEW x \in Links, x \notin admitted
               PROVE  arrived["up"][x] = <<>> /\ offered'["down"][x] = <<>>
    BY <1>2 DEF LetIn
  <2>1. x # l \/ "down" # d
    BY <1>2
  <2>2. offered'["down"][x] = offered["down"][x]
    BY <1>5, <2>1 DEF Directions
  <2> QED
    BY <1>1, <2>2 DEF LetIn
<1>10. Addressed'
  <2>1. ASSUME NEW x \in Links
        PROVE  \A i \in 1 .. Len(offered'["down"][x]) : offered'["down"][x][i].word = VipOf(x)
    <3>1. \A i \in 1 .. Len(offered["down"][x]) : offered["down"][x][i].word = VipOf(x)
      BY <1>1 DEF Addressed
    <3>2. CASE x = l /\ d = "down"
      <4>1. offered'["down"][x] = more
        BY <1>5, <3>2
      <4>2. ASSUME NEW i \in 1 .. Len(more)
            PROVE  more[i].word = VipOf(l)
        <5>1. more[i] = p \/ (i \in 1 .. Len(offered[d][l]) /\ more[i] = offered[d][l][i])
          BY <1>3, LongerElement DEF more
        <5> QED
          BY <1>2, <3>1, <3>2, <5>1
      <4> QED
        BY <3>2, <4>1, <4>2
    <3>3. CASE x # l \/ d # "down"
      <4>1. offered'["down"][x] = offered["down"][x]
        BY <1>5, <3>3 DEF Directions
      <4> QED
        BY <3>1, <4>1
    <3> QED
      BY <3>2, <3>3
  <2> QED
    BY <1>1, <1>2, <2>1 DEF Addressed
<1> QED
  BY <1>6, <1>8, <1>9, <1>10 DEF LinkInv

\* A packet is lost on the way.
LEMMA LoseKeeps ==
    ASSUME LinkInv, NEW d \in Directions, NEW l \in Links, Lose(d, l)
    PROVE  LinkInv'
<1>1. LinkTypeOK /\ InOrder /\ LetIn /\ Addressed
  BY DEF LinkInv
<1>2. /\ taken[d][l] < Len(offered[d][l])
      /\ taken' = [taken EXCEPT ![d][l] = taken[d][l] + 1]
      /\ UNCHANGED <<admitted, offered, arrived>>
  BY DEF Lose, Take
<1>3. taken[d][l] + 1 \in Nat
  BY <1>1, LinkTypes
<1>4. /\ taken' \in [Directions -> [Links -> Nat]]
      /\ taken'[d][l] = taken[d][l] + 1
      /\ \A x \in Links, e \in Directions : x # l \/ e # d => taken'[e][x] = taken[e][x]
  BY <1>1, <1>2, <1>3, Untouched DEF LinkTypeOK
<1>5. LinkTypeOK'
  BY <1>1, <1>2, <1>4 DEF LinkTypeOK
<1>6. ASSUME NEW x \in Links, NEW e \in Directions
      PROVE  LossyPrefix(arrived[e][x], offered[e][x], taken'[e][x])
  <2>1. LossyPrefix(arrived[e][x], offered[e][x], taken[e][x])
    BY <1>1 DEF InOrder
  <2>2. CASE x = l /\ e = d
    <3>1. /\ offered[d][l] \in Seq(Packets) /\ arrived[d][l] \in Seq(Packets)
          /\ taken[d][l] \in Nat
      BY <1>1, LinkTypes
    <3>2. LossyPrefix(arrived[d][l], offered[d][l], taken[d][l] + 1)
      BY <1>2, <2>1, <2>2, <3>1, LossyLose
    <3> QED
      BY <1>4, <2>2, <3>2
  <2>3. CASE x # l \/ e # d
    BY <1>4, <2>1, <2>3
  <2> QED
    BY <2>2, <2>3
<1>7. InOrder'
  BY <1>2, <1>6 DEF InOrder
<1>8. LetIn' /\ Addressed'
  BY <1>1, <1>2 DEF LetIn, Addressed
<1> QED
  BY <1>5, <1>7, <1>8 DEF LinkInv

\* A packet arrives: it is the next that was handed over, of a connection let in.
LEMMA PassKeeps ==
    ASSUME LinkInv, NEW d \in Directions, NEW l \in Links, Pass(d, l)
    PROVE  LinkInv'
<1> DEFINE packet == offered[d][l][taken[d][l] + 1]
           more   == Append(arrived[d][l], packet)
<1>1. LinkTypeOK /\ InOrder /\ LetIn /\ Addressed
  BY DEF LinkInv
<1>2. /\ taken[d][l] < Len(offered[d][l])
      /\ taken' = [taken EXCEPT ![d][l] = taken[d][l] + 1]
      /\ arrived' = [arrived EXCEPT ![d][l] = more]
      /\ UNCHANGED <<admitted, offered>>
      /\ l \in admitted
  BY DEF Pass, Take
<1>3. /\ offered[d][l] \in Seq(Packets) /\ arrived[d][l] \in Seq(Packets)
      /\ taken[d][l] \in Nat /\ taken[d][l] + 1 \in Nat
      /\ taken[d][l] + 1 \in 1 .. Len(offered[d][l])
  BY <1>1, <1>2, LinkTypes
<1>4. packet \in Packets
  BY <1>3, ElementOfSeq
<1>5. LossyPrefix(more, offered[d][l], taken[d][l] + 1)
  <2>1. LossyPrefix(arrived[d][l], offered[d][l], taken[d][l])
    BY <1>1 DEF InOrder
  <2> QED
    BY <1>2, <1>3, <2>1, LossyPass
<1>6. d = "down" => packet.word = VipOf(l)
  BY <1>1, <1>3 DEF Addressed
<1> HIDE DEF packet
<1>7. more \in Seq(Packets)
  BY <1>3, <1>4, AppendProperties
<1> HIDE DEF more
<1>8. /\ taken' \in [Directions -> [Links -> Nat]]
      /\ taken'[d][l] = taken[d][l] + 1
      /\ \A x \in Links, e \in Directions : x # l \/ e # d => taken'[e][x] = taken[e][x]
  BY <1>1, <1>2, <1>3, Untouched DEF LinkTypeOK
<1>9. /\ arrived' \in [Directions -> [Links -> Seq(Packets)]]
      /\ arrived'[d][l] = more
      /\ \A x \in Links, e \in Directions : x # l \/ e # d => arrived'[e][x] = arrived[e][x]
  BY <1>1, <1>2, <1>7, Untouched DEF LinkTypeOK
<1>10. LinkTypeOK'
  BY <1>1, <1>2, <1>8, <1>9 DEF LinkTypeOK
<1>11. ASSUME NEW x \in Links, NEW e \in Directions
       PROVE  LossyPrefix(arrived'[e][x], offered[e][x], taken'[e][x])
  <2>1. CASE x = l /\ e = d
    BY <1>5, <1>8, <1>9, <2>1
  <2>2. CASE x # l \/ e # d
    <3>1. LossyPrefix(arrived[e][x], offered[e][x], taken[e][x])
      BY <1>1 DEF InOrder
    <3> QED
      BY <1>8, <1>9, <2>2, <3>1
  <2> QED
    BY <2>1, <2>2
<1>12. InOrder'
  BY <1>2, <1>11 DEF InOrder
<1>13. LetIn'
  <2> SUFFICES ASSUME NEW x \in Links, x \notin admitted
               PROVE  arrived'["up"][x] = <<>> /\ offered["down"][x] = <<>>
    BY <1>2 DEF LetIn
  <2>1. arrived'["up"][x] = arrived["up"][x]
    BY <1>2, <1>9 DEF Directions
  <2> QED
    BY <1>1, <2>1 DEF LetIn
<1>14. Addressed'
  <2>1. ASSUME NEW x \in Links
        PROVE  \A i \in 1 .. Len(arrived'["down"][x]) : arrived'["down"][x][i].word = VipOf(x)
    <3>1. \A i \in 1 .. Len(arrived["down"][x]) : arrived["down"][x][i].word = VipOf(x)
      BY <1>1 DEF Addressed
    <3>2. CASE x = l /\ d = "down"
      <4>1. arrived'["down"][x] = more
        BY <1>9, <3>2
      <4>2. ASSUME NEW i \in 1 .. Len(more)
            PROVE  more[i].word = VipOf(l)
        <5>1. more[i] = packet \/ (i \in 1 .. Len(arrived[d][l]) /\ more[i] = arrived[d][l][i])
          <6>1. arrived[d][l] \in Seq(Packets)
            BY <1>3
          <6>2. i \in 1 .. Len(Append(arrived[d][l], packet))
            BY DEF more
          <6> QED
            BY <1>4, <6>1, <6>2, LongerElement DEF more
        <5> QED
          BY <1>6, <3>1, <3>2, <5>1
      <4> QED
        BY <3>2, <4>1, <4>2
    <3>3. CASE x # l \/ d # "down"
      <4>1. arrived'["down"][x] = arrived["down"][x]
        BY <1>9, <3>3 DEF Directions
      <4> QED
        BY <3>1, <4>1
    <3> QED
      BY <3>2, <3>3
  <2> QED
    BY <1>1, <1>2, <2>1 DEF Addressed
<1> QED
  BY <1>10, <1>12, <1>13, <1>14 DEF LinkInv

\* Every step keeps the invariant.
LEMMA LinkStep == LinkInv /\ [LinkNext]_linkVars => LinkInv'
<1> SUFFICES ASSUME LinkInv, [LinkNext]_linkVars PROVE LinkInv'
  OBVIOUS
<1>1. CASE UNCHANGED linkVars
  BY <1>1 DEF linkVars, LinkInv, LinkTypeOK, InOrder, LetIn, Addressed
<1>2. CASE LinkNext
  BY <1>2, AdmitKeeps, OfferKeeps, LoseKeeps, PassKeeps DEF LinkNext
<1> QED
  BY <1>1, <1>2

----------------------------------------------------------------------------
(* The theorem.                                                            *)

\* For any links, packets and addresses: what has arrived is what was handed over, in
\* order and none twice, with some left out; up, only from connections let in; down, only
\* what is for the client's own address.
THEOREM DeliveredInOrderHolds == LinkSpec => []DeliveredInOrder
<1>1. LinkInv => DeliveredInOrder
  BY DEF LinkInv, InOrder, LetIn, Addressed, DeliveredInOrder
<1> QED
  BY <1>1, LinkInitInv, LinkStep, PTL DEF LinkSpec
=============================================================================
