----------------------------- MODULE WireProofs -----------------------------
(***************************************************************************)
(* The frame codec, for every length.                                      *)
(***************************************************************************)
EXTENDS Wire, TLAPS

\* The largest payload is a number of two bytes.
LEMMA MaxPayload == MAX_PAYLOAD \in Nat /\ 1 <= MAX_PAYLOAD /\ MAX_PAYLOAD <= 65535
BY DEF MAX_PAYLOAD

\* So is every length that a header may announce.
LEMMA Lengths ==
    ASSUME NEW n \in 0 .. MAX_PAYLOAD
    PROVE  n \in Int /\ 0 <= n /\ n <= 65535 /\ n <= MAX_PAYLOAD /\ ~(n > MAX_PAYLOAD)
BY MaxPayload

\* serialize_header writes what deserialize_header reads, for every type and every length
\* up to MAX_PAYLOAD.
THEOREM HeaderRoundTrip ==
    ASSUME NEW type \in 1 .. 8, NEW n \in 0 .. MAX_PAYLOAD
    PROVE  deserialize_header(serialize_header(type, n)) = {[type |-> type, length |-> n]}
<1> DEFINE h == serialize_header(type, n)
<1>1. /\ Len(h) = HEADER_SIZE
      /\ h[1] = type
      /\ h[2] = (n \div 16777216) % 256 /\ h[3] = (n \div 65536) % 256
      /\ h[4] = (n \div 256) % 256 /\ h[5] = n % 256
  BY DEF serialize_header, HEADER_SIZE
<1>2. (n \div 16777216) % 256 = 0 /\ (n \div 65536) % 256 = 0
  <2>1. n \in Int /\ 0 <= n /\ n <= 65535
    BY Lengths
  <2>2. n \div 16777216 = 0 /\ n \div 65536 = 0
    BY <2>1
  <2> QED BY <2>2
<1>3. ((n \div 256) % 256) * 256 + (n % 256) = n
  <2>1. n \in Int /\ 0 <= n /\ n <= 65535
    BY Lengths
  <2> DEFINE q == n \div 256
             r == n % 256
  <2>2. q \in Int /\ r \in Int /\ n = 256 * q + r /\ 0 <= r /\ r < 256
    BY <2>1
  <2>3. 0 <= q /\ q < 256
    <3> HIDE DEF q, r
    <3> QED BY <2>1, <2>2
  <2>4. q % 256 = q
    <3> HIDE DEF q, r
    <3> QED BY <2>2, <2>3
  <2> HIDE DEF q, r
  <2>5. (q % 256) * 256 + r = n
    BY <2>1, <2>2, <2>4
  <2> QED BY <2>5 DEF q, r
<1>4. Announced(h) = n
  <2> HIDE DEF h
  <2>1. n \in Int /\ n \div 256 \in Int
    BY Lengths
  <2>2. h[4] \in Int /\ h[5] \in Int /\ h[4] * 256 + h[5] = n
    BY <1>1, <1>3, <2>1
  <2>3. h[2] = 0 /\ h[3] = 0
    BY <1>1, <1>2
  <2> QED BY <2>2, <2>3 DEF Announced
<1>5. ~(Len(h) < HEADER_SIZE \/ Announced(h) > MAX_PAYLOAD)
  <2> HIDE DEF h
  <2> QED BY <1>1, <1>4, Lengths DEF HEADER_SIZE
<1> HIDE DEF h
<1> QED BY <1>1, <1>4, <1>5 DEF deserialize_header, h

\* What build_packet makes of a payload, dispatch_packet hands on as it was.
THEOREM FrameDecodes ==
    ASSUME NEW type \in 1 .. 8, NEW b, NEW n \in 0 .. MAX_PAYLOAD, Length(b) = n
    PROVE  dispatch_packet(build_packet(type, b)) = {[type |-> type, payload |-> b]}
<1> DEFINE f == build_packet(type, b)
           h == [type |-> type, length |-> n]
<1>1. n \in Int
  BY Lengths
<1>2. f.payload = b /\ f.header = serialize_header(type, n)
  BY DEF build_packet
<1>3. Cut(b, n) = b
  BY <1>1 DEF Cut
<1> HIDE DEF f
<1>4. Length(f.payload) = n
  BY <1>2
<1>5. deserialize_header(f.header) = {h}
  BY <1>1, <1>2, HeaderRoundTrip
<1>6. {g \in deserialize_header(f.header) : Length(f.payload) >= g.length} = {h}
  BY <1>1, <1>4, <1>5
<1>7. dispatch_packet(f) = {[type |-> g.type, payload |-> Cut(f.payload, g.length)] : g \in {h}}
  BY <1>6 DEF dispatch_packet
<1>8. dispatch_packet(f) = {[type |-> type, payload |-> b]}
  BY <1>2, <1>3, <1>7
<1> QED BY <1>8 DEF f

\* build_packet and dispatch_packet are inverse to each other on every payload a frame
\* can carry.
THEOREM RoundTripHolds == RoundTrip
<1> SUFFICES ASSUME NEW type \in 1 .. 8, NEW n \in 0 .. MAX_PAYLOAD
             PROVE  LET b == Whole([size |-> n])
                    IN  dispatch_packet(build_packet(type, b)) = {[type |-> type, payload |-> b]}
  BY DEF RoundTrip
<1>1. Length(Whole([size |-> n])) = n
  BY Lengths DEF Length, Whole
<1> QED BY <1>1, FrameDecodes
=============================================================================
