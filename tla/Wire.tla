-------------------------------- MODULE Wire --------------------------------
(***************************************************************************)
(* What happens to a packet's bytes between two TUN devices: the frame     *)
(* header (src/common/protocol.hpp), dispatch_packet                       *)
(* (src/transport/ws_transport.cpp) and the 4-byte address family of a     *)
(* macOS utun device (src/tun/tun_macos.cpp).                              *)
(*                                                                         *)
(* A string of bytes is [of, lead, size]: "size" first bytes of the packet *)
(* "of", behind "lead" bytes of an address family.  A JSON document is a   *)
(* packet, too, of one byte.  A frame is a header, byte for byte, and such *)
(* a string.  An optional value is a set of at most one.                   *)
(***************************************************************************)
EXTENDS Integers, Sequences

HEADER_SIZE      == 5
MAX_PAYLOAD      == 65535
UTUN_HEADER_SIZE == 4
IP4_HEADER_SIZE  == 20
BUFFER_SLACK     == 64

MsgType == [AuthRequest |-> 1, AuthResponse |-> 2, IpPacket |-> 3]

Platforms == {"linux", "macos"}

Whole(p)   == [of |-> p, lead |-> 0, size |-> p.size]
Length(b)  == b.lead + b.size
Cut(b, n)  == IF Length(b) <= n THEN b ELSE [b EXCEPT !.size = n - b.lead]
Shift(b, n) == [b EXCEPT !.lead = @ + n]

----------------------------------------------------------------------------
(* Frames.                                                                 *)

\* Four bytes, the most significant first.
serialize_header(type, length) ==
    <<type, (length \div 16777216) % 256, (length \div 65536) % 256,
      (length \div 256) % 256, length % 256>>

Announced(h) == h[2] * 16777216 + h[3] * 65536 + h[4] * 256 + h[5]

\* Broken variant: the largest payload is refused.
deserialize_header_BelowMax(h) ==
    IF Len(h) < HEADER_SIZE \/ Announced(h) >= MAX_PAYLOAD
    THEN {} ELSE {[type |-> h[1], length |-> Announced(h)]}

deserialize_header(h) ==
    IF Len(h) < HEADER_SIZE \/ Announced(h) > MAX_PAYLOAD
    THEN {} ELSE {[type |-> h[1], length |-> Announced(h)]}

\* Throws if the payload is longer than MAX_PAYLOAD; no caller in this model gets there.
build_packet(type, b) == [header |-> serialize_header(type, Length(b)), payload |-> b]

\* Broken variant: a frame must be longer than its header says.
dispatch_packet_Longer(f) ==
    {[type |-> h.type, payload |-> Cut(f.payload, h.length)] :
        h \in {g \in deserialize_header(f.header) : Length(f.payload) > g.length}}

\* A frame with too short a header, too large a length or too few bytes is dropped; one
\* with more bytes than announced is cut.
dispatch_packet(f) ==
    {[type |-> h.type, payload |-> Cut(f.payload, h.length)] :
        h \in {g \in deserialize_header(f.header) : Length(f.payload) >= g.length}}

\* The destination of an IPv4 header; of an IPv6 one, the same bytes, half way through
\* the source address.
ip4_dst(b) == IF Length(b) < IP4_HEADER_SIZE THEN 0 ELSE b.of.word

----------------------------------------------------------------------------
(* TUN devices.                                                            *)

\* The kernel puts an address family in front of a packet on macOS, and takes one away.
FamilySize(platform) == IF platform = "macos" THEN UTUN_HEADER_SIZE ELSE 0

\* Broken variant: an address family is expected on every platform.
read_packet_AlwaysStrips(platform, p, mtu) ==
    LET b == Cut(Shift(Whole(p), FamilySize(platform)), mtu + UTUN_HEADER_SIZE + BUFFER_SLACK)
    IN  IF Length(b) <= UTUN_HEADER_SIZE THEN {} ELSE {Shift(b, -UTUN_HEADER_SIZE)}

\* A read into a buffer a little larger than the MTU, without the address family; a
\* string with nothing behind it counts for no data.
read_packet(platform, p, mtu) ==
    LET b == Cut(Shift(Whole(p), FamilySize(platform)),
                 mtu + FamilySize(platform) + BUFFER_SLACK)
    IN  IF Length(b) <= FamilySize(platform)
        THEN {} ELSE {Shift(b, -FamilySize(platform))}

\* What write_packet hands to the kernel, and what that makes of it.
write_packet(platform, b) == Shift(b, FamilySize(platform))
KernelGets(platform, b)   == Shift(b, -FamilySize(platform))

----------------------------------------------------------------------------
\* Every payload build_packet accepts comes out of dispatch_packet as it was.
RoundTrip ==
    \A type \in 1 .. 8, n \in 0 .. MAX_PAYLOAD :
        LET b == Whole([size |-> n])
        IN  dispatch_packet(build_packet(type, b)) = {[type |-> type, payload |-> b]}
=============================================================================
