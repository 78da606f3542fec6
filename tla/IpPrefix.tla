------------------------------ MODULE IpPrefix ------------------------------
(***************************************************************************)
(* Addresses and prefixes: lib/networking/IPv4.src.cc, IPv6.src.cc.  An    *)
(* address is a sequence of octets in network order; the numbers of octets *)
(* and of bits in one are parameters (4 or 16, and 8, in the code).        *)
(***************************************************************************)
EXTENDS Integers, Sequences

CONSTANTS OctetBits, V4Octets, V6Octets

ASSUME IpConstants ==
    /\ OctetBits \in Nat \ {0}
    /\ V4Octets \in Nat \ {0}
    /\ V6Octets \in Nat \ {0}

Octets == 0 .. 2 ^ OctetBits - 1
V4 == [1 .. V4Octets -> Octets]
V6 == [1 .. V6Octets -> Octets]
V4Bits == OctetBits * V4Octets
V6Bits == OctetBits * V6Octets
NoMask == -1

\* __parseSubnetMask leaves NoMask when there is no slash, and otherwise whatever
\* number stoi reads.
Nets4 == [addr : V4, mask : Int]
Nets6 == [addr : V6, mask : Int]

\* __ipv6ToBinary: the first octet is the most significant.
Binary(o, n) ==
    LET v[i \in 0 .. n] == IF i = 0 THEN 0 ELSE v[i - 1] * 2 ^ OctetBits + o[i]
    IN  v[n]

\* s_addr of the little-endian machines the build is for: the first octet is the
\* least significant.
SAddr(o) == Binary([i \in 1 .. V4Octets |-> o[V4Octets + 1 - i]], V4Octets)

\* <<= of an unsigned of V4Bits bits; a shift by the whole width, more or a negative
\* number is undefined and by the remainder in what compilers make of it on x86.
ShiftLeft(v, by) == (v * 2 ^ (by % V4Bits)) % 2 ^ V4Bits

Compare4(a, net) ==
    IF net.mask = NoMask THEN SAddr(a) = SAddr(net.addr)
    ELSE ShiftLeft(SAddr(a), net.mask) = ShiftLeft(SAddr(net.addr), net.mask)

\* A shift by a negative number throws; one by more than the width leaves 0.
Compare6(a, net) ==
    IF net.mask = NoMask THEN Binary(a, V6Octets) = Binary(net.addr, V6Octets)
    ELSE /\ net.mask <= V6Bits
         /\ LET cut == 2 ^ (V6Bits - net.mask)
            IN  Binary(a, V6Octets) \div cut = Binary(net.addr, V6Octets) \div cut

-----------------------------------------------------------------------------
(* What a network is, bit by bit *)

\* Bit k of an address, from 1 at the front.
Bit(o, k) ==
    LET i == (k - 1) \div OctetBits + 1
        j == (k - 1) % OctetBits
    IN  (o[i] \div 2 ^ (OctetBits - 1 - j)) % 2

SamePrefix(a, b, n) == \A k \in 1 .. n : Bit(a, k) = Bit(b, k)

Masks(bits) == {NoMask} \cup 0 .. bits
InNet(a, net, bits) ==
    /\ net.mask \in Masks(bits)
    /\ SamePrefix(a, net.addr, IF net.mask = NoMask THEN bits ELSE net.mask)
InNet4(a, net) == InNet(a, net, V4Bits)
InNet6(a, net) == InNet(a, net, V6Bits)

\* A left shift of a little-endian word drops as many bits as the mask has from the
\* back of the address, where a prefix of that length is what should be left: that is
\* the same for half the width, and a shift by the whole width drops nothing.
ExactMasks4 == {NoMask, V4Bits} \cup {m \in 0 .. V4Bits : 2 * m = V4Bits}
ExactMasks6 == Masks(V6Bits)

ComparesExactly ==
    /\ \A a \in V4, n \in [addr : V4, mask : ExactMasks4] : Compare4(a, n) <=> InNet4(a, n)
    /\ \A a \in V6, n \in [addr : V6, mask : ExactMasks6] : Compare6(a, n) <=> InNet6(a, n)
=============================================================================
