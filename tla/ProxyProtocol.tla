---------------------------- MODULE ProxyProtocol ----------------------------
(***************************************************************************)
(* The PROXY protocol header a trusted load balancer puts in front of what *)
(* it forwards (proxy_protocol.rs), and the networks that are trusted      *)
(* (tcp.rs IpPrefix).  A header is a sequence of units, each standing for  *)
(* bytes no parser looks between: a signature or a prefix is two of them,  *)
(* the fixed part of version 2 and the fields of version 1 are one each,   *)
(* and an address block is as many as its length says.                     *)
(***************************************************************************)
EXTENDS Naturals, Sequences, SequencesExt

CONSTANTS V1MaxLen,     \* V1_MAX_LEN, in units
          V4Bits, V6Bits  \* the widths of addresses

Unit(kind) == [kind |-> kind]
V2Signature == <<Unit("s1"), Unit("s2")>>
V1Prefix == <<Unit("p1"), Unit("p2")>>
V2HeaderLen == Len(V2Signature) + 1
Fixed(version, command, family, transport, len, source) ==
    [kind |-> "fixed", version |-> version, command |-> command, family |-> family,
     transport |-> transport, len |-> len, source |-> source]
Fields(protocol, valid, source) ==
    [kind |-> "fields", protocol |-> protocol, valid |-> valid, source |-> source]

Invalid == [is |-> "invalid"]
Incomplete(atLeast) == [is |-> "incomplete", atLeast |-> atLeast]
Complete(source, len) == [is |-> "complete", source |-> source, len |-> len]

(* The units an address block needs: an IPv6 one is the longer. *)
BlockLen == [v4 |-> 1, v6 |-> 2]

(* parse_v2: the header of its declared length, TLVs and all.  Only a PROXY command for the        *)
(* transport it came over, with an IP family, names a client.                                      *)
ParseV2(buf, transport) ==
    IF Len(buf) < V2HeaderLen THEN Incomplete(V2HeaderLen)
    ELSE LET fixed == buf[V2HeaderLen]
             len == V2HeaderLen + fixed.len
         IN  IF fixed.version # 2 \/ fixed.command \notin {"local", "proxy"} THEN Invalid
             ELSE IF Len(buf) < len THEN Incomplete(len)
             ELSE IF \/ fixed.command = "local" \/ fixed.transport # transport
                     \/ fixed.family \notin DOMAIN BlockLen
             THEN Complete("none", len)
             ELSE IF fixed.len < BlockLen[fixed.family] THEN Invalid
             ELSE Complete(fixed.source, len)

(* parse_v1_addresses: two addresses, two ports without a sign or leading zeros, and no more. *)
ParseV1Addresses(fields) == IF fields.valid THEN fields.source ELSE "invalid"

LineEnds(searched) ==
    {i \in 1..(Len(searched) - 1) : searched[i] = Unit("cr") /\ searched[i + 1] = Unit("lf")}
OfLine(searched, end) ==
    LET fields == searched[Len(V1Prefix) + 1]
    IN  IF fields.kind # "fields" THEN Invalid
        ELSE IF fields.protocol = "UNKNOWN" THEN Complete("none", end + 1)
        ELSE IF fields.protocol \notin {"TCP4", "TCP6"} THEN Invalid
        ELSE IF end # Len(V1Prefix) + 2 \/ ParseV1Addresses(fields) = "invalid" THEN Invalid
        ELSE Complete(fields.source, end + 1)
First(ends) == CHOOSE i \in ends : \A j \in ends : i <= j

(* parse_v1: one line, which ends within the longest header there is. *)
ParseV1(buf) ==
    LET searched == SubSeq(buf, 1, IF Len(buf) < V1MaxLen THEN Len(buf) ELSE V1MaxLen)
    IN  IF LineEnds(searched) = {}
        THEN IF Len(buf) >= V1MaxLen THEN Invalid ELSE Incomplete(Len(buf) + 1)
        ELSE OfLine(searched, First(LineEnds(searched)))

(* parse: the start of a TCP connection. *)
Parse(buf) ==
    IF IsPrefix(V2Signature, buf) THEN ParseV2(buf, "stream")
    ELSE IF IsPrefix(V1Prefix, buf) THEN ParseV1(buf)
    ELSE IF IsPrefix(buf, V2Signature) \/ IsPrefix(buf, V1Prefix) THEN Incomplete(Len(buf) + 1)
    ELSE Invalid

(* parse_datagram: a datagram holds its whole header, of version 2. *)
ParseDatagram(datagram) ==
    IF ~IsPrefix(V2Signature, datagram) THEN Invalid
    ELSE IF ParseV2(datagram, "datagram").is = "complete" THEN ParseV2(datagram, "datagram")
    ELSE Invalid

-----------------------------------------------------------------------------
(* Addresses.  An IPv4-mapped IPv6 address is one whose bits above IPv4's are a given pattern.     *)
Addr(family, bits) == [family |-> family, bits |-> bits]
Addresses == [family : {"v4"}, bits : 0..(2^V4Bits - 1)] \cup [family : {"v6"}, bits : 0..(2^V6Bits - 1)]
Mapped(addr) == addr.family = "v6" /\ addr.bits \div 2^V4Bits = 1
MappedBits == V6Bits - V4Bits

(* canonical_addr *)
CanonicalAddr(addr) == IF Mapped(addr) THEN Addr("v4", addr.bits % 2^V4Bits) ELSE addr

(* mask_u32 and mask_u128: what is left of an address, or no mask for a prefix that is too long. *)
Width(family) == IF family = "v4" THEN V4Bits ELSE V6Bits
Masked(addr, len) ==
    LET unit == 2^(Width(addr.family) - len) IN Addr(addr.family, (addr.bits \div unit) * unit)

(* IpPrefix::new, for a prefix that is not longer than its address. *)
NewPrefix(addr, len) ==
    LET mapped == Mapped(addr) /\ len >= MappedBits
        a == IF mapped THEN CanonicalAddr(addr) ELSE addr
        l == IF mapped THEN len - MappedBits ELSE len
    IN  [addr |-> Masked(a, l), len |-> l]

(* IpPrefix::contains, and trusts. *)
PrefixContains(prefix, addr) ==
    prefix.addr.family = addr.family /\ Masked(addr, prefix.len) = prefix.addr
Trusts(prefixes, peer) == \E p \in prefixes : PrefixContains(p, CanonicalAddr(peer))

=============================================================================
