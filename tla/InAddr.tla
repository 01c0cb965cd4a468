------------------------------- MODULE InAddr -------------------------------
(***************************************************************************)
(* The prefix arithmetic of in-addr-util.c: in_addr_prefix_intersect,     *)
(* in_addr_prefix_next, in_addr_mask and in_addr_prefixlen_to_netmask,     *)
(* for AF_INET and AF_INET6, each checked against a reference definition  *)
(* of what it computes.                                                    *)
(*                                                                         *)
(* An IPv4 address is its host-order value (be32toh), W bits wide: 32 in  *)
(* the code, smaller for TLC, whose integers have 32 signed bits.  An IPv6 *)
(* address is its sequence of NB bytes, most significant first: 16 in the *)
(* code.                                                                   *)
(*                                                                         *)
(* The functions are driven by a caller that walks an address pool: it   *)
(* loads an address and a prefix length, steps to the next subnet, masks  *)
(* the address and asks whether another network overlaps it.             *)
(***************************************************************************)
EXTENDS Integers, Sequences

CONSTANTS
    W,          \* bits of an IPv4 address
    NB,         \* bytes of an IPv6 address
    Addr4,      \* the IPv4 addresses the caller loads
    Bytes,      \* the byte values IPv6 addresses are made of
    Lens4,      \* the prefix lengths used with AF_INET
    Lens6,      \* the prefix lengths used with AF_INET6
    MaxSteps    \* bound on the in_addr_prefix_next calls of one walk

ASSUME InAddrAssumption ==
    /\ W \in 8 .. 24 /\ NB \in 1 .. 3
    /\ Addr4 \subseteq 0 .. 2^W - 1 /\ Bytes \subseteq 0 .. 255
    /\ Lens4 \subseteq 0 .. 255 /\ Lens6 \subseteq 0 .. 255
    /\ MaxSteps \in Nat

Min2(x, y) == IF x < y THEN x ELSE y

\* An IPv6 address as the integer its bytes spell, and back.
Val6(s) == LET v[i \in 0 .. NB] == IF i = 0 THEN 0 ELSE v[i - 1] * 256 + s[i]
           IN  v[NB]
Addr6 == [1 .. NB -> Bytes]

-----------------------------------------------------------------------------
(* in_addr_prefix_intersect: the networks a/aprefixlen and b/bprefixlen    *)
(* share an address.                                                       *)

\* AF_INET: x = a ^ b masked with the m = MIN(aprefixlen, bprefixlen)
\* leading bits, i.e. a and b agree on those bits.  For m > 32 the shift
\* count 32 - m wraps around as an unsigned and the shift is undefined: the
\* mask is whatever the build makes of it, so either answer can come back
\* unless a = b.
PrefixIntersect4(a, ap, b, bp) ==
    LET m == Min2(ap, bp)
    IN  IF m > W THEN (IF a = b THEN {TRUE} ELSE BOOLEAN)
        ELSE {m = 0 \/ a \div 2^(W - m) = b \div 2^(W - m)}

\* AF_INET6: m is clamped to 128; byte i is compared under a mask of its
\* leading m - 8 * (i - 1) bits (all of them past 8, none below 0).
ByteBits(m, i) == IF m - 8 * (i - 1) >= 8 THEN 8
                  ELSE IF m - 8 * (i - 1) <= 0 THEN 0 ELSE m - 8 * (i - 1)
PrefixIntersect6MaxLen(a, ap, b, bp) ==
    LET m == IF ap > bp THEN ap ELSE bp
        c == Min2(m, 8 * NB)
    IN  {\A i \in 1 .. NB : a[i] \div 2^(8 - ByteBits(c, i))
                             = b[i] \div 2^(8 - ByteBits(c, i))}
PrefixIntersect6(a, ap, b, bp) ==
    LET c == Min2(Min2(ap, bp), 8 * NB)
    IN  {\A i \in 1 .. NB : a[i] \div 2^(8 - ByteBits(c, i))
                             = b[i] \div 2^(8 - ByteBits(c, i))}

-----------------------------------------------------------------------------
(* in_addr_prefix_next: the first address of the next subnet.  Returns 0  *)
(* for a zero prefix length or when the subnet was the last one, leaving   *)
(* the address alone.                                                      *)

PrefixNext4Wide(c, p) ==
    LET q == Min2(p, W)
        n == c + 2^(W - q)
    IN  IF p = 0 \/ n < c THEN [r |-> 0, u |-> c]
        ELSE [r |-> 1, u |-> n - (n % 2^(W - q))]

PrefixNext4NoMask(c, p) ==
    LET q == Min2(p, W)
        n == (c + 2^(W - q)) % 2^W
    IN  IF p = 0 \/ n < c THEN [r |-> 0, u |-> c] ELSE [r |-> 1, u |-> n]

\* AF_INET: prefixlen is clamped to 32; n = c + (1UL << (32 - prefixlen))
\* truncated to 32 bits, "n < c" detects the wrap, and the host bits of n
\* are cleared.
PrefixNext4(c, p) ==
    LET q == Min2(p, W)
        n == (c + 2^(W - q)) % 2^W
    IN  IF p = 0 \/ n < c THEN [r |-> 0, u |-> c]
        ELSE [r |-> 1, u |-> n - (n % 2^(W - q))]

\* AF_INET6: prefixlen is clamped to 128; add has the single bit of the
\* last network bit set, in byte (prefixlen - 1) / 8.  The bytes are added
\* from the last to the first; the carry out of byte j is
\* result[j] < u[j] (uint8_t arithmetic).  A carry out of the first byte
\* returns 0 and leaves u alone; the host bits are kept.
AddBit6(q) == [j \in 1 .. NB |-> IF j = (q - 1) \div 8 + 1
                                 THEN 2^(7 - ((q - 1) % 8)) ELSE 0]
Carry6(s, add) ==
    LET c[j \in 1 .. NB + 1] ==
            IF j = NB + 1 THEN 0
            ELSE IF (s[j] + add[j] + c[j + 1]) % 256 < s[j] THEN 1 ELSE 0
    IN  c
PrefixNext6(s, p) ==
    LET q   == Min2(p, 8 * NB)
        add == AddBit6(q)
        c   == Carry6(s, add)
    IN  IF p = 0 \/ c[1] = 1 THEN [r |-> 0, u |-> s]
        ELSE [r |-> 1, u |-> [j \in 1 .. NB |-> (s[j] + add[j] + c[j + 1]) % 256]]

-----------------------------------------------------------------------------
(* in_addr_mask: clear the host bits.                                      *)

\* in_addr_prefixlen_to_netmask: assert(prefixlen <= 32) aborts the process
\* for a longer prefix; otherwise the leading prefixlen bits.
PrefixlenToNetmask(p) ==
    [ok |-> p <= W, nm |-> IF p = 0 \/ p > W THEN 0 ELSE 2^W - 2^(W - p)]

Mask4OffByOne(c, p) ==
    LET pl == p % 256
    IN  [ok |-> PrefixlenToNetmask(pl).ok,
         u  |-> IF pl > W THEN c ELSE c - (c % 2^(W - pl + 1))]

\* AF_INET: addr &= the netmask of prefixlen (an unsigned char): the bits
\* of c under the netmask are its leading prefixlen bits.
Mask4(c, p) ==
    LET pl == p % 256
    IN  [ok |-> PrefixlenToNetmask(pl).ok,
         u  |-> IF pl > W THEN c ELSE c - (c % 2^(W - pl))]

\* AF_INET6: byte i keeps its leading ByteBits(prefixlen, i) bits.
Mask6(s, p) ==
    [ok |-> TRUE,
     u  |-> [i \in 1 .. NB |-> s[i] - (s[i] % 2^(8 - ByteBits(p % 256, i)))]]

-----------------------------------------------------------------------------
(* The caller.                                                             *)

VARIABLES
    fam,      \* the address family
    u,        \* the union in_addr_union the functions read and write
    plen,     \* the prefix length it is used with
    prev,     \* ghost: u before the last call
    last,     \* ghost: the last call, with its arguments and return value
    aborted,  \* an assertion failed and the process aborted
    steps     \* in_addr_prefix_next calls since the address was loaded

vars == <<fam, u, plen, prev, last, aborted, steps>>

Lens(f) == IF f = "inet" THEN Lens4 ELSE Lens6
Addrs(f) == IF f = "inet" THEN Addr4 ELSE Addr6

\* The caller loads an address and a prefix length, from its configuration.
Load ==
    /\ ~aborted
    /\ \E f \in {"inet", "inet6"} :
          \E a \in Addrs(f), p \in Lens(f) :
             /\ fam' = f /\ u' = a /\ plen' = p /\ prev' = a
    /\ last' = [op |-> "load", r |-> 0, b |-> u', bp |-> plen']
    /\ steps' = 0
    /\ UNCHANGED aborted

PrefixNext ==
    /\ ~aborted /\ steps < MaxSteps
    /\ LET res == IF fam = "inet" THEN PrefixNext4(u, plen)
                  ELSE PrefixNext6(u, plen)
       IN  /\ u' = res.u
           /\ last' = [op |-> "next", r |-> res.r, b |-> u, bp |-> plen]
    /\ prev' = u /\ steps' = steps + 1
    /\ UNCHANGED <<fam, plen, aborted>>

Mask ==
    /\ ~aborted
    /\ LET res == IF fam = "inet" THEN Mask4(u, plen) ELSE Mask6(u, plen)
       IN  IF ~res.ok
           THEN aborted' = TRUE /\ UNCHANGED <<u, last>>
           ELSE /\ u' = res.u /\ aborted' = FALSE
                /\ last' = [op |-> "mask", r |-> 0, b |-> u, bp |-> plen]
    /\ prev' = u
    /\ UNCHANGED <<fam, plen, steps>>

Intersect ==
    /\ ~aborted
    /\ \E b \in Addrs(fam), bp \in Lens(fam) :
          \E r \in IF fam = "inet" THEN PrefixIntersect4(u, plen, b, bp)
                   ELSE PrefixIntersect6(u, plen, b, bp) :
             last' = [op |-> "intersect", r |-> IF r THEN 1 ELSE 0,
                      b |-> b, bp |-> bp]
    /\ prev' = u
    /\ UNCHANGED <<fam, u, plen, aborted, steps>>

Init ==
    /\ fam = "inet" /\ u = 0 /\ plen = 0 /\ prev = 0
    /\ last = [op |-> "load", r |-> 0, b |-> 0, bp |-> 0]
    /\ aborted = FALSE /\ steps = 0

Next == Load \/ PrefixNext \/ Mask \/ Intersect

Spec == Init /\ [][Next]_vars

-----------------------------------------------------------------------------
(* Reference definitions and properties.                                   *)

Bits == IF fam = "inet" THEN W ELSE 8 * NB
Value(a) == IF fam = "inet" THEN a ELSE Val6(a)

\* The network number of address a under prefix length p (clamped to the
\* address width), and whether address x lies in the network n/p.
NetNo(a, p) == Value(a) \div 2^(Bits - Min2(p, Bits))
InNet(x, n, p) == NetNo(x, p) = NetNo(n, p)

TypeOK ==
    /\ fam \in {"inet", "inet6"}
    /\ u \in Addrs(fam) \cup (IF fam = "inet" THEN 0 .. 2^W - 1 ELSE [1 .. NB -> 0 .. 255])
    /\ plen \in Lens(fam) /\ aborted \in BOOLEAN /\ steps \in 0 .. MaxSteps
    /\ last.op \in {"load", "next", "mask", "intersect"} /\ last.r \in {0, 1}

\* An address-pool walk by in_addr_prefix_next visits the subnets in
\* order: a call that returns 1 moves to the next network number (with the
\* host bits cleared for IPv4, kept for IPv6), and a call returns 0, leaving
\* the address alone, exactly for a zero prefix length or the last subnet,
\* across the 32-bit wrap check and the IPv6 byte-wise carry.
NextSubnet ==
    last.op = "next" =>
        LET q == Min2(plen, Bits)
        IN  IF plen > 0 /\ NetNo(prev, plen) + 1 < 2^q
            THEN /\ last.r = 1
                 /\ NetNo(u, plen) = NetNo(prev, plen) + 1
                 /\ Value(u) % 2^(Bits - q) =
                       IF fam = "inet" THEN 0 ELSE Value(prev) % 2^(Bits - q)
            ELSE last.r = 0 /\ u = prev

\* in_addr_prefix_intersect answers whether the two networks share an
\* address: one of them contains the other's first address.
IntersectSound ==
    last.op = "intersect" =>
        (last.r = 1 <=> (InNet(last.b, u, plen) \/ InNet(u, last.b, last.bp)))

\* in_addr_mask returns, and leaves the first address of u's network: the
\* caller's "return -EINVAL" when no netmask can be built is the error
\* path for a bad prefix length.
MaskNoAbort ==
    /\ ~aborted
    /\ last.op = "mask" => (InNet(u, prev, plen) /\ Value(u) % 2^(Bits - Min2(plen, Bits)) = 0)

====
