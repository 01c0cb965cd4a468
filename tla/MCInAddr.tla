------------------------------ MODULE MCInAddr ------------------------------
(* Small instances of InAddr for TLC.                                      *)
EXTENDS InAddr

\* 16-bit IPv4 addresses: the first and the last, one inside, and the
\* first octets that start classes B and C and the loopback network.
MCAddr4 == {0, 1, 2^15 + 3, 192 * 256 + 168, 127 * 256 + 1, 2^16 - 1}

\* The bytes at both ends, and either side of the top bit.
MCBytes == {0, 127, 128, 255}

\* Every boundary of a 16-bit address: none, one bit, a byte, all but one,
\* all bits.
MCLens4 == {0, 1, 8, 15, 16}

\* With two-byte IPv6 addresses: also past the width, which the code clamps.
MCLens6 == {0, 1, 7, 8, 9, 16, 17}

\* Prefix lengths past the IPv4 width, as a configuration may give them.
MCLens4Long == MCLens4 \cup {17, 40}
====
