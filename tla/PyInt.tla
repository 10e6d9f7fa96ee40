------------------------------- MODULE PyInt -------------------------------
(***************************************************************************)
(* Python's int is unbounded, and TLC's integers stop at 2^31 - 1.  The    *)
(* CRC code of src/test/ogg/ogg.py works on values up to 2^33, so a        *)
(* non-negative Python int is represented here by the finite set of the    *)
(* positions of its one bits: 0x104c11db7 is {0,1,2,4,5,7,8,10,11,12,16,   *)
(* 22,23,26,32}.  The operators are exactly the Python operators the code  *)
(* applies, defined by what they do to the bits.                           *)
(***************************************************************************)
EXTENDS Naturals, Sequences

\* The bit set of a TLC natural n < 2^31 (a byte, a small literal).
BitsOf(n) == {i \in 0..30 : (n \div 2^i) % 2 = 1}

\* a ^ b
Xor(a, b) == (a \ b) \cup (b \ a)

\* a << k
Shl(a, k) == {i + k : i \in a}

\* a & (1 << k) != 0
BitSet(a, k) == k \in a

\* a < 2^w, i.e. the value fits in w bits
FitsIn(a, w) == \A i \in a : i < w

\* The value of byte k (k = 0 is the least significant) of a.
ByteOf(a, k) == LET bitval(i) == IF (8 * k + i) \in a THEN 2^i ELSE 0
                IN  bitval(0) + bitval(1) + bitval(2) + bitval(3)
                  + bitval(4) + bitval(5) + bitval(6) + bitval(7)

\* struct.pack("<I", a): the four little-endian bytes of a 32-bit value.
PackLE32(a) == <<ByteOf(a, 0), ByteOf(a, 1), ByteOf(a, 2), ByteOf(a, 3)>>

\* struct.unpack("<I", bs)[0] for a sequence bs of four bytes.
UnpackLE32(bs) == UNION {Shl(BitsOf(bs[k + 1]), 8 * k) : k \in 0..3}

=============================================================================
