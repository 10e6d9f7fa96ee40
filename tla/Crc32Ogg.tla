------------------------------ MODULE Crc32Ogg ------------------------------
(***************************************************************************)
(* The statements of crc32ogg in src/test/ogg/ogg.py (lines 4-11), as   *)
(* functions of the accumulator.  Module OggCrc runs them one statement  *)
(* per step; module OggPage runs the loop one byte per step.             *)
(***************************************************************************)
EXTENDS Naturals, PyInt

\* Mutant: 0x04C11DB7 as spec.md writes it, without the x^32 term that
\* makes the unmasked shift drop its carry.
POLY_no_x32 == BitsOf(\h04C11DB7)

\* 0x104c11db7
POLY == BitsOf(\h04C11DB7) \cup {32}

\* 0x80000000
TOPBIT == 31

\* crc ^= b << 24
XorIn(c, b) == Xor(c, Shl(BitsOf(b), 24))

\* One iteration of range(8).
CrcBit(c) == IF BitSet(c, TOPBIT) THEN Xor(Shl(c, 1), POLY) ELSE Shl(c, 1)

\* The whole body of the outer loop, for one byte b.
RECURSIVE CrcBits(_, _)
CrcBits(c, k) == IF k = 0 THEN c ELSE CrcBits(CrcBit(c), k - 1)

CrcByte(c, b) == CrcBits(XorIn(c, b), 8)

=============================================================================
