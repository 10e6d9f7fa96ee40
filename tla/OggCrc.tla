------------------------------- MODULE OggCrc -------------------------------
(***************************************************************************)
(* crc32ogg(seq) of src/test/ogg/ogg.py (lines 4-11), one step per        *)
(* statement of its loops:                                                 *)
(*                                                                         *)
(*     crc = 0                                                             *)
(*     for b in seq:                                                       *)
(*         crc ^= b << 24                                                  *)
(*         for _ in range(8):                                              *)
(*             crc = (crc << 1) ^ 0x104c11db7 if crc & 0x80000000          *)
(*                                            else crc << 1                *)
(*     return crc                                                          *)
(*                                                                         *)
(* The accumulator is a Python int and is never masked: the code relies   *)
(* on the x^32 term of 0x104c11db7 to clear the bit its shift carries out. *)
(* crc32ogg2 (lines 13-23) is the same loop with a print per byte.  The  *)
(* step functions are shared with the functional form in Crc32Ogg.       *)
(***************************************************************************)
EXTENDS Naturals, Sequences, PyInt, Crc32Ogg

CONSTANTS
  Inputs,    \* the byte sequences crc32ogg is called with
  NoResult   \* model value: crc32ogg has not returned

ASSUME Inputs \subseteq Seq(0..255)

VARIABLES
  input,   \* the argument seq
  i,       \* index of the byte the outer loop is at
  n,       \* iterations of range(8) left
  crc,     \* the accumulator, as a bit set (module PyInt)
  pc       \* "byte": at the outer loop, "bit": in range(8), "done": returned

vars == <<input, i, n, crc, pc>>

TypeOK ==
  /\ input \in Inputs
  /\ i \in 1..(Len(input) + 1)
  /\ n \in 0..8
  /\ crc \subseteq Nat
  /\ pc \in {"byte", "bit", "done"}

Init ==
  /\ input \in Inputs
  /\ i = 1
  /\ n = 0
  /\ crc = {}
  /\ pc = "byte"

\* Mutant: the inner loop runs range(7).
NextByte_range7 ==
  /\ pc = "byte"
  /\ i <= Len(input)
  /\ crc' = XorIn(crc, input[i])
  /\ n' = 7
  /\ pc' = "bit"
  /\ UNCHANGED <<input, i>>

\* for b in seq: crc ^= b << 24
NextByte ==
  /\ pc = "byte"
  /\ i <= Len(input)
  /\ crc' = XorIn(crc, input[i])
  /\ n' = 8
  /\ pc' = "bit"
  /\ UNCHANGED <<input, i>>

\* for _ in range(8): crc = ...
ShiftBit ==
  /\ pc = "bit"
  /\ n > 0
  /\ crc' = CrcBit(crc)
  /\ n' = n - 1
  /\ UNCHANGED <<input, i, pc>>

\* Mutant: the outer loop advances by two bytes.
EndByte_skip ==
  /\ pc = "bit"
  /\ n = 0
  /\ i' = i + 2
  /\ pc' = "byte"
  /\ UNCHANGED <<input, n, crc>>

\* range(8) exhausted: back to the outer loop.
EndByte ==
  /\ pc = "bit"
  /\ n = 0
  /\ i' = i + 1
  /\ pc' = "byte"
  /\ UNCHANGED <<input, n, crc>>

\* seq exhausted: return crc
Return ==
  /\ pc = "byte"
  /\ i > Len(input)
  /\ pc' = "done"
  /\ UNCHANGED <<input, i, n, crc>>

Next == NextByte \/ ShiftBit \/ EndByte \/ Return

Spec == Init /\ [][Next]_vars /\ WF_vars(Next)

-----------------------------------------------------------------------------
(* Properties                                                              *)

\* The accumulator is never masked (ogg.py line 10), yet it never grows
\* past 32 bits: whenever the shift carries bit 31 out to bit 32, the x^32
\* term of 0x104c11db7 clears it again, and b << 24 stays below 2^32.
CrcFits32 == FitsIn(crc, 32)

\* The loop of crc32ogg implements the Ogg checksum of spec.md 4.2: seen
\* through the mapping "the result is crc once returned", every run of the
\* loop is a behaviour of OggCrcSpec, which computes the CRC as the
\* polynomial remainder of the message times x^32.
Abs == INSTANCE OggCrcSpec
         WITH result <- IF pc = "done" THEN crc ELSE NoResult

ImplementsOggCrcSpec == Abs!Spec

=============================================================================
