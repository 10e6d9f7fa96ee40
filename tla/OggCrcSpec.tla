----------------------------- MODULE OggCrcSpec -----------------------------
(***************************************************************************)
(* What the Ogg page checksum promises (spec.md section 4.2), computed in  *)
(* one step: the checksum of the input, as OggCrcRef defines it.          *)
(***************************************************************************)
EXTENDS Naturals, Sequences, OggCrcRef

CONSTANTS
  Inputs,    \* the byte sequences the checksum is asked of
  NoResult   \* model value: no checksum returned yet

VARIABLES input, result

Init == /\ input \in Inputs
        /\ result = NoResult

Compute == /\ result = NoResult
           /\ result' = OggCrc32(input)
           /\ UNCHANGED input

Spec == Init /\ [][Compute]_<<input, result>>

=============================================================================
