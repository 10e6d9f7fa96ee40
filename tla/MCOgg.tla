-------------------------------- MODULE MCOgg --------------------------------
(***************************************************************************)
(* The two parts of src/test/ogg/ogg.py checked in one run: the loop of    *)
(* crc32ogg on its own (OggCrc, over the inputs MCInputs), or the         *)
(* script reading one of the files of OggFixtures (OggPage).  Which one *)
(* is chosen at the start, and the other's variables stay at their initial *)
(* values (one initial state of it).  The modules share the names crc    *)
(* and pc; OggCrc's are renamed loop_crc and loop_pc here.                *)
(***************************************************************************)
EXTENDS Naturals, Sequences, SequencesExt

CONSTANTS
  NoResult,
  Inputs,   \* the inputs of crc32ogg: MCInputs
  Files     \* the files of the script: MCFiles

VARIABLES
  part,
  \* OggCrc
  input, i, n, loop_crc, loop_pc,
  \* OggPage
  file_data, stage, cp, pc, ps, segments, header_size, header_copy, crc, pos

loop_vars == <<input, i, n, loop_crc, loop_pc>>
page_vars == <<file_data, stage, cp, pc, ps, segments, header_size,
               header_copy, crc, pos>>
vars == <<part, loop_vars, page_vars>>

Fixtures == INSTANCE OggFixtures

MCInputs == BoundedSeq({0, 1, 128, 255}, 3)
MCFiles == Fixtures!MCFiles

C == INSTANCE OggCrc
       WITH crc <- loop_crc, pc <- loop_pc

P == INSTANCE OggPage

\* A step of the chosen part.
Loop(A) == part = "loop" /\ A /\ UNCHANGED <<part, page_vars>>
Page(A) == part = "page" /\ A /\ UNCHANGED <<part, loop_vars>>

\* The part that is not run is held at one of its initial states: the empty
\* input, and the file with the fewest bytes.
IdleFile == CHOOSE f \in Files : \A g \in Files : Len(f) <= Len(g)

Init == /\ part \in {"loop", "page"}
        /\ IF part = "loop" THEN file_data = IdleFile ELSE input = << >>
        /\ C!Init /\ P!PageInit

Next == Loop(C!Next) \/ Page(P!PageNext)

\* The fairness of OggCrc (a loop that returns); the script has none.
Spec == Init /\ [][Next]_vars /\ WF_vars(Loop(C!Next))

-----------------------------------------------------------------------------
(* Properties                                                              *)

TypeOK == part \in {"loop", "page"} /\ C!TypeOK /\ P!PageTypeOK

\* crc32ogg never masks its accumulator, yet it never grows past 32 bits:
\* the x^32 term of 0x104c11db7 clears the bit the shift carries out.
CrcFits32 == C!CrcFits32

\* The loop of crc32ogg implements the Ogg checksum of spec.md 4.2 (the
\* result, once returned, is the polynomial remainder of OggCrcSpec).
ImplementsOggCrcSpec == C!ImplementsOggCrcSpec

\* On a well-formed page whose stored checksum is its Ogg checksum, the
\* checksum the script computes equals the one it unpacked (spec.md 8.4).
RoundTrip == P!RoundTrip

=============================================================================
