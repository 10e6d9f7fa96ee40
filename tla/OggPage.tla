------------------------------ MODULE OggPage ------------------------------
(***************************************************************************)
(* The script part of src/test/ogg/ogg.py (lines 25-55): read a captured   *)
(* Ogg file, unpack the first page's header and segment table, copy the   *)
(* page, zero its checksum field and compute crc32ogg over the copy.  The *)
(* script prints the stored checksum next to the computed one (and the    *)
(* zlib CRC, which is left out); it neither validates the page nor writes *)
(* the checksum back.                                                      *)
(*                                                                         *)
(* A struct.error raised by struct.unpack_from ends the script with a     *)
(* traceback: stage "error".  A Python slice past the end of a bytes      *)
(* object does not raise: it returns the bytes there are.                 *)
(***************************************************************************)
EXTENDS Naturals, Sequences, SequencesExt, PyInt, OggCrcRef, Crc32Ogg

CONSTANTS
  Files   \* contents of sample3.opus the script may read

ASSUME Files \subseteq Seq(0..255)

VARIABLES
  file_data,    \* f_.read()
  stage,        \* "read", "unpacked", "sized", "copied", "done", "error"
  cp,           \* capture pattern, the 4s of "<4sBBQIIIB"
  pc,           \* stored page checksum, the third I
  ps,           \* page segments, the final B
  segments,     \* the segment table
  header_size,  \* offset + len(segments) + packet_size
  header_copy,  \* the copied page with the checksum zeroed
  crc,          \* the accumulator of crc32ogg(header_copy)
  pos           \* index of the byte crc32ogg's loop is at

page_vars == <<file_data, stage, cp, pc, ps, segments, header_size,
               header_copy, crc, pos>>

\* struct.calcsize("<4sBBQIIIB"): the fixed header.
HEADER_LEN == 27

\* struct.calcsize("<4sBBQII"): offset of the checksum field.
CRC_OFFSET == 22

\* file_data[lo:hi] for 0 <= lo <= hi: clamped to the end, never raising.
Slice(s, lo, hi) == SubSeq(s, lo + 1, IF hi < Len(s) THEN hi ELSE Len(s))

\* struct.pack_into("<I", buf, off, v)
PackInto(buf, off, v) ==
  [k \in DOMAIN buf |-> IF k - off - 1 \in 0..3 THEN PackLE32(v)[k - off]
                                                 ELSE buf[k]]

PageTypeOK ==
  /\ file_data \in Seq(0..255)
  /\ stage \in {"read", "unpacked", "sized", "copied", "done", "error"}
  /\ cp \in Seq(0..255)
  /\ pc \subseteq 0..31
  /\ ps \in 0..255
  /\ segments \in Seq(0..255)
  /\ header_size \in Nat
  /\ header_copy \in Seq(0..255)
  /\ crc \subseteq Nat
  /\ pos \in 1..(Len(header_copy) + 1)

PageInit ==
  /\ file_data \in Files
  /\ stage = "read"
  /\ cp = <<>>
  /\ pc = {}
  /\ ps = 0
  /\ segments = <<>>
  /\ header_size = 0
  /\ header_copy = <<>>
  /\ crc = {}
  /\ pos = 1

\* cp, ssv, htf, agp, ssn, psn, pc, ps = struct.unpack_from("<4sBBQIIIB", ...)
UnpackHeader ==
  /\ stage = "read"
  /\ Len(file_data) >= HEADER_LEN
  /\ cp' = Slice(file_data, 0, 4)
  /\ pc' = UnpackLE32(Slice(file_data, CRC_OFFSET, CRC_OFFSET + 4))
  /\ ps' = file_data[HEADER_LEN]
  /\ stage' = "unpacked"
  /\ UNCHANGED <<file_data, segments, header_size, header_copy, crc, pos>>

\* The same call on a file shorter than 27 bytes raises struct.error.
HeaderTooShort ==
  /\ stage = "read"
  /\ Len(file_data) < HEADER_LEN
  /\ stage' = "error"
  /\ UNCHANGED <<file_data, cp, pc, ps, segments, header_size,
                 header_copy, crc, pos>>

\* Mutant: header_size leaves out the segment table itself.
UnpackSegments_no_table ==
  /\ stage = "unpacked"
  /\ Len(file_data) >= HEADER_LEN + ps
  /\ segments' = Slice(file_data, HEADER_LEN, HEADER_LEN + ps)
  /\ header_size' = HEADER_LEN + SumFunction(segments')
  /\ stage' = "sized"
  /\ UNCHANGED <<file_data, cp, pc, ps, header_copy, crc, pos>>

\* segments = struct.unpack_from(f"<{ps}B", file_data, offset), then
\* packet_size = sum(segments); header_size = offset + len(segments) + ...
UnpackSegments ==
  /\ stage = "unpacked"
  /\ Len(file_data) >= HEADER_LEN + ps
  /\ segments' = Slice(file_data, HEADER_LEN, HEADER_LEN + ps)
  /\ header_size' = HEADER_LEN + Len(segments') + SumFunction(segments')
  /\ stage' = "sized"
  /\ UNCHANGED <<file_data, cp, pc, ps, header_copy, crc, pos>>

\* The segment table runs past the end of the file: struct.error.
SegmentsTooShort ==
  /\ stage = "unpacked"
  /\ Len(file_data) < HEADER_LEN + ps
  /\ stage' = "error"
  /\ UNCHANGED <<file_data, cp, pc, ps, segments, header_size,
                 header_copy, crc, pos>>

\* header_copy.extend(file_data[0:header_size]) and
\* struct.pack_into("<I", header_copy, CRC_OFFSET, 0).  The copy is at
\* least 27 bytes long here, so pack_into cannot raise.
CopyAndZero ==
  /\ stage = "sized"
  /\ header_copy' = PackInto(Slice(file_data, 0, header_size), CRC_OFFSET, {})
  /\ stage' = "copied"
  /\ UNCHANGED <<file_data, cp, pc, ps, segments, header_size, crc, pos>>

\* print(crc32ogg(header_copy)): one iteration of "for b in seq" (the
\* statements of its body are stepped through in module OggCrc).
CrcLoop ==
  /\ stage = "copied"
  /\ pos <= Len(header_copy)
  /\ crc' = CrcByte(crc, header_copy[pos])
  /\ pos' = pos + 1
  /\ UNCHANGED <<file_data, stage, cp, pc, ps, segments, header_size,
                 header_copy>>

\* crc32ogg returns crc, and the script prints it.
CrcReturn ==
  /\ stage = "copied"
  /\ pos > Len(header_copy)
  /\ stage' = "done"
  /\ UNCHANGED <<file_data, cp, pc, ps, segments, header_size, header_copy,
                 crc, pos>>

PageNext ==
  \/ UnpackHeader \/ HeaderTooShort
  \/ UnpackSegments \/ SegmentsTooShort
  \/ CopyAndZero
  \/ CrcLoop \/ CrcReturn

PageSpec == PageInit /\ [][PageNext]_page_vars

-----------------------------------------------------------------------------
(* Properties                                                              *)

\* Round trip (spec.md 8.4): when the file starts with a well-formed page
\* whose stored checksum is the Ogg checksum of exactly its bytes, the
\* checksum the script computes equals the stored one it unpacked.  This
\* ties together the header arithmetic of lines 36-44, the copy and the
\* zeroing offset of lines 47-49 and the loop of crc32ogg.
RoundTrip ==
  stage = "done" /\ WellFormedPage(file_data) => crc = pc

\* spec.md 3, 4.1, 7 and 8.6: only a well-formed page gets a checksum: its
\* capture pattern is "OggS", and the checksum covers exactly page_size
\* bytes; any other input is a MalformedPage.  The script neither compares
\* cp nor checks the length of the slice of line 48.
MalformedPageRejected ==
  stage = "done" => /\ cp = CapturePattern
                    /\ Len(header_copy) = header_size

=============================================================================
