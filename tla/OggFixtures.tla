----------------------------- MODULE OggFixtures -----------------------------
(***************************************************************************)
(* Files for ogg.py to read: one Ogg page (spec.md 8.7 layout: version 0, *)
(* header type 2, granule 0, serial 1, sequence 0), optionally followed   *)
(* by the start of the next page, and optionally cut short.  Each varies  *)
(*   - the capture pattern: "OggS" or "OggX";                             *)
(*   - the segment table: empty, one segment of 5 bytes, or two segments; *)
(*   - the checksum field: written by an Ogg encoder (the reference CRC   *)
(*     of OggCrcRef over the page with the field zeroed), or zero;        *)
(*   - trailing bytes: none, or "Og" of the next page;                    *)
(*   - bytes cut from the end: 0, 1 (into the body when nothing trails,   *)
(*     below 27 bytes for the empty page) or 5 (the whole 5-byte body, or *)
(*     into the two-entry segment table).                                 *)
(***************************************************************************)
EXTENDS Naturals, Sequences, SequencesExt, OggCrcRef

Payload == <<170, 187, 204, 221, 238>>

Captures == {CapturePattern, <<79, 103, 103, 88>>}
SegTables == {<<>>, <<5>>, <<2, 1>>}

\* The page with checksum field chk, segment table segs.
RawPage(cap, segs, chk) ==
  cap \o <<0, 2>> \o [k \in 1..8 |-> 0] \o <<1, 0, 0, 0>> \o <<0, 0, 0, 0>>
      \o chk \o <<Len(segs)>> \o segs
      \o SubSeq(Payload, 1, SumFunction(segs))

EncodedPage(cap, segs) ==
  RawPage(cap, segs, PackLE32(OggCrc32(RawPage(cap, segs, <<0, 0, 0, 0>>))))

ZeroedPage(cap, segs) == RawPage(cap, segs, <<0, 0, 0, 0>>)

Cut(s, k) == SubSeq(s, 1, Len(s) - k)

MCFiles ==
  { Cut(p \o t, k) :
      p \in {EncodedPage(c, s) : c \in Captures, s \in SegTables}
              \cup {ZeroedPage(c, s) : c \in Captures, s \in SegTables},
      t \in {<<>>, <<79, 103>>},
      k \in {0, 1, 5} }

=============================================================================
