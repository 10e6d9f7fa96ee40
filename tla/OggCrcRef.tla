------------------------------ MODULE OggCrcRef ------------------------------
(***************************************************************************)
(* The Ogg page checksum as spec.md (sections 3 and 4.2) defines it: the   *)
(* CRC-32 with generator polynomial x^32 + 0x04C11DB7, initial value 0, no *)
(* reflection and no final XOR.  Such a CRC is the remainder of the        *)
(* message polynomial times x^32 divided by the generator over GF(2); the *)
(* message's first byte carries the highest powers, and within a byte bit  *)
(* 7 is the highest.  Values are bit sets as in module PyInt.              *)
(***************************************************************************)
EXTENDS Naturals, Sequences, FiniteSets, FiniteSetsExt, PyInt

\* The generator x^32 + x^26 + ... + 1 (0x04C11DB7 plus the x^32 term).
Generator == BitsOf(\h04C11DB7) \cup {32}

\* One step of long division: cancel the highest term of degree >= 32.
DivStep(p) == IF p # {} /\ Max(p) >= 32
              THEN Xor(p, Shl(Generator, Max(p) - 32)) ELSE p

\* Polynomial remainder modulo the generator, eight division steps at a
\* time.
RECURSIVE PolyMod(_)
PolyMod(p) ==
  IF p = {} \/ Max(p) < 32 THEN p
  ELSE PolyMod(DivStep(DivStep(DivStep(DivStep(
                 DivStep(DivStep(DivStep(DivStep(p)))))))))

\* The sum over GF(2) of the polynomials f[j], j \in DOMAIN f.
XorSum(f) ==
  {k \in UNION {f[j] : j \in DOMAIN f} :
     Cardinality({j \in DOMAIN f : k \in f[j]}) % 2 = 1}

\* The checksum of spec.md 4.2: the message polynomial times x^32 modulo
\* the generator.  Byte j of n contributes x^(8 * (n - j) + i) for each of
\* its bits i; the remainder of a sum is the sum of the remainders.
OggCrc32(seq) ==
  XorSum([j \in DOMAIN seq |->
            PolyMod(Shl(BitsOf(seq[j]), 32 + 8 * (Len(seq) - j)))])

\* "OggS", the capture pattern.
CapturePattern == <<79, 103, 103, 83>>

\* The page layout of spec.md section 3, for a page at the start of f.
PageSegments(f) == f[27]
PageSize(f) ==
  27 + PageSegments(f) + SumFunction(SubSeq(f, 28, 27 + PageSegments(f)))

\* The page with its checksum field (bytes 22-25, 0-based) set to zero.
ZeroChecksum(p) == [k \in DOMAIN p |-> IF k \in 23..26 THEN 0 ELSE p[k]]

\* f starts with a well-formed page whose checksum field is the checksum of
\* exactly its page_size bytes with that field zeroed (spec.md section 3).
WellFormedPage(f) ==
  /\ Len(f) >= 27
  /\ SubSeq(f, 1, 4) = CapturePattern
  /\ Len(f) >= 27 + PageSegments(f)
  /\ Len(f) >= PageSize(f)
  /\ UnpackLE32(SubSeq(f, 23, 26))
       = OggCrc32(ZeroChecksum(SubSeq(f, 1, PageSize(f))))

=============================================================================
