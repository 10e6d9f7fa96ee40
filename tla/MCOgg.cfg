\* crc32ogg on every sequence of up to three bytes over 0x00, 0x01, 0x80
\* and 0xFF, or the script on the 70 fixture files of OggFixtures.
CONSTANTS
  NoResult = NoResult
  Inputs <- MCInputs
  Files <- MCFiles
SPECIFICATION Spec
INVARIANTS TypeOK CrcFits32 RoundTrip
PROPERTIES ImplementsOggCrcSpec
\* crc32ogg returns, and the script ends after printing the checksums or
\* with a traceback.
CHECK_DEADLOCK FALSE
