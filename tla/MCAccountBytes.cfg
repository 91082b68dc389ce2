\* The walk over the serialized input, and a blob from prepare_into to from_bytes.
CONSTANTS
  N = 4
  LOGN = 2
  BYTE = 2
  HpubLen = 8
  Images <- MCImages
  Regions <- MCRegions
  ReallocLen = 10240
  KeyLen = 1024
  SigLen = 555
  BlobLen = 152
  Junk <- MCJunk
  Nothing = Nothing
SPECIFICATION AccountSpec
INVARIANTS FindsInstruction WritesInsideAccount CutsThePayload ReadsInBlob ReadsBack
\* The call returns and nothing follows.
CHECK_DEADLOCK FALSE
