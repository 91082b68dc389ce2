\* Verifying against a buffer at every point of a registration.
CONSTANTS
  N = 4
  LOGN = 2
  P1 = 41
  P2 = 97
  DELTA <- MCDelta
  DeltaOne = 2048
  WordSize = 4096
  WideSize = 16777216
  C_W1 = 16
  C_Q00 = 8
  C_Q01 = 4
  C_S0 = 4
  BoundScale = 16
  DivisorMax = 128
  S0Max = 16
  NormScale = 2
  NormLimit = 20
  Wire <- MCWire
  DecodePublic <- MCDecodePublic
  Hpub <- MCHpub
  Hashes <- MCHashes
  InitBlobs <- MCGoodBlobs
  DecodeSignature <- MCDecodeSignature
  ComputeM <- MCComputeM
  Expand <- MCExpand
  Messages <- MCMessages
  Signatures <- MCSignatures
SPECIFICATION Spec
INVARIANTS NeverPanics
