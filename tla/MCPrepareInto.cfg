\* Registration calls on one buffer, one after the other.
CONSTANTS
  N = 4
  LOGN = 2
  P1 = 41
  P2 = 97
  DELTA <- MCDelta
  DeltaOne = 2048
  WordSize = 4096
  WideSize = 16777216
  C_W1 = 16
  C_Q00 = 8
  C_Q01 = 4
  C_S0 = 4
  BoundScale = 16
  DivisorMax = 128
  S0Max = 16
  Wire <- MCWire
  DecodePublic <- MCDecodePublic
  Hpub <- MCHpub
  Hashes <- MCHashes
  InitBlobs <- MCInitBlobs
SPECIFICATION Spec
INVARIANTS TypeOK OkIsComplete OutcomeIsTheKeys IndInv
PROPERTIES HpubIsLast UntouchedUntilAdmitted Returns
