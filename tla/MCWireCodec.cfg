\* Encodings, encodings with a wrong bit, and buffers of a wrong length.
CONSTANTS
  N = 4
  LOGN = 2
  BYTE = 3
  CHUNK = 2
  LOW_00 = 1
  HIGH_00 = 2
  LOW_01 = 1
  HIGH_01 = 3
  LOW_S1 = 1
  HIGH_S1 = 3
  EXTRA = 2
  PUBKEY_LEN = 10
  SIGNATURE_LEN = 8
  SALT_LEN = 1
  Sampled00 <- MCSampled00
  Sampled01 <- MCSampled01
  SampledS1 <- MCSampledS1
  Salts <- MCSalts
  Keys <- MCKeys
  Signatures <- MCSignatures
SPECIFICATION Spec
INVARIANTS InBounds Canonical AcceptsEncodings
PROPERTIES Returns
\* The decoder returns and nothing follows.
CHECK_DEADLOCK FALSE
