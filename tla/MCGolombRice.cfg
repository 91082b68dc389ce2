\* Every short buffer, decoded.
CONSTANTS
  BYTE = 3
  K = 2
  LOW = 2
  HIGH = 4
  Buffers <- MCBuffers
SPECIFICATION Spec
INVARIANTS TypeOK InBounds DecodesTheCode GivesUpRightly
PROPERTIES Returns
\* The decoder returns and nothing follows.
CHECK_DEADLOCK FALSE
