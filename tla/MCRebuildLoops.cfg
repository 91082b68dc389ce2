\* The loops of rebuild_s0 against the functions, the widths and the exact quotient.
CONSTANTS
  N = 8
  LOGN = 3
  DELTA <- MCDelta
  DeltaOne = 2048
  WordSize = 4096
  WideSize = 16777216
  C_W1 = 128
  C_Q00 = 64
  C_Q01 = 64
  C_S0 = 32
  BoundScale = 4096
  DivisorMax = 1024
  S0Max = 4
  Inputs <- MCInputs
SPECIFICATION Spec
INVARIANTS SameAsFunction AssertedInBounds ForwardFits RoundsTheQuotient RefusesOnlyBeyond
PROPERTIES Returns
\* The call returns and nothing follows.
CHECK_DEADLOCK FALSE
