\* The direct norm computation against the prepared one and the lattice norm.
CONSTANTS
  N = 4
  LOGN = 2
  P1 = 17
  P2 = 97
  NormScale = 2
  NormLimit = 9
  LaneMax = 194
  Keys <- MCKeys
  Vectors <- MCVectors
  Bases <- MCBases
SPECIFICATION Spec
INVARIANTS TypeOK SameAsPrepared MeasuresNorm IndInv
\* The call returns and nothing follows.
CHECK_DEADLOCK FALSE
