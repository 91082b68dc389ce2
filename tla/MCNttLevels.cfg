\* Both transforms, on sources with extreme coefficients.
CONSTANTS
  N = 16
  LOGN = 4
  P1 = 193
  P2 = 97
  LANE = 512
  WORD = 131072
  Sources <- MCSources
SPECIFICATION Spec
INVARIANTS AssertedInBounds NothingWraps Evaluates
PROPERTIES ImplementsLevels
\* The transform returns and nothing follows.
CHECK_DEADLOCK FALSE
