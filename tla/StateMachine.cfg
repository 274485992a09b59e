SPECIFICATION Spec
CONSTANTS
  None = None
  Updates = {u1, u2, u3, u4}
  MaxCrashes = 2
INVARIANT SpoiltOnlyByOverlap
INVARIANT AckedDurable
PROPERTY ImplementsDurableState
CHECK_DEADLOCK FALSE
SYMMETRY Symmetry
