SPECIFICATION Spec
CONSTANTS
  Requests = {r1, r2, r3}
  None = None
  Unread = Unread
  MaxKeys = 2
  MaxTime = 2
  Limit = 2
  Window = 2
  Skew = 1
  Validity = 2
SYMMETRY Symmetry
INVARIANTS IInv
PROPERTIES LimiterIsExact OnlyOverlapGoesBack
CHECK_DEADLOCK FALSE
