\* Two bridges that share one pending slot, two requests at a time.
SPECIFICATION Spec
CONSTANTS
  w1 = w1
  w2 = w2
  k1 = k1
  k2 = k2
  Worker = {w1, w2}
  Identity = {k1, k2}
  MaxBridge = 2
  PendingLimit = 1
  None = None
SYMMETRY Alike
INVARIANT OwnBridge
PROPERTY ClosedEnrollmentsApproveNoMore
\* The bridges that may be approved run out.
CHECK_DEADLOCK FALSE
