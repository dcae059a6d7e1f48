\* Two calls at one listener that is drained, stopped, or both, with a limit of
\* one or two concurrent calls that a reload may change.
SPECIFICATION FairSpec
CONSTANTS
  c1 = c1
  c2 = c2
  Call = {c1, c2}
  Listener <- OneListener
  ListenerOf <- BothAtOne
  Limits = {1, 2}
  None = None
INVARIANT DrainTearsNothingDown
PROPERTIES DrainCompletes CallsAreCleanedUp
\* The process ends, by Stop or by a panic.
CHECK_DEADLOCK FALSE
