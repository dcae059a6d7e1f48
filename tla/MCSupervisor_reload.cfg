\* Two connections, two sockets, both shapes, every legal configuration saved
\* twice.
SPECIFICATION FairSpec
CONSTANTS
  s1 = s1
  s2 = s2
  s3 = s3
  Id <- TwoIds
  Sock = {s1, s2}
  Shape = {"registered", "inbound"}
  Client <- Four
  Saved <- AnySaved
  None = None
  Absent = Absent
  NoCred = NoCred
  Sup = Sup
  MaxApply = 2
INVARIANTS NoOrphanListener WantedIsServedOrRetried ServesNewest
PROPERTIES EventuallyServed  HealthyListenerKept ImplementsLease
\* The system stops for good once Stop has returned and no reload is left.
CHECK_DEADLOCK FALSE
