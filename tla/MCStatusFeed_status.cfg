\* One connection, a queue of one, two sockets.
SPECIFICATION FeedSpec
CONSTANTS
  c1 = c1
  c2 = c2
  Conn = {c1}
  State = {"ready", "error"}
  QueueCap = 1
  WireCap = 1
  MaxEvents = 2
  MaxReport = 3
  MaxConnect = 2
  MaxReply = 2
  None = None
INVARIANT SettledIsCurrent
PROPERTY PageCatchesUp
CHECK_DEADLOCK FALSE
