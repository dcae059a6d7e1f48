\* With and without the poll loop: two documents, two saves, one failure.
SPECIFICATION FairSpec
CONSTANTS
  d0 = d0
  d1 = d1
  Document = {d0, d1}
  Initial = d0
  MaxFaults = 1
  MaxSaves = 2
  MaxInbox = 1
INVARIANTS InstalledTogether
PROPERTIES PollFindsNewest NoticeSuffices
\* The system stops for good once the process has shut down.
CHECK_DEADLOCK FALSE
