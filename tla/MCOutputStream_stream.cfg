\* Three jobs, a control channel of two slots.
SPECIFICATION FairSpec
CONSTANTS
  j1 = j1
  j2 = j2
  j3 = j3
  Job = {j1, j2, j3}
  CtrlCap = 2
  None = None
INVARIANTS InterruptedOnlyByLaterClear StallsOnlyAfterFailure
PROPERTIES EveryoneAnswered CloseCompletes
\* A closed stream to which nothing more is sent stops.
CHECK_DEADLOCK FALSE
