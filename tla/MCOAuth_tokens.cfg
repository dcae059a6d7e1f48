\* Two requests at a time, one authorization request, two grants and three
\* pairs of tokens.
SPECIFICATION Spec
CONSTANTS
  w1 = w1
  w2 = w2
  a1 = a1
  Worker = {w1, w2}
  Ask = {a1}
  Writers = {a1}
  MaxGrant = 2
  MaxPair = 3
  ClientsPerHour = 1
  None = None
SYMMETRY AnyWorker
INVARIANTS OneLineOfTokens RevokedAgentsAreOut
PROPERTIES ClosedRequestsGrantNoMore
\* Every pool of the instance can run out.
CHECK_DEADLOCK FALSE
