\* Four requests of any kind at once, so that a row can be read, deleted, made
\* anew with the same hash, and then written by who has read the first one.
SPECIFICATION Spec
CONSTANTS
  q1 = q1
  q2 = q2
  q3 = q3
  q4 = q4
  Request = {q1, q2, q3, q4}
  Conn = {"a", "b"}
  Text = {1}
  Password = {"p"}
  Key = {"k"}
  None = None
SYMMETRY AnyRequest
INVARIANTS HashIdentifiesRuntime NoLeftoverPassword
PROPERTIES CompleteStaysComplete HistoryIsExact
\* Every request ends.
CHECK_DEADLOCK FALSE
