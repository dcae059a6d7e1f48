\* Two menus, two actions each, a queue, two connections, eight edits.
SPECIFICATION FlowSpec
CONSTANTS
  MaxFns = 2
  MaxActions = 2
  MaxQueues = 1
  MaxConnections = 2
  MaxRoutes = 2
  MaxEdits = 8
INVARIANTS GraphSurvivesSave GraphShowsRuntime SavedIsAccepted
PROPERTIES RemovalBreaksInbound
\* The operator may stop, and the edits run out.
CHECK_DEADLOCK FALSE
