\* Three definitions, three keys or gotos, two scripts at a time.
SPECIFICATION Spec
CONSTANTS
  m1 = m1
  m2 = m2
  k1 = k1
  r1 = r1
  Fn = {m1, m2}
  Key = {k1}
  Definition <- AllDefinitions
  MaxScripts = 2
  Readout = {r1}
  None = None
  MaxMoves = 3
  PrefixCap = 9
  ScriptKeyCap = 1
  ActionCap = 4
INVARIANTS AnnouncedOrPending KeysReachTheScript
 
CHECK_DEADLOCK FALSE
