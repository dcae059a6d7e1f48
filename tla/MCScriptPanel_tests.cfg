\* Two scripts, two tests, undo of one step.
SPECIFICATION PanelSpec
CONSTANTS
  s1 = s1
  s2 = s2
  r1 = r1
  r2 = r2
  raw = raw
  neat = neat
  bad = bad
  Script = {s1, s2}
  Source = {raw, neat, bad}
  Bad = {bad}
  Neat = neat
  Run = {r1, r2}
  MaxUndo = 1
  Nil = Nil
INVARIANTS VerdictIsOfShownCode ShownIsNewest
PROPERTY TestsEnd
\* The operator may stop.
CHECK_DEADLOCK FALSE
