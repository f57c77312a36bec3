SPECIFICATION MCSpec
CONSTANTS
  Students = {s1, s2}
  Tabs = {t1, t2}
  Old = {e1, e2}
  MaxClicks = 3
  MaxFaults = 1
  None = None
SYMMETRY Interchangeable
INVARIANTS
  PageIsRight
  CountIsRight
CHECK_DEADLOCK FALSE
