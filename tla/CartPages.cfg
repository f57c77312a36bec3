SPECIFICATION FairSpec
CONSTANTS
  Users = {u1}
  Courses = {c1, c2}
  MaxClicks = 3
  MaxCalls = 2
  MaxFaults = 1
  None = None
INVARIANTS
  CartIsShown
  ChargedIsShown
PROPERTY
  PagesComeBack
CHECK_DEADLOCK FALSE
