SPECIFICATION CWFairSpec
CONSTANTS
  MaxSections = 2
  PerSection = 1
  MaxLessons = 2
  MaxClicks = 4
  MaxFaults = 1
  MaxUploads = 1
  MaxEdits = 5
  None = None
INVARIANTS
  EntriesInPlace
  LeavesWhenStored
  NothingTwice
PROPERTY ButtonsComeBack
CHECK_DEADLOCK FALSE
