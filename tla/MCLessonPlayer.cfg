SPECIFICATION LPFairSpec
CONSTANTS
  LessonCount = 3
  Questions <- MCQuestions
  MaxClicks = 4
  MaxFailures = 1
  None = None
INVARIANTS
  
  EndedIsStored
PROPERTY SpinnerEnds
CHECK_DEADLOCK FALSE
