SPECIFICATION FairSpec
CONSTANTS
  Slots = {s1, s2, s3}
  MaxTokens = 2
INVARIANTS
  SingleRefresh
PROPERTIES
  CallsEnd
  LogoutClears
CHECK_DEADLOCK FALSE
