SPECIFICATION FairSpec
CONSTANTS
  Enrollments = {e1}
  Lessons = {l1, l2}
  Requests = {r1, r2}
  MaxEdits = 1
  MaxFaults = 1
INVARIANTS
  OneJobPerCertificate
  FileStored
PROPERTIES
  SettledStays
  AnnouncedIsEarned
  CompletedIsCertified
CHECK_DEADLOCK FALSE
