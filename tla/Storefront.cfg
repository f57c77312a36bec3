SPECIFICATION FairSpec
CONSTANTS
  Courses = {c1}
  Users = {u1}
  Requests = {r1, r2, r3}
  Visitors = {r3}
INVARIANTS
  OutdatedIsOwed
PROPERTY CatchesUp
