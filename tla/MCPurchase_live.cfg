SPECIFICATION OpenSpec
CONSTANTS
  Users = {u1}
  Courses = {c1, c2}
  Requests = {r1, r2}
  Prices = {2}
  Amounts = {2}
  MaxChanges = 1
  MaxFaults = 0
PROPERTIES
  PaidEventuallyEntitled
  RequestEnds
CHECK_DEADLOCK FALSE
