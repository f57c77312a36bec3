SPECIFICATION Spec
CONSTANTS
  Users = {u1}
  Courses = {c1, c2}
  Requests = {r1, r2}
  Prices = {0, 2}
  Amounts = {2}
  MaxChanges = 1
  MaxFaults = 1
SYMMETRY Interchangeable
INVARIANTS
  PaidAccess
  PaymentsCharged
  AtMostOneUnentitled
  LateRequestRefused
PROPERTY ImplementsEntitlement
CHECK_DEADLOCK FALSE
