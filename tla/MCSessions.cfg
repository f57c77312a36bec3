SPECIFICATION Spec
CONSTANTS
  Requests = {r1, r2, r3, r4}
  First = First
  None = None
  LockAfter = 2
  MaxExpiries = 1
SYMMETRY Interchangeable
INVARIANTS
  DeadSecretRefused
  LockIsEarned
PROPERTY OnlyLoginsReopen
CHECK_DEADLOCK FALSE
