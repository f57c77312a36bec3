SPECIFICATION FairSpec
CONSTANTS
  Users = {u1}
  Requests = {r1, r2}
  Deliveries = {d1, d2}
  None = None
  MaxNotices = 1
  MaxExpiries = 1
  MaxFaults = 1
INVARIANTS
  PremiumIsSubscribed
  PaymentsBilled
PROPERTIES
  DroppedStays
  ChargeRecorded
CHECK_DEADLOCK FALSE
