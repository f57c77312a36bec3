SPECIFICATION FairSpec
CONSTANTS
  Requests = {r1, r2, r3}
  Emails = {e1}
  Identities = {i1}
  Attempts = 2
  MaxFaults = 1
  None = None
INVARIANTS
  AccountsSound
  MailedTokenOpens
PROPERTY RegisteredIsMailed
CHECK_DEADLOCK FALSE
