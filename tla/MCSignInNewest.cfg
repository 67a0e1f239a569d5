CONSTANTS
  c1 = c1
  c2 = c2
  l1 = l1
  l2 = l2
  Codes = {c1, c2}
  Logins = {l1, l2}
  Nothing = Nothing
  Resend = 1
  Ttl = 2
  Window = 3
  Limit = 2
  MaxAttempts = 2
  MaxTime = 3
SPECIFICATION Spec
INVARIANTS NewestCodeWorks
CHECK_DEADLOCK FALSE
