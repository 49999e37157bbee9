SPECIFICATION Spec
CONSTANTS
  Requests = {r1, r2}
  Ttl = 2
  MaxTime = 3
  MaxSessions = 2
  MaxSecrets = 3
  MaxPasswords = 2
  MaxRequests = 4
  None = None
INVARIANTS TypeOK SecretSpentOnce EndedStaysOut OnlyPresentPassword HandedIsForced
PROPERTIES RevokedStays
SYMMETRY MCSymmetry
CHECK_DEADLOCK FALSE
