SPECIFICATION FairSpec
CONSTANTS
  Sellers = {7}
  Tokens = {k1}
  Requests = {r1, r2}
  MaxRequests = 3
  MaxTime = 4
  Throttle = 2
  Faults = TRUE
INVARIANTS TypeOK SessionsWithinCore AcceptedWithinCore NoErrors
PROPERTIES OnlyExpiredIsRemoved WritesAreThrottled ImplementsGate RevocationTakesEffect ExpiredSessionsGo
