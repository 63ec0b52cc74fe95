SPECIFICATION Spec
CONSTANTS
  Admins = {a1, a2}
  Requests = {r1, r2}
  MaxRequests = 5
  MaxTime = 5
  Lifetime = 2
  Cooldown = 1
  TokenLife = 2
  Overlapping = {a1}
  Faults = TRUE
SYMMETRY Slots
INVARIANTS TypeOK LoginsAreTimely CodesAreSpaced RedeemedOnce
PROPERTIES LoggedOutIsRefused ImplementsOneTimeCode
