SPECIFICATION Spec
CONSTANTS
  Sellers = {7, 8}
  Tokens = {k1}
  Requests = {r1, r2}
  MaxRequests = 2
  MaxTime = 3
  Throttle = 2
  Faults = FALSE
SYMMETRY Slots
INVARIANT NoRequestFails
