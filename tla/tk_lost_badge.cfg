SPECIFICATION Spec
CONSTANTS
  Sellers = {s1}
  Admins = {1}
  Tickets = {t1}
  Requests = {r1, r2}
  MaxRequests = 4
  Elapse <- Distinct
  Overlapping = {t1}
  Faulty = {}
  ZeroId = {}
INVARIANT CursorMeansSent
