SPECIFICATION Spec
CONSTANTS
  Sellers = {s1, s2}
  Admins = {1, 2}
  Tickets = {t1, t2}
  Requests = {r1, r2}
  MaxRequests = 4
  Elapse <- Distinct
  Overlapping = {t1}
  Faulty = {t2}
  ZeroId = {1}
SYMMETRY SellersAndSlots
INVARIANTS TypeOK NoPhantomReply AssigneeIsInHistory ClosingColumnsAgree OneActiveAssignment
PROPERTIES HistoryIsALog StatusChangesOnRequest BadgeClearedBySeller
