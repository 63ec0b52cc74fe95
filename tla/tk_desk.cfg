SPECIFICATION FairSpec
CONSTANTS
  Sellers = {s1}
  Admins = {1, 2}
  Tickets = {t1, t2}
  Requests = {r1, r2}
  MaxRequests = 4
  Elapse <- Distinct
  Overlapping = {}
  Faulty = {}
  ZeroId = {1}
INVARIANTS UnseenReplyIsUnread AssigneeMatchesActive
PROPERTIES ImplementsDesk ReplyIsAnnounced
