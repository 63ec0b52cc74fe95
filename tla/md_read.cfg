SPECIFICATION Spec
CONSTANTS
  Admins = {a1}
  Requests = {r1}
  Files <- OneImage
  MaxRequests = 2
  Faults = FALSE
INVARIANT UploadsAreReadable
