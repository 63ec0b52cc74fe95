SPECIFICATION Spec
CONSTANTS
  Admins = {a1, a2}
  Requests = {r1, r2}
  Files <- AnyFile
  MaxRequests = 4
  Faults = TRUE
SYMMETRY AdminsAndSlots
INVARIANTS TypeOK AvatarShowsUpload AnswersAreStored
