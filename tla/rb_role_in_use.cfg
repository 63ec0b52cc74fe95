SPECIFICATION Spec
CONSTANTS
  SeedPermissions <- TwoPermissions
  RoleNames = {"admin_finance"}
  PermissionNames = {"view_logs"}
  Phones = {"p4"}
  Operations = {"remove_role", "update_admin"}
  Requests = {r1, r2}
  MaxRequests = 2
  Overlap = TRUE
  Faults = FALSE
PROPERTY RoleInUseKeepsPermissions
