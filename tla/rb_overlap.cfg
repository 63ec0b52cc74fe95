SPECIFICATION Spec
CONSTANTS
  SeedPermissions <- AdminPermissions
  RoleNames = {"admin_support", "admin_finance"}
  PermissionNames = {"edit_admin", "view_logs"}
  Phones = {"p1", "p4"}
  Operations = {"create_role", "update_role", "assign", "remove_role", "remove_grant",
                "create_permission", "update_permission", "remove_permission",
                "create_admin", "update_admin", "toggle_admin", "remove_admin"}
  Requests = {r1, r2}
  MaxRequests = 2
  Overlap = TRUE
  Faults = TRUE
SYMMETRY Slots
INVARIANTS TypeOK Consistent
PROPERTY SuperAdminSparesManagers
