SPECIFICATION Spec
CONSTANTS
  SeedPermissions <- AdminPermissions
  RoleNames = {"manager", "admin_finance"}
  PermissionNames = {"view_logs"}
  Phones = {"p4"}
  Operations = {"create_role", "update_role", "assign", "remove_role", "remove_grant",
                "create_permission", "update_permission", "remove_permission",
                "create_admin", "update_admin", "toggle_admin", "remove_admin"}
  Requests = {r1, r2}
  MaxRequests = 2
  Overlap = FALSE
  Faults = FALSE
SYMMETRY Slots
INVARIANT OnlyMissingRolesFail
PROPERTY ImplementsAccessTable
