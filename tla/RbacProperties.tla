---------------------------- MODULE RbacProperties ----------------------------
(***************************************************************************)
(* The correctness properties of Rbac, and the mapping under which it      *)
(* implements AccessTable.                                                 *)
(***************************************************************************)
EXTENDS Rbac, FiniteSets

Rows(table) == {n \in DOMAIN table : table[n] # None}

Ops ==
  {"create_role", "update_role", "assign", "remove_role", "remove_grant", "create_permission",
   "update_permission", "remove_permission", "create_admin", "update_admin", "toggle_admin",
   "remove_admin"}
Places ==
  Ops \union
  {"idle", "guard", "insert_role", "check_role_name", "write_role", "find_permissions",
   "drop_grants", "insert_grants", "drop_role_grants", "delete_role", "drop_grant",
   "insert_permission", "check_permission_name", "write_permission", "delete_permission",
   "load_role", "insert_admin", "check_phone", "check_new_role", "write_admin", "write_active",
   "write_deleted"}
Names ==
  RoleNames \union PermissionNames \union Phones \union SeedNames
    \union {Manager, SuperAdmin, "admin_support", "close_ticket", "p1", "p2", None}

AdminRow == [phone: Names, role: Nat, active: BOOLEAN, deleted: BOOLEAN]
Call == [op: Ops \union {None}, id: Nat, name: Names, role: Nat, perms: SUBSET Nat, set: BOOLEAN]
Request == [pc: Places, call: Call, as: {None, Manager, SuperAdmin}, asRole: Nat, row: AdminRow]

(* Every variable has its type. *)
TypeOK ==
  /\ roles \in Seq(Names) /\ permissions \in Seq(Names)
  /\ grants \subseteq (DOMAIN roles) \X (DOMAIN permissions)
  /\ admins \in Seq(AdminRow)
  /\ reqs \in [Requests -> Request]
  /\ failed \subseteq Call
  /\ served \in 0..MaxRequests

-------------------------------------------------------------------------------
(* Whatever overlaps, and whatever is cut short *)

(* Every admin has a role that exists, every granted permission and the    *)
(* role it is granted to exist, and no two rows share a name or a phone:   *)
(* the checks of the handlers race, the keys of the tables settle it.      *)
Consistent ==
  /\ \A a \in DOMAIN admins : Row(roles, admins[a].role)
  /\ grants \subseteq Rows(roles) \X Rows(permissions)
  /\ \A m, n \in Rows(roles) : roles[m] = roles[n] => m = n
  /\ \A m, n \in Rows(permissions) : permissions[m] = permissions[n] => m = n
  /\ \A a, b \in DOMAIN admins : admins[a].phone = admins[b].phone => a = b

(* What a super_admin does by update or toggle-active: it finds a manager  *)
(* only where another request has given the admin that role after it was   *)
(* loaded and found to be none, and it makes nobody a manager. As long as  *)
(* no request names a role manager; to remove a manager and to create one  *)
(* is open to a super_admin, AdminsService.remove and create do not look.  *)
SuperAdminSparesManagers ==
  [][\A r \in Requests, a \in DOMAIN admins :
       a = reqs[r].call.id /\ reqs[r].as = SuperAdmin /\ reqs[r].pc \in {"write_admin", "write_active"}
       /\ reqs[r] # reqs'[r] /\ admins' # admins
         => /\ RoleOf(a) = Manager => admins[a].role # reqs[r].row.role
            /\ RoleOf(a)' = Manager => RoleOf(a) = Manager]_vars

-------------------------------------------------------------------------------
(* When no two requests that touch the same thing run at once *)

(* The handlers check all that the database would refuse: no request ends  *)
(* in an error of the database, but for an update that gives an admin a    *)
(* role that does not exist, which AdminsService.update does not check.    *)
OnlyMissingRolesFail ==
  \A c \in failed : c.op = "update_admin" /\ c.role \notin Rows(roles)

Running(pc, n) == {r \in Requests : At(r, pc) /\ reqs[r].call.id = n}

Live == {n \in Rows(roles) : Running("delete_role", n) = {}}

Orders ==
  {<<reqs[r].call.id, reqs[r].call.perms>> :
     r \in {q \in Requests : At(q, "find_permissions") \/ At(q, "drop_grants")}}

(* While an assignment is between its two statements the role already has  *)
(* the new permissions; while a removal is, the role is already gone.      *)
Granted ==
  {g \in grants : g[1] \in Live /\ Running("insert_grants", g[1]) = {}}
    \union UNION {GrantsOf(reqs[r].call.id, reqs[r].call.perms) :
                  r \in {q \in Requests : At(q, "insert_grants")}}

Table == INSTANCE AccessTable WITH
           live <- Live,
           known <- Rows(permissions),
           granted <- Granted,
           orders <- Orders,
           held <- {<<a, admins[a].role>> : a \in DOMAIN admins}

(* Roles and permissions change as in AccessTable: an assignment replaces  *)
(* the permissions of one role by just those asked for, and nothing that   *)
(* is in use goes, whichever requests about other things run meanwhile.    *)
ImplementsAccessTable == Table!Spec

-------------------------------------------------------------------------------
(* What the refusals say, of any requests *)

(* RolesService.remove, 400: a role that admins have cannot be removed.    *)
(* It says so before it has taken anything from the role.                  *)
RoleInUseKeepsPermissions ==
  [][\A r \in Requests :
       At(r, "drop_role_grants") /\ grants' # grants /\ reqs'[r].pc = "delete_role"
       /\ reqs[r] # reqs'[r] => Members(reqs[r].call.id) = {}]_vars

===============================================================================
