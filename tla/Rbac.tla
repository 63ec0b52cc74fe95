--------------------------------- MODULE Rbac ---------------------------------
(***************************************************************************)
(* Who may do what: admins, their roles, the permissions of a role, the    *)
(* guards that look at them, and the handlers that change them             *)
(* (src/admins, src/roles, src/permissions, src/common/guards). One action *)
(* per await, as in Ticketing.                                             *)
(*                                                                         *)
(* A table is a sequence of rows in the order of their ids, which are      *)
(* never used twice; a removed row is None. A role or a permission is its  *)
(* name.                                                                   *)
(*                                                                         *)
(* Left out: descriptions, categories, avatars and the copy of the role's  *)
(* name in admins.role_name, which nothing here reads; requests that give  *)
(* nothing to change; reading. A phone number stands for the phone and the *)
(* email, two unique columns that are handled alike.                       *)
(***************************************************************************)
EXTENDS Naturals, Sequences

CONSTANTS
  SeedPermissions,   \* the permissions of super_admin in the seed
  RoleNames,         \* names a request may give a role
  PermissionNames,   \* names a request may give a permission
  Phones,            \* numbers a request may give an admin
  Operations,        \* the requests that are made
  Requests,          \* slots for requests in flight
  MaxRequests,       \* bound: requests in a behaviour
  Overlap,           \* may requests run at once that touch the same thing?
  Faults             \* may a request be cut short?

None == "none"   \* no such row

SeedNames == {SeedPermissions[n] : n \in DOMAIN SeedPermissions}

ASSUME SeedIsATable ==
  /\ SeedPermissions \in Seq(SeedNames)
  /\ \A m, n \in DOMAIN SeedPermissions : SeedPermissions[m] = SeedPermissions[n] => m = n
  /\ SeedNames \intersect {"close_ticket", None} = {}
ASSUME NoneIsNoName == None \notin RoleNames \union PermissionNames \union Phones
ASSUME BoundIsNatural == MaxRequests \in Nat
ASSUME FlagsAreBoolean == Overlap \in BOOLEAN /\ Faults \in BOOLEAN

VARIABLES
  roles,         \* roles: a name per id
  permissions,   \* permissions: a name per id
  grants,        \* role_permissions: pairs of a role and a permission
  admins,        \* admins
  reqs,          \* the request running in each slot
  failed,        \* the calls that ended in an error of the database
  served         \* number of requests so far

vars == <<roles, permissions, grants, admins, reqs, failed, served>>

Manager == "manager"
SuperAdmin == "super_admin"

NoAdmin == [phone |-> None, role |-> 0, active |-> FALSE, deleted |-> FALSE]
Admin(phone, role) == [NoAdmin EXCEPT !.phone = phone, !.role = role, !.active = TRUE]

(* A call of the API: the row it is about, the name or phone it gives, the *)
(* role it gives, and the permissions, if it gives any (set).              *)
NoCall == [op |-> None, id |-> 0, name |-> None, role |-> 0, perms |-> {}, set |-> FALSE]

(* A request: where it is, its call, the caller's role as JwtStrategy      *)
(* loaded it, and the row that the handler loaded.                         *)
Idle == [pc |-> "idle", call |-> NoCall, as |-> None, asRole |-> 0, row |-> NoAdmin]

(* The seed, shortened, and a first super_admin. The permission of the     *)
(* support is granted as in the seed, or to nobody any more.               *)
Init ==
  /\ roles = <<Manager, SuperAdmin, "admin_support">>
  /\ permissions = Append(SeedPermissions, "close_ticket")
  /\ \E toClose \in {{}, {1, 3}} :
       grants = ({1, 2} \X DOMAIN SeedPermissions) \union (toClose \X {Len(permissions)})
  /\ admins = <<Admin("p1", 1), Admin("p2", 2)>>
  /\ reqs = [r \in Requests |-> Idle]
  /\ failed = {}
  /\ served = 0

-------------------------------------------------------------------------------
(* Helpers *)

Row(table, n) == n \in DOMAIN table /\ table[n] # None
IsNamed(table, name) == \E n \in DOMAIN table : table[n] = name
RoleName(n) == IF Row(roles, n) THEN roles[n] ELSE None
RoleOf(a) == RoleName(admins[a].role)
Members(n) == {a \in DOMAIN admins : admins[a].role = n}
PermissionsOf(n) == {g[2] : g \in {h \in grants : h[1] = n}}

At(r, pc) == reqs[r].pc = pc
Goto(r, pc) == reqs' = [reqs EXCEPT ![r].pc = pc]
Finish(r) == reqs' = [reqs EXCEPT ![r] = Idle]

(* An error of the database ends the request; nothing is written. *)
Fail(r) ==
  /\ Finish(r)
  /\ failed' = failed \union {reqs[r].call}
  /\ UNCHANGED <<roles, permissions, grants, admins>>

(* To the next step when ok, otherwise the request is refused. *)
Check(r, ok, pc) ==
  /\ IF ok THEN Goto(r, pc) ELSE Finish(r)
  /\ UNCHANGED <<roles, permissions, grants, admins, failed, served>>

-------------------------------------------------------------------------------
(* Calls and guards *)

PermissionSets == SUBSET DOMAIN permissions

CallsOf(ops, ids, names, rs, ps, set) ==
  [op: ops, id: ids, name: names, role: rs, perms: ps, set: set]

Calls ==
  LET n == DOMAIN roles
      p == DOMAIN permissions
      a == DOMAIN admins
      any == {None}
      none == {{}}
  IN {c \in UNION
       {CallsOf({"create_role"}, {0}, RoleNames, {0}, PermissionSets, {TRUE}),
        CallsOf({"update_role"}, n, RoleNames \union any, {0}, PermissionSets, {TRUE}),
        CallsOf({"update_role"}, n, RoleNames, {0}, none, {FALSE}),
        CallsOf({"assign"}, n, any, {0}, PermissionSets, {TRUE}),
        CallsOf({"remove_role"}, n, any, {0}, none, {FALSE}),
        CallsOf({"remove_grant"}, n, any, {0}, {{q} : q \in p}, {FALSE}),
        CallsOf({"create_permission"}, {0}, PermissionNames, {0}, none, {FALSE}),
        CallsOf({"update_permission"}, p, PermissionNames, {0}, none, {FALSE}),
        CallsOf({"remove_permission"}, p, any, {0}, none, {FALSE}),
        CallsOf({"create_admin"}, {0}, Phones, n, none, {FALSE}),
        CallsOf({"update_admin"}, a, Phones \union any, {0} \union n, none, {FALSE}),
        CallsOf({"toggle_admin", "remove_admin"}, a, any, {0}, none, {FALSE})} :
      c.op \in Operations}

(* @Permissions of the controllers *)
Needed(op) ==
  CASE op \in {"create_admin", "toggle_admin"} -> op
    [] op = "update_admin" -> "edit_admin"
    [] op = "remove_admin" -> "delete_admin"
    [] OTHER -> "manage_roles"

(* What a call is about: two calls that share none of it run apart. *)
Touched(c) ==
  (CASE c.op \in {"create_role", "update_role", "assign", "remove_role", "remove_grant"} ->
          {<<"role", c.id>>, <<"role name", c.name>>} \union {<<"permission", p>> : p \in c.perms}
     [] c.op \in {"create_permission", "update_permission", "remove_permission"} ->
          {<<"permission", c.id>>, <<"permission name", c.name>>}
     [] c.op = None -> {}
     [] OTHER -> {<<"admin", c.id>>, <<"phone", c.name>>, <<"role", c.role>>}
                   \union {<<"role", admins[a].role>> : a \in DOMAIN admins \intersect {c.id}})
  \ ({"role", "permission", "admin"} \X {0} \union {"role name", "permission name", "phone"} \X {None})

MayCall(a) == admins[a].active /\ RoleOf(a) \in {Manager, SuperAdmin}

(* JwtStrategy loads the caller with the role; RolesGuard follows without  *)
(* an await.                                                               *)
Authenticate(r, caller, c) ==
  LET role == RoleOf(caller) IN
  /\ reqs[r] = Idle
  /\ served < MaxRequests
  /\ Overlap \/ \A q \in Requests : Touched(reqs[q].call) \intersect Touched(c) = {}
  /\ MayCall(caller)
  /\ reqs' = [reqs EXCEPT ![r] =
       [Idle EXCEPT !.pc = IF role = Manager THEN c.op ELSE "guard", !.call = c,
                    !.as = role, !.asRole = admins[caller].role]]
  /\ served' = served + 1
  /\ UNCHANGED <<roles, permissions, grants, admins, failed>>

(* PermissionsGuard reads the permissions of the role the caller had.      *)
PermissionsGuard(r) ==
  /\ At(r, "guard")
  /\ Check(r, \E p \in PermissionsOf(reqs[r].asRole) : permissions[p] = Needed(reqs[r].call.op),
           reqs[r].call.op)

-------------------------------------------------------------------------------
(* Roles: create, update *)

CreateRole(r) ==
  /\ At(r, "create_role")
  /\ Check(r, ~IsNamed(roles, reqs[r].call.name), "insert_role")

InsertRole(r) ==
  LET c == reqs[r].call IN
  /\ At(r, "insert_role")
  /\ IF IsNamed(roles, c.name) THEN Fail(r)
     ELSE /\ roles' = Append(roles, c.name)
          /\ IF c.perms = {} THEN Finish(r)
             ELSE reqs' = [reqs EXCEPT ![r].pc = "assign", ![r].call.id = Len(roles) + 1]
          /\ UNCHANGED <<permissions, grants, admins, failed>>
  /\ UNCHANGED served

UpdateRole(r) ==
  LET c == reqs[r].call IN
  /\ At(r, "update_role")
  /\ Check(r, Row(roles, c.id),
           IF c.name \in {None, RoleName(c.id)} THEN "write_role" ELSE "check_role_name")

CheckRoleName(r) ==
  /\ At(r, "check_role_name")
  /\ Check(r, ~IsNamed(roles, reqs[r].call.name), "write_role")

(* An update of a row that is gone changes nothing. *)
Rename(table, n, name) ==
  IF name # None /\ Row(table, n) THEN [table EXCEPT ![n] = name] ELSE table
NameIsFree(table, n, name) == name = None \/ \A m \in DOMAIN table : table[m] = name => m = n

WriteRole(r) ==
  LET c == reqs[r].call IN
  /\ At(r, "write_role")
  /\ IF Row(roles, c.id) /\ ~NameIsFree(roles, c.id, c.name) THEN Fail(r)
     ELSE /\ roles' = Rename(roles, c.id, c.name)
          /\ IF c.set THEN Goto(r, "assign") ELSE Finish(r)
          /\ UNCHANGED <<permissions, grants, admins, failed>>
  /\ UNCHANGED served

-------------------------------------------------------------------------------
(* assignPermissions, of its own or at the end of create and update *)

AssignPermissions(r) ==
  /\ At(r, "assign")
  /\ Check(r, Row(roles, reqs[r].call.id), "find_permissions")

FindPermissions(r) ==
  /\ At(r, "find_permissions")
  /\ Check(r, \A p \in reqs[r].call.perms : Row(permissions, p), "drop_grants")

(* Wrong: role and permission change places. *)
GrantsSwapped(n, ps) == ps \X {n}
GrantsOf(n, ps) == {n} \X ps

(* Wrong: only the permissions that are given again are taken away. *)
KeepGrants(r) ==
  LET c == reqs[r].call IN
  /\ At(r, "drop_grants")
  /\ grants' = grants \ GrantsOf(c.id, c.perms)
  /\ IF c.perms = {} THEN Finish(r) ELSE Goto(r, "insert_grants")
  /\ UNCHANGED <<roles, permissions, admins, failed, served>>

DropGrants(r) ==
  LET c == reqs[r].call IN
  /\ At(r, "drop_grants")
  /\ grants' = grants \ GrantsOf(c.id, PermissionsOf(c.id))
  /\ IF c.perms = {} THEN Finish(r) ELSE Goto(r, "insert_grants")
  /\ UNCHANGED <<roles, permissions, admins, failed, served>>

(* save() looks which of the rows exist and inserts the others: rows that  *)
(* another request has inserted since the drop are found, or hit the       *)
(* primary key.                                                            *)
InsertGrants(r) ==
  LET c == reqs[r].call
      new == GrantsOf(c.id, c.perms)
  IN
  /\ At(r, "insert_grants")
  /\ \/ /\ Row(roles, c.id) /\ \A p \in c.perms : Row(permissions, p)
        /\ grants' = grants \union new
        /\ Finish(r)
        /\ UNCHANGED <<roles, permissions, admins, failed>>
     \/ /\ ~Row(roles, c.id) \/ (\E p \in c.perms : ~Row(permissions, p)) \/ new \intersect grants # {}
        /\ Fail(r)
  /\ UNCHANGED served

-------------------------------------------------------------------------------
(* Roles: remove, removePermission *)

(* Wrong: the admins of the role are not looked for. *)
RemoveAnyRole(r) == At(r, "remove_role") /\ Check(r, Row(roles, reqs[r].call.id), "drop_role_grants")

RemoveRole(r) ==
  LET n == reqs[r].call.id IN
  /\ At(r, "remove_role")
  /\ Check(r, Row(roles, n) /\ Members(n) = {}, "drop_role_grants")

DropRoleGrants(r) ==
  LET n == reqs[r].call.id IN
  /\ At(r, "drop_role_grants")
  /\ grants' = grants \ GrantsOf(n, PermissionsOf(n))
  /\ Goto(r, "delete_role")
  /\ UNCHANGED <<roles, permissions, admins, failed, served>>

(* The foreign key of admins refuses, that of role_permissions cascades. *)
DeleteRole(r) ==
  LET n == reqs[r].call.id IN
  /\ At(r, "delete_role")
  /\ IF Members(n) # {} THEN Fail(r)
     ELSE /\ roles' = [roles EXCEPT ![n] = None]
          /\ grants' = grants \ GrantsOf(n, PermissionsOf(n))
          /\ Finish(r)
          /\ UNCHANGED <<permissions, admins, failed>>
  /\ UNCHANGED served

RemovePermission(r) ==
  LET c == reqs[r].call IN
  /\ At(r, "remove_grant")
  /\ Check(r, GrantsOf(c.id, c.perms) \subseteq grants, "drop_grant")

DropGrant(r) ==
  LET c == reqs[r].call IN
  /\ At(r, "drop_grant")
  /\ grants' = grants \ GrantsOf(c.id, c.perms)
  /\ Finish(r)
  /\ UNCHANGED <<roles, permissions, admins, failed, served>>

-------------------------------------------------------------------------------
(* Permissions: create, update, remove *)

CreatePermission(r) ==
  /\ At(r, "create_permission")
  /\ Check(r, ~IsNamed(permissions, reqs[r].call.name), "insert_permission")

InsertPermission(r) ==
  LET name == reqs[r].call.name IN
  /\ At(r, "insert_permission")
  /\ IF IsNamed(permissions, name) THEN Fail(r)
     ELSE /\ permissions' = Append(permissions, name)
          /\ Finish(r)
          /\ UNCHANGED <<roles, grants, admins, failed>>
  /\ UNCHANGED served

UpdatePermission(r) ==
  LET c == reqs[r].call IN
  /\ At(r, "update_permission")
  /\ Check(r, Row(permissions, c.id),
           IF c.name = permissions[c.id] THEN "write_permission" ELSE "check_permission_name")

CheckPermissionName(r) ==
  /\ At(r, "check_permission_name")
  /\ Check(r, ~IsNamed(permissions, reqs[r].call.name), "write_permission")

WritePermission(r) ==
  LET c == reqs[r].call IN
  /\ At(r, "write_permission")
  /\ IF Row(permissions, c.id) /\ ~NameIsFree(permissions, c.id, c.name) THEN Fail(r)
     ELSE /\ permissions' = Rename(permissions, c.id, c.name)
          /\ Finish(r)
          /\ UNCHANGED <<roles, grants, admins, failed>>
  /\ UNCHANGED served

LoadUnused(r) ==
  LET p == reqs[r].call.id IN
  /\ At(r, "remove_permission")
  /\ Check(r, Row(permissions, p) /\ \A g \in grants : g[2] # p, "delete_permission")

(* The foreign key of role_permissions cascades. *)
DeletePermission(r) ==
  LET p == reqs[r].call.id IN
  /\ At(r, "delete_permission")
  /\ permissions' = [permissions EXCEPT ![p] = None]
  /\ grants' = {g \in grants : g[2] # p}
  /\ Finish(r)
  /\ UNCHANGED <<roles, admins, failed, served>>

-------------------------------------------------------------------------------
(* Admins *)

(* Wrong: the number of a removed admin may be used again. *)
PhoneIsFreed(a, phone) ==
  \A b \in DOMAIN admins : admins[b].phone = phone /\ ~admins[b].deleted => b = a
PhoneIsFree(a, phone) == \A b \in DOMAIN admins : admins[b].phone = phone => b = a

CreateAdmin(r) ==
  /\ At(r, "create_admin")
  /\ Check(r, PhoneIsFree(0, reqs[r].call.name), "load_role")

LoadRole(r) ==
  /\ At(r, "load_role")
  /\ Check(r, Row(roles, reqs[r].call.role), "insert_admin")

InsertAdmin(r) ==
  LET c == reqs[r].call IN
  /\ At(r, "insert_admin")
  /\ IF ~PhoneIsFree(0, c.name) \/ ~Row(roles, c.role) THEN Fail(r)
     ELSE /\ admins' = Append(admins, Admin(c.name, c.role))
          /\ Finish(r)
          /\ UNCHANGED <<roles, permissions, grants, failed>>
  /\ UNCHANGED served

LoadAnyAdmin(r, pc) ==
  /\ reqs' = [reqs EXCEPT ![r].pc = pc, ![r].row = admins[reqs[r].call.id]]
  /\ UNCHANGED <<roles, permissions, grants, admins, failed, served>>

(* The same, but no super_admin may go on with a manager. *)
LoadAdmin(r, pc) ==
  /\ IF reqs[r].as = SuperAdmin /\ RoleOf(reqs[r].call.id) = Manager THEN Finish(r)
     ELSE reqs' = [reqs EXCEPT ![r].pc = pc, ![r].row = admins[reqs[r].call.id]]
  /\ UNCHANGED <<roles, permissions, grants, admins, failed, served>>

GivesPhone(r, row) == reqs[r].call.name \notin {None, row.phone}
GivesRole(r, row) == reqs[r].call.role \notin {0, row.role}

(* Where update goes when the phone is settled. *)
AfterPhone(r, row) ==
  IF GivesRole(r, row) /\ reqs[r].as = SuperAdmin THEN "check_new_role"
  ELSE IF GivesRole(r, row) \/ GivesPhone(r, row) THEN "write_admin" ELSE "idle"

UpdateAdmin(r) ==
  LET row == admins[reqs[r].call.id] IN
  /\ At(r, "update_admin")
  /\ IF ~GivesPhone(r, row) /\ AfterPhone(r, row) = "idle"
     THEN Check(r, FALSE, "idle")
     ELSE LoadAdmin(r, IF GivesPhone(r, row) THEN "check_phone" ELSE AfterPhone(r, row))

CheckPhone(r) ==
  LET c == reqs[r].call IN
  /\ At(r, "check_phone")
  /\ Check(r, PhoneIsFree(c.id, c.name), AfterPhone(r, reqs[r].row))

(* A role that does not exist passes. *)
CheckNewRole(r) ==
  /\ At(r, "check_new_role")
  /\ Check(r, RoleName(reqs[r].call.role) # Manager, "write_admin")

WriteAdmin(r) ==
  LET c == reqs[r].call
      phone == IF GivesPhone(r, reqs[r].row) THEN c.name ELSE admins[c.id].phone
      role == IF GivesRole(r, reqs[r].row) THEN c.role ELSE admins[c.id].role
  IN
  /\ At(r, "write_admin")
  /\ IF ~PhoneIsFree(c.id, phone) \/ ~Row(roles, role) THEN Fail(r)
     ELSE /\ admins' = [admins EXCEPT ![c.id].phone = phone, ![c.id].role = role]
          /\ Finish(r)
          /\ UNCHANGED <<roles, permissions, grants, failed>>
  /\ UNCHANGED served

ToggleActive(r) == At(r, "toggle_admin") /\ LoadAdmin(r, "write_active")

WriteActive(r) ==
  /\ At(r, "write_active")
  /\ admins' = [admins EXCEPT ![reqs[r].call.id].active = ~reqs[r].row.active]
  /\ Finish(r)
  /\ UNCHANGED <<roles, permissions, grants, failed, served>>

RemoveAdmin(r) == At(r, "remove_admin") /\ LoadAnyAdmin(r, "write_deleted")

WriteDeleted(r) ==
  /\ At(r, "write_deleted")
  /\ admins' = [admins EXCEPT ![reqs[r].call.id].deleted = TRUE]
  /\ Finish(r)
  /\ UNCHANGED <<roles, permissions, grants, failed, served>>

-------------------------------------------------------------------------------

(* The database fails or the process stops. *)
Abort(r) ==
  /\ Faults
  /\ reqs[r] # Idle
  /\ Finish(r)
  /\ UNCHANGED <<roles, permissions, grants, admins, failed, served>>

RoleStep(r) ==
  \/ CreateRole(r) \/ InsertRole(r)
  \/ UpdateRole(r) \/ CheckRoleName(r) \/ WriteRole(r)
  \/ AssignPermissions(r) \/ FindPermissions(r) \/ DropGrants(r) \/ InsertGrants(r)
  \/ RemoveRole(r) \/ DropRoleGrants(r) \/ DeleteRole(r)
  \/ RemovePermission(r) \/ DropGrant(r)

PermissionStep(r) ==
  \/ CreatePermission(r) \/ InsertPermission(r)
  \/ UpdatePermission(r) \/ CheckPermissionName(r) \/ WritePermission(r)
  \/ LoadUnused(r) \/ DeletePermission(r)

AdminStep(r) ==
  \/ CreateAdmin(r) \/ LoadRole(r) \/ InsertAdmin(r)
  \/ UpdateAdmin(r) \/ CheckPhone(r) \/ CheckNewRole(r) \/ WriteAdmin(r)
  \/ ToggleActive(r) \/ WriteActive(r)
  \/ RemoveAdmin(r) \/ WriteDeleted(r)

(* All is done, or nobody is left who may ask for anything: the last       *)
(* manager may have deactivated the last manager.                          *)
AtRest ==
  /\ served = MaxRequests \/ \A a \in DOMAIN admins : ~MayCall(a)
  /\ \A r \in Requests : reqs[r] = Idle
  /\ UNCHANGED vars

Next ==
  \/ \E r \in Requests :
       \/ \E caller \in DOMAIN admins, c \in Calls : Authenticate(r, caller, c)
       \/ PermissionsGuard(r)
       \/ RoleStep(r) \/ PermissionStep(r) \/ AdminStep(r)
       \/ Abort(r)
  \/ AtRest

Spec == Init /\ [][Next]_vars

===============================================================================
