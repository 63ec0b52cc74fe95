------------------------------ MODULE RbacProofs ------------------------------
(***************************************************************************)
(* Theorems about Rbac, for any number of requests at once: what holds     *)
(* whether or not they touch the same things and whether or not they are   *)
(* cut short (Inv, SparingInv), what holds where requests that touch the   *)
(* same thing wait for each other (OrderlyInv), and that Rbac then         *)
(* implements AccessTable.                                                 *)
(***************************************************************************)
EXTENDS RbacProperties, TLAPS

AdminOps == {"update_admin", "toggle_admin", "remove_admin"}
Starts == AdminOps \union {"create_role"}

(* A request that loads an admin has the id of one: TypeOK alone is not    *)
(* inductive, for a row that is not there is nothing to keep. The creation *)
(* of a role is told apart because it alone changes the id of its call.    *)
RequestOK(q, n) ==
  /\ q.pc # "idle" => q.call.op \in Ops
  /\ q.pc \in Starts => q.call.op = q.pc
  /\ q.pc = "insert_role" => q.call.op = "create_role"
  /\ q.call.op \in AdminOps => q.call.id \in 1..n

RequestsInv ==
  reqs \in [Requests -> Request] /\ \A r \in Requests : RequestOK(reqs[r], Len(admins))

(* A table with its unique key. *)
NamesOK(table) ==
  /\ table \in Seq(Names)
  /\ \A m, n \in Rows(table) : table[m] = table[n] => m = n

TablesInv ==
  /\ NamesOK(roles) /\ NamesOK(permissions)
  /\ grants \subseteq Rows(roles) \X Rows(permissions)
  /\ admins \in Seq(AdminRow)
  /\ \A a \in DOMAIN admins : admins[a].role \in Rows(roles)
  /\ \A a, b \in DOMAIN admins : admins[a].phone = admins[b].phone => a = b

CountsInv == failed \subseteq Call /\ served \in 0..MaxRequests

Inv == RequestsInv /\ TablesInv /\ CountsInv

LEMMA InvSuffices == Inv => TypeOK /\ Consistent
<1> SUFFICES ASSUME Inv PROVE TypeOK /\ Consistent
  OBVIOUS
<1>1. Rows(roles) \subseteq DOMAIN roles /\ Rows(permissions) \subseteq DOMAIN permissions
  BY DEF Rows
<1>2. \A n : n \in Rows(roles) => Row(roles, n)
  BY DEF Rows, Row
<1> QED
  BY <1>1, <1>2 DEF Inv, RequestsInv, TablesInv, CountsInv, NamesOK, TypeOK, Consistent

-------------------------------------------------------------------------------
(* Tables                                                                  *)

LEMMA NameAdded ==
  ASSUME NEW table, NamesOK(table), NEW name \in Names, ~IsNamed(table, name)
  PROVE  NamesOK(Append(table, name)) /\ Rows(table) \subseteq Rows(Append(table, name))
<1> PICK new : new = Append(table, name)
  OBVIOUS
<1>1. /\ table \in Seq(Names) /\ new \in Seq(Names) /\ Len(table) \in Nat
      /\ DOMAIN table = 1..Len(table) /\ DOMAIN new = 1..(Len(table) + 1)
      /\ \A n \in DOMAIN table : new[n] = table[n]
      /\ new[Len(table) + 1] = name
  <2>1. table \in Seq(Names)
    BY DEF NamesOK
  <2> QED
    BY <2>1
<1>2. \A n \in DOMAIN new : n \in DOMAIN table \/ n = Len(table) + 1
  BY <1>1
<1>3. \A n \in DOMAIN table : new[n] # name
  BY <1>1 DEF IsNamed
<1>4. Rows(table) \subseteq Rows(new)
  BY <1>1 DEF Rows
<1>5. ASSUME NEW m \in Rows(new), NEW n \in Rows(new), new[m] = new[n]
      PROVE  m = n
  <2>1. m \in DOMAIN new /\ n \in DOMAIN new /\ new[m] # None /\ new[n] # None
    BY DEF Rows
  <2>2. CASE m \in DOMAIN table /\ n \in DOMAIN table
    BY <1>1, <1>5, <2>1, <2>2 DEF NamesOK, Rows
  <2> QED
    BY <1>1, <1>2, <1>3, <1>5, <2>1, <2>2
<1> QED
  BY <1>1, <1>4, <1>5 DEF NamesOK

LEMMA NameChanged ==
  ASSUME NEW table, NamesOK(table), NEW n, NEW name \in Names,
         ~(Row(table, n) /\ ~NameIsFree(table, n, name))
  PROVE  NamesOK(Rename(table, n, name)) /\ Rows(Rename(table, n, name)) = Rows(table)
<1> PICK new : new = Rename(table, n, name)
  OBVIOUS
<1>1. CASE name # None /\ Row(table, n)
  <2>1. new = [table EXCEPT ![n] = name] /\ n \in DOMAIN table
    BY <1>1 DEF Rename, Row
  <2>2. /\ table \in Seq(Names) /\ new \in Seq(Names) /\ DOMAIN new = DOMAIN table
        /\ new[n] = name /\ \A m \in DOMAIN table \ {n} : new[m] = table[m]
    BY <2>1 DEF NamesOK
  <2>3. \A m \in DOMAIN table : table[m] = name => m = n
    BY <1>1 DEF NameIsFree
  <2>4. Rows(new) = Rows(table)
    BY <1>1, <2>2 DEF Rows, Row
  <2>5. ASSUME NEW i \in Rows(new), NEW j \in Rows(new), new[i] = new[j]
        PROVE  i = j
    BY <2>2, <2>3, <2>4, <2>5 DEF NamesOK, Rows
  <2> QED
    BY <2>2, <2>4, <2>5 DEF NamesOK
<1>2. CASE ~(name # None /\ Row(table, n))
  BY <1>2 DEF Rename
<1> QED
  BY <1>1, <1>2

LEMMA RowRemoved ==
  ASSUME NEW table, NamesOK(table), NEW n, NEW new, new = [table EXCEPT ![n] = None]
  PROVE  NamesOK(new) /\ Rows(new) = Rows(table) \ {n}
<1>1. /\ table \in Seq(Names) /\ new \in Seq(Names) /\ DOMAIN new = DOMAIN table
      /\ n \in DOMAIN table => new[n] = None
      /\ \A m \in DOMAIN table \ {n} : new[m] = table[m]
  <2>1. table \in Seq(Names) /\ None \in Names
    BY DEF NamesOK, Names
  <2>2. CASE n \in DOMAIN table
    BY <2>1, <2>2
  <2>3. CASE n \notin DOMAIN table
    <3>1. new = table
      BY <2>1, <2>3
    <3> QED
      BY <2>1, <2>3, <3>1
  <2> QED
    BY <2>2, <2>3
<1>2. Rows(new) = Rows(table) \ {n}
  BY <1>1 DEF Rows
<1>3. \A i, j \in Rows(new) : new[i] = new[j] => i = j
  BY <1>1, <1>2 DEF NamesOK, Rows
<1> QED
  BY <1>1, <1>2, <1>3 DEF NamesOK

LEMMA AdminTypes ==
  ASSUME NEW phone \in Names, NEW role \in Nat
  PROVE  /\ NoAdmin \in AdminRow /\ Admin(phone, role) \in AdminRow
         /\ Admin(phone, role).phone = phone /\ Admin(phone, role).role = role
BY DEF NoAdmin, Admin, AdminRow, Names

(* The tables as a request may leave them: a role added, renamed, removed. *)
LEMMA RoleAdded ==
  ASSUME TablesInv, NEW name \in Names, ~IsNamed(roles, name), roles' = Append(roles, name),
         UNCHANGED <<permissions, grants, admins>>
  PROVE  TablesInv'
<1> PICK rs, new : rs = roles /\ new = Append(rs, name)
  OBVIOUS
<1>1. NamesOK(new) /\ Rows(rs) \subseteq Rows(new)
  BY NameAdded DEF TablesInv
<1>2. new = roles'
  OBVIOUS
<1> QED
  BY <1>1, <1>2 DEF TablesInv, NamesOK, Rows

LEMMA RoleRenamed ==
  ASSUME TablesInv, NEW n, NEW name \in Names, ~(Row(roles, n) /\ ~NameIsFree(roles, n, name)),
         roles' = Rename(roles, n, name), UNCHANGED <<permissions, grants, admins>>
  PROVE  TablesInv'
<1> PICK rs, new : rs = roles /\ new = Rename(rs, n, name)
  OBVIOUS
<1>1. NamesOK(new) /\ Rows(new) = Rows(rs)
  BY NameChanged DEF TablesInv
<1>2. new = roles'
  OBVIOUS
<1> QED
  BY <1>1, <1>2 DEF TablesInv, NamesOK, Rows

LEMMA RoleDeleted ==
  ASSUME TablesInv, NEW n, Members(n) = {}, roles' = [roles EXCEPT ![n] = None],
         grants' = grants \ GrantsOf(n, PermissionsOf(n)), UNCHANGED <<permissions, admins>>
  PROVE  TablesInv'
<1> PICK rs, new : rs = roles /\ new = [rs EXCEPT ![n] = None]
  OBVIOUS
<1>1. NamesOK(new) /\ Rows(new) = Rows(rs) \ {n}
  BY RowRemoved DEF TablesInv
<1>2. new = roles'
  OBVIOUS
<1>3. \A a \in DOMAIN admins : admins[a].role # n
  BY DEF Members
<1>4. grants' \subseteq (Rows(rs) \ {n}) \X Rows(permissions)
  <2>1. grants \subseteq Rows(rs) \X Rows(permissions)
    BY DEF TablesInv
  <2>2. ASSUME NEW g \in grants, g[1] = n
        PROVE  g \in GrantsOf(n, PermissionsOf(n))
    <3>1. g[2] \in PermissionsOf(n)
      BY <2>2 DEF PermissionsOf
    <3>2. g = <<n, g[2]>>
      BY <2>1, <2>2
    <3> QED
      BY <3>1, <3>2 DEF GrantsOf
  <2>3. \A g \in grants' : g \in grants /\ g[1] # n
    BY <2>2
  <2> QED
    BY <2>1, <2>3
<1>5. \A a \in DOMAIN admins : admins[a].role \in Rows(new)
  BY <1>1, <1>3 DEF TablesInv
<1>6. grants' \subseteq Rows(new) \X Rows(permissions)
  BY <1>1, <1>4
<1> QED
  BY <1>1, <1>2, <1>5, <1>6 DEF TablesInv, NamesOK, Rows

(* A permission added, renamed, removed. *)
LEMMA PermissionAdded ==
  ASSUME TablesInv, NEW name \in Names, ~IsNamed(permissions, name),
         permissions' = Append(permissions, name), UNCHANGED <<roles, grants, admins>>
  PROVE  TablesInv'
<1> PICK ps, new : ps = permissions /\ new = Append(ps, name)
  OBVIOUS
<1>1. NamesOK(new) /\ Rows(ps) \subseteq Rows(new)
  BY NameAdded DEF TablesInv
<1>2. new = permissions'
  OBVIOUS
<1> QED
  BY <1>1, <1>2 DEF TablesInv, NamesOK, Rows

LEMMA PermissionRenamed ==
  ASSUME TablesInv, NEW n, NEW name \in Names,
         ~(Row(permissions, n) /\ ~NameIsFree(permissions, n, name)),
         permissions' = Rename(permissions, n, name), UNCHANGED <<roles, grants, admins>>
  PROVE  TablesInv'
<1> PICK ps, new : ps = permissions /\ new = Rename(ps, n, name)
  OBVIOUS
<1>1. NamesOK(new) /\ Rows(new) = Rows(ps)
  BY NameChanged DEF TablesInv
<1>2. new = permissions'
  OBVIOUS
<1> QED
  BY <1>1, <1>2 DEF TablesInv, NamesOK, Rows

LEMMA PermissionDeleted ==
  ASSUME TablesInv, NEW n, permissions' = [permissions EXCEPT ![n] = None],
         grants' = {g \in grants : g[2] # n}, UNCHANGED <<roles, admins>>
  PROVE  TablesInv'
<1> PICK ps, new : ps = permissions /\ new = [ps EXCEPT ![n] = None]
  OBVIOUS
<1>1. NamesOK(new) /\ Rows(new) = Rows(ps) \ {n}
  BY RowRemoved DEF TablesInv
<1>2. new = permissions'
  OBVIOUS
<1>3. grants' \subseteq Rows(roles) \X Rows(new)
  BY <1>1 DEF TablesInv
<1> QED
  BY <1>1, <1>2, <1>3 DEF TablesInv, NamesOK, Rows

(* Grants taken away, grants of a role and of permissions that exist.      *)
LEMMA GrantsChanged ==
  ASSUME TablesInv, grants' \subseteq grants \union (Rows(roles) \X Rows(permissions)),
         UNCHANGED <<roles, permissions, admins>>
  PROVE  TablesInv'
BY DEF TablesInv, NamesOK, Rows

(* An admin added or changed. *)
LEMMA AdminAdded ==
  ASSUME TablesInv, NEW phone \in Names, NEW role \in Nat, PhoneIsFree(0, phone), Row(roles, role),
         admins' = Append(admins, Admin(phone, role)), UNCHANGED <<roles, permissions, grants>>
  PROVE  TablesInv' /\ Len(admins') = Len(admins) + 1
<1> PICK as, row, new : as = admins /\ row = Admin(phone, role) /\ new = Append(as, row)
  OBVIOUS
<1>1. row \in AdminRow /\ row.phone = phone /\ row.role = role
  BY AdminTypes
<1>2. as \in Seq(AdminRow)
  BY DEF TablesInv
<1>3. /\ new \in Seq(AdminRow) /\ Len(as) \in Nat
      /\ DOMAIN as = 1..Len(as) /\ DOMAIN new = 1..(Len(as) + 1) /\ Len(new) = Len(as) + 1
      /\ \A a \in DOMAIN as : new[a] = as[a]
      /\ new[Len(as) + 1] = row
  BY <1>1, <1>2
<1>4. \A a \in DOMAIN new : a \in DOMAIN as \/ a = Len(as) + 1
  BY <1>3
<1>5. \A a \in DOMAIN as : as[a].phone # phone
  BY <1>3 DEF PhoneIsFree
<1>6. \A a \in DOMAIN new : new[a].role \in Rows(roles)
  BY <1>1, <1>3, <1>4 DEF TablesInv, Row, Rows
<1>7. ASSUME NEW a \in DOMAIN new, NEW b \in DOMAIN new, new[a].phone = new[b].phone
      PROVE  a = b
  BY <1>1, <1>3, <1>4, <1>5, <1>7 DEF TablesInv
<1>8. new = admins'
  OBVIOUS
<1> QED
  BY <1>3, <1>6, <1>7, <1>8 DEF TablesInv, NamesOK, Rows

LEMMA AdminChanged ==
  ASSUME TablesInv, NEW a, NEW row \in AdminRow, admins' = [admins EXCEPT ![a] = row],
         PhoneIsFree(a, row.phone), Row(roles, row.role), UNCHANGED <<roles, permissions, grants>>
  PROVE  TablesInv' /\ Len(admins') = Len(admins)
<1> PICK as, new : as = admins /\ new = [as EXCEPT ![a] = row]
  OBVIOUS
<1>1. as \in Seq(AdminRow)
  BY DEF TablesInv
<1>2. /\ new \in Seq(AdminRow) /\ DOMAIN new = DOMAIN as /\ Len(new) = Len(as)
      /\ a \in DOMAIN as => new[a] = row
      /\ \A b \in DOMAIN as \ {a} : new[b] = as[b]
  <2>1. CASE a \in DOMAIN as
    BY <1>1, <2>1
  <2>2. CASE a \notin DOMAIN as
    <3>1. new = as
      BY <1>1, <2>2
    <3> QED
      BY <1>1, <2>2, <3>1
  <2> QED
    BY <2>1, <2>2
<1>3. \A b \in DOMAIN new : new[b].role \in Rows(roles)
  BY <1>2 DEF TablesInv, Row, Rows
<1>4. \A b \in DOMAIN as : as[b].phone = row.phone => b = a
  BY DEF PhoneIsFree
<1>5. ASSUME NEW b \in DOMAIN new, NEW c \in DOMAIN new, new[b].phone = new[c].phone
      PROVE  b = c
  BY <1>2, <1>4, <1>5 DEF TablesInv
<1>6. new = admins'
  OBVIOUS
<1> QED
  BY <1>2, <1>3, <1>5, <1>6 DEF TablesInv, NamesOK, Rows

-------------------------------------------------------------------------------
(* Requests                                                                *)

LEMMA CallTypes ==
  ASSUME Inv, NEW c \in Calls
  PROVE  c \in Call /\ c.op \in Ops /\ (c.op \in AdminOps => c.id \in 1..Len(admins))
<1>1. /\ DOMAIN roles \subseteq Nat /\ DOMAIN permissions \subseteq Nat
      /\ DOMAIN admins = 1..Len(admins) /\ Len(admins) \in Nat
  <2>1. roles \in Seq(Names) /\ permissions \in Seq(Names) /\ admins \in Seq(AdminRow)
    BY DEF Inv, TablesInv, NamesOK
  <2> QED
    BY <2>1
<1>2. RoleNames \union PermissionNames \union Phones \union {None} \subseteq Names /\ 0 \in Nat
  BY DEF Names
<1>3. ASSUME NEW ops \in SUBSET Ops, NEW ids \in SUBSET Nat, NEW names \in SUBSET Names,
             NEW rs \in SUBSET Nat, NEW ps \in SUBSET (SUBSET Nat), NEW set \in SUBSET BOOLEAN,
             c \in CallsOf(ops, ids, names, rs, ps, set),
             ops \intersect AdminOps = {} \/ ids \subseteq 1..Len(admins)
      PROVE  c \in Call /\ c.op \in Ops /\ (c.op \in AdminOps => c.id \in 1..Len(admins))
  <2>1. /\ c.op \in ops /\ c.id \in ids /\ c.name \in names /\ c.role \in rs /\ c.perms \in ps
        /\ c.set \in set
        /\ c = [op |-> c.op, id |-> c.id, name |-> c.name, role |-> c.role, perms |-> c.perms,
                set |-> c.set]
    BY <1>3 DEF CallsOf
  <2>2. c \in Call
    BY <2>1 DEF Call
  <2> QED
    BY <1>3, <2>1, <2>2
<1> DEFINE Some(ops, ids, names, rs, ps, set) ==
             /\ ops \subseteq Ops /\ ids \subseteq Nat /\ names \subseteq Names /\ rs \subseteq Nat
             /\ ps \subseteq SUBSET Nat /\ set \subseteq BOOLEAN
             /\ ops \intersect AdminOps = {} \/ ids \subseteq 1..Len(admins)
             /\ c \in CallsOf(ops, ids, names, rs, ps, set)
<1>4. \E ops, ids, names, rs, ps, set : Some(ops, ids, names, rs, ps, set)
  <2> DEFINE n == DOMAIN roles
             p == DOMAIN permissions
             a == DOMAIN admins
             any == {None}
             none == {{}}
  <2>1. \/ c \in CallsOf({"create_role"}, {0}, RoleNames, {0}, PermissionSets, {TRUE})
        \/ c \in CallsOf({"update_role"}, n, RoleNames \union any, {0}, PermissionSets, {TRUE})
        \/ c \in CallsOf({"update_role"}, n, RoleNames, {0}, none, {FALSE})
        \/ c \in CallsOf({"assign"}, n, any, {0}, PermissionSets, {TRUE})
        \/ c \in CallsOf({"remove_role"}, n, any, {0}, none, {FALSE})
        \/ c \in CallsOf({"remove_grant"}, n, any, {0}, {{q} : q \in p}, {FALSE})
        \/ c \in CallsOf({"create_permission"}, {0}, PermissionNames, {0}, none, {FALSE})
        \/ c \in CallsOf({"update_permission"}, p, PermissionNames, {0}, none, {FALSE})
        \/ c \in CallsOf({"remove_permission"}, p, any, {0}, none, {FALSE})
        \/ c \in CallsOf({"create_admin"}, {0}, Phones, n, none, {FALSE})
        \/ c \in CallsOf({"update_admin"}, a, Phones \union any, {0} \union n, none, {FALSE})
        \/ c \in CallsOf({"toggle_admin", "remove_admin"}, a, any, {0}, none, {FALSE})
    BY DEF Calls
  <2>2. /\ n \subseteq Nat /\ p \subseteq Nat /\ a = 1..Len(admins) /\ a \subseteq Nat
        /\ {0} \subseteq Nat /\ {0} \union n \subseteq Nat /\ any \subseteq Names
        /\ RoleNames \subseteq Names /\ RoleNames \union any \subseteq Names
        /\ PermissionNames \subseteq Names /\ Phones \subseteq Names /\ Phones \union any \subseteq Names
        /\ PermissionSets \subseteq SUBSET Nat /\ none \subseteq SUBSET Nat
        /\ {{q} : q \in p} \subseteq SUBSET Nat /\ {TRUE} \subseteq BOOLEAN /\ {FALSE} \subseteq BOOLEAN
    BY <1>1, <1>2 DEF PermissionSets
  <2>3. \A op \in Ops \ AdminOps : {op} \subseteq Ops /\ {op} \intersect AdminOps = {}
    OBVIOUS
  <2>4. /\ {"create_role", "update_role", "assign", "remove_role", "remove_grant", "create_permission",
            "update_permission", "remove_permission", "create_admin"} \subseteq Ops \ AdminOps
        /\ {"update_admin"} \subseteq Ops /\ {"toggle_admin", "remove_admin"} \subseteq Ops
    BY DEF Ops, AdminOps
  <2> HIDE DEF n, p, a, any, none
  <2> QED
    BY <2>1, <2>2, <2>3, <2>4, Zenon
<1> QED
  BY <1>3, <1>4

LEMMA IdleOK == Idle \in Request /\ \A n : RequestOK(Idle, n)
<1>1. NoCall \in Call /\ NoAdmin \in AdminRow
  BY DEF NoCall, Call, NoAdmin, AdminRow, Names, None
<1> QED
  BY <1>1 DEF Idle, Request, Places, RequestOK, Starts, AdminOps, NoCall, None

(* Slot r goes on as q. *)
LEMMA SlotTypes ==
  ASSUME RequestsInv, Len(admins) \in Nat, Len(admins') \in Nat, Len(admins) <= Len(admins'),
         NEW r \in Requests, NEW q \in Request, RequestOK(q, Len(admins')),
         reqs' = [reqs EXCEPT ![r] = q]
  PROVE  RequestsInv'
<1>1. ASSUME NEW p \in Requests
      PROVE  RequestOK(reqs'[p], Len(admins'))
  <2>1. CASE p = r
    BY <2>1 DEF RequestsInv
  <2>2. CASE p # r
    <3>1. reqs'[p] = reqs[p] /\ RequestOK(reqs[p], Len(admins))
      BY <2>2 DEF RequestsInv
    <3> QED
      BY <3>1 DEF RequestOK
  <2> QED
    BY <2>1, <2>2
<1> QED
  BY <1>1 DEF RequestsInv

(* Where a request goes when it does not load an admin. *)
LEMMA GotoTypes ==
  ASSUME RequestsInv, Len(admins) \in Nat, Len(admins') \in Nat, Len(admins) <= Len(admins'),
         NEW r \in Requests, ~At(r, "idle"), NEW pc \in Places,
         pc \in Starts => pc = reqs[r].call.op, pc = "insert_role" => At(r, "create_role"), Goto(r, pc)
  PROVE  RequestsInv'
<1> PICK old, q : old = reqs[r] /\ q = [old EXCEPT !.pc = pc]
  OBVIOUS
<1>1. old \in Request /\ RequestOK(old, Len(admins))
  BY DEF RequestsInv
<1>2. q \in Request /\ q.call = old.call /\ q.pc = pc
  BY <1>1 DEF Request
<1>3. RequestOK(q, Len(admins'))
  BY <1>1, <1>2 DEF RequestOK, At, Starts
<1>4. reqs' = [reqs EXCEPT ![r] = q]
  BY DEF Goto
<1> QED
  BY <1>2, <1>3, <1>4, SlotTypes

LEMMA FinishTypes ==
  ASSUME RequestsInv, Len(admins) \in Nat, Len(admins') \in Nat, Len(admins) <= Len(admins'),
         NEW r \in Requests, Finish(r)
  PROVE  RequestsInv'
BY IdleOK, SlotTypes DEF Finish

LEMMA AdminCount ==
  ASSUME TablesInv
  PROVE  Len(admins) \in Nat /\ Len(admins) <= Len(admins) /\ DOMAIN admins = 1..Len(admins)
<1>1. admins \in Seq(AdminRow)
  BY DEF TablesInv
<1> QED
  BY <1>1

LEMMA SameTables ==
  ASSUME TablesInv, UNCHANGED <<roles, permissions, grants, admins>>
  PROVE  TablesInv'
BY DEF TablesInv, NamesOK, Rows

(* What a request may do to the rest when it has changed the tables: go    *)
(* on, end, or fail.                                                       *)
LEMMA GoesOrEnds ==
  ASSUME Inv, TablesInv', Len(admins) <= Len(admins'), NEW r \in Requests, NEW pc \in Places \ Starts,
         ~At(r, "idle"), pc = "insert_role" => At(r, "create_role"), Goto(r, pc) \/ Finish(r),
         UNCHANGED <<failed, served>>
  PROVE  Inv'
<1>1. Len(admins) \in Nat /\ Len(admins') \in Nat
  <2>1. admins \in Seq(AdminRow) /\ admins' \in Seq(AdminRow)
    BY DEF Inv, TablesInv
  <2> QED
    BY <2>1
<1>2. RequestsInv'
  BY <1>1, GotoTypes, FinishTypes DEF Inv
<1> QED
  BY <1>2 DEF Inv, CountsInv

LEMMA FailKeeps ==
  ASSUME Inv, NEW r \in Requests, Fail(r), UNCHANGED served
  PROVE  Inv'
<1>1. TablesInv'
  BY SameTables DEF Inv, Fail
<1>2. RequestsInv'
  BY AdminCount, FinishTypes DEF Inv, Fail
<1>3. reqs[r].call \in Call
  BY DEF Inv, RequestsInv, Request
<1> QED
  BY <1>1, <1>2, <1>3 DEF Inv, CountsInv, Fail

LEMMA CheckKeeps ==
  ASSUME Inv, NEW r \in Requests, ~At(r, "idle"), NEW ok, NEW pc \in Places \ Starts,
         pc = "insert_role" => At(r, "create_role"), Check(r, ok, pc)
  PROVE  Inv'
<1>1. TablesInv' /\ Len(admins) <= Len(admins')
  BY SameTables, AdminCount DEF Inv, Check
<1> QED
  BY <1>1, GoesOrEnds DEF Check

LEMMA LoadKeeps ==
  ASSUME Inv, NEW r \in Requests, At(r, "update_admin") \/ At(r, "toggle_admin") \/ At(r, "remove_admin"),
         NEW pc \in Places \ (Starts \union {"insert_role"}), LoadAdmin(r, pc) \/ LoadAnyAdmin(r, pc)
  PROVE  Inv'
<1> PICK old, row, q : /\ old = reqs[r] /\ row = admins[old.call.id]
                       /\ q = [old EXCEPT !.pc = pc, !.row = row]
  OBVIOUS
<1>1. TablesInv' /\ UNCHANGED <<failed, served, admins>>
  BY SameTables DEF Inv, LoadAdmin, LoadAnyAdmin
<1>2. old \in Request /\ RequestOK(old, Len(admins)) /\ old.pc \in AdminOps
  BY DEF Inv, RequestsInv, At, AdminOps
<1>3. row \in AdminRow
  <2>1. old.call.id \in DOMAIN admins
    BY <1>2, AdminCount DEF Inv, RequestOK, Starts
  <2>2. admins \in Seq(AdminRow)
    BY DEF Inv, TablesInv
  <2> QED
    BY <2>1, <2>2
<1>4. q \in Request /\ q.call = old.call /\ q.pc = pc
  BY <1>2, <1>3 DEF Request
<1>5. RequestOK(q, Len(admins))
  BY <1>2, <1>4 DEF RequestOK, Starts, AdminOps
<1>6. Finish(r) \/ reqs' = [reqs EXCEPT ![r] = q]
  BY DEF LoadAdmin, LoadAnyAdmin
<1>7. RequestsInv'
  BY <1>1, <1>4, <1>5, <1>6, AdminCount, FinishTypes, SlotTypes DEF Inv
<1> QED
  BY <1>1, <1>7 DEF Inv, CountsInv

LEMMA AuthenticateKeeps ==
  ASSUME Inv, NEW r \in Requests, NEW caller \in DOMAIN admins, NEW c \in Calls,
         Authenticate(r, caller, c)
  PROVE  Inv'
<1> PICK pc, role, number, q :
      /\ pc = (IF role = Manager THEN c.op ELSE "guard") /\ role = RoleOf(caller)
      /\ number = admins[caller].role
      /\ q = [Idle EXCEPT !.pc = pc, !.call = c, !.as = role, !.asRole = number]
  OBVIOUS
<1>1. TablesInv' /\ UNCHANGED <<failed, admins>>
  BY SameTables DEF Inv, Authenticate
<1>2. c \in Call /\ c.op \in Ops /\ (c.op \in AdminOps => c.id \in 1..Len(admins))
  BY CallTypes
<1>3. number \in Nat
  <2>1. admins \in Seq(AdminRow)
    BY DEF Inv, TablesInv
  <2>2. admins[caller] \in AdminRow
    BY <2>1
  <2> QED
    BY <2>2 DEF AdminRow
<1>4. role \in {Manager, SuperAdmin} /\ pc \in Places /\ pc \in {c.op, "guard"}
  BY <1>2 DEF Authenticate, MayCall, Places
<1>5. q = [pc |-> pc, call |-> c, as |-> role, asRole |-> number, row |-> NoAdmin]
  BY DEF Idle
<1>6. q \in Request
  BY <1>2, <1>3, <1>4, <1>5, IdleOK DEF Request, Idle
<1>7. RequestOK(q, Len(admins))
  BY <1>2, <1>4, <1>5 DEF RequestOK, Starts, AdminOps, Ops
<1>8. reqs' = [reqs EXCEPT ![r] = q]
  BY DEF Authenticate
<1>9. RequestsInv'
  BY <1>1, <1>6, <1>7, <1>8, AdminCount, SlotTypes DEF Inv
<1>10. served' \in 0..MaxRequests
  BY BoundIsNatural DEF Inv, CountsInv, Authenticate
<1> QED
  BY <1>1, <1>9, <1>10 DEF Inv, CountsInv

LEMMA GuardKeeps ==
  ASSUME Inv, NEW r \in Requests, PermissionsGuard(r)
  PROVE  Inv'
<1> PICK ok, op : op = reqs[r].call.op /\ Check(r, ok, op)
  BY DEF PermissionsGuard
<1>1. TablesInv' /\ UNCHANGED <<failed, served, admins>>
  BY SameTables DEF Inv, Check
<1>2. CASE Finish(r)
  <2>1. RequestsInv'
    BY <1>1, <1>2, AdminCount, FinishTypes DEF Inv
  <2> QED
    BY <1>1, <2>1 DEF Inv, CountsInv
<1>3. CASE Goto(r, op)
  <2>1. op \in Ops /\ op \in Places
    BY DEF Inv, RequestsInv, RequestOK, PermissionsGuard, At, Places
  <2>2. RequestsInv'
    BY <1>3, <1>1, <2>1, AdminCount, GotoTypes DEF Inv, PermissionsGuard, At, Ops
  <2> QED
    BY <1>1, <2>2 DEF Inv, CountsInv
<1> QED
  BY <1>2, <1>3 DEF Check

LEMMA CallOf ==
  ASSUME Inv, NEW r \in Requests
  PROVE  /\ reqs[r].call \in Call /\ reqs[r].call.name \in Names /\ reqs[r].call.role \in Nat
         /\ reqs[r].call.perms \subseteq Nat /\ reqs[r].row \in AdminRow
BY DEF Inv, RequestsInv, Request, Call

LEMMA InsertRoleKeeps ==
  ASSUME Inv, NEW r \in Requests, InsertRole(r)
  PROVE  Inv'
<1> PICK old, c, name : old = reqs[r] /\ c = old.call /\ name = c.name
  OBVIOUS
<1>1. old \in Request /\ RequestOK(old, Len(admins)) /\ c \in Call /\ name \in Names /\ ~At(r, "idle")
  BY CallOf DEF Inv, RequestsInv, InsertRole, At
<1>2. CASE IsNamed(roles, name)
  BY <1>2, FailKeeps DEF InsertRole
<1>3. CASE ~IsNamed(roles, name)
  <2>1. TablesInv' /\ UNCHANGED <<admins, failed, served>>
    BY <1>1, <1>3, RoleAdded DEF Inv, InsertRole
  <2>2. CASE Finish(r)
    BY <1>1, <2>1, <2>2, AdminCount, GoesOrEnds DEF Inv, Places, Ops, Starts, AdminOps
  <2>3. CASE reqs' = [reqs EXCEPT ![r].pc = "assign", ![r].call.id = Len(roles) + 1]
    <3> PICK n, d, q : /\ n = Len(roles) + 1 /\ d = [c EXCEPT !.id = n]
                       /\ q = [old EXCEPT !.pc = "assign", !.call.id = n]
      OBVIOUS
    <3>1. n \in Nat
      <4>1. roles \in Seq(Names)
        BY DEF Inv, TablesInv, NamesOK
      <4> QED
        BY <4>1
    <3>2. d \in Call /\ d.op = c.op
      BY <1>1, <3>1 DEF Call
    <3>3. q = [old EXCEPT !.pc = "assign", !.call = d]
      BY <1>1 DEF Request
    <3>4. q \in Request /\ q.call = d /\ q.pc = "assign"
      BY <1>1, <3>2, <3>3 DEF Request, Places, Ops
    <3>5. c.op = "create_role"
      BY <1>1 DEF RequestOK, InsertRole, At
    <3>6. RequestOK(q, Len(admins))
      BY <3>2, <3>4, <3>5 DEF RequestOK, Starts, AdminOps, Ops
    <3>7. reqs' = [reqs EXCEPT ![r] = q]
      BY <2>3
    <3>8. RequestsInv'
      BY <2>1, <3>4, <3>6, <3>7, AdminCount, SlotTypes DEF Inv
    <3> QED
      BY <2>1, <3>8 DEF Inv, CountsInv
  <2> QED
    BY <1>3, <2>2, <2>3 DEF InsertRole
<1> QED
  BY <1>2, <1>3

LEMMA RoleStepKeeps ==
  ASSUME Inv, NEW r \in Requests, RoleStep(r)
  PROVE  Inv'
<1> USE DEF Places, Ops, Starts, AdminOps
<1>t. TablesInv /\ Len(admins) <= Len(admins)
  BY AdminCount DEF Inv
<1>1. ASSUME CreateRole(r) PROVE Inv'
  BY <1>1, CheckKeeps DEF CreateRole, At
<1>2. ASSUME InsertRole(r) PROVE Inv'
  BY <1>2, InsertRoleKeeps
<1>3. ASSUME UpdateRole(r) PROVE Inv'
  BY <1>3, CheckKeeps DEF UpdateRole, At
<1>4. ASSUME CheckRoleName(r) PROVE Inv'
  BY <1>4, CheckKeeps DEF CheckRoleName, At
<1>5. ASSUME WriteRole(r) PROVE Inv'
  <2> PICK n, name, set : n = reqs[r].call.id /\ name = reqs[r].call.name /\ set = reqs[r].call.set
    OBVIOUS
  <2>1. CASE Row(roles, n) /\ ~NameIsFree(roles, n, name)
    BY <1>5, <2>1, FailKeeps DEF WriteRole
  <2>2. CASE ~(Row(roles, n) /\ ~NameIsFree(roles, n, name))
    <3>1. /\ roles' = Rename(roles, n, name) /\ UNCHANGED <<permissions, grants, admins, failed, served>>
          /\ Goto(r, "assign") \/ Finish(r)
      BY <1>5, <2>2 DEF WriteRole
    <3>2. TablesInv'
      BY <1>t, <2>2, <3>1, CallOf, RoleRenamed
    <3> QED
      BY <1>5, <1>t, <3>1, <3>2, GoesOrEnds DEF WriteRole, At
  <2> QED
    BY <2>1, <2>2
<1>6. ASSUME AssignPermissions(r) PROVE Inv'
  BY <1>6, CheckKeeps DEF AssignPermissions, At
<1>7. ASSUME FindPermissions(r) PROVE Inv'
  BY <1>7, CheckKeeps DEF FindPermissions, At
<1>8. ASSUME DropGrants(r) PROVE Inv'
  <2>1. TablesInv'
    BY <1>8, <1>t, GrantsChanged DEF DropGrants
  <2> QED
    BY <1>8, <1>t, <2>1, GoesOrEnds DEF DropGrants, At
<1>9. ASSUME InsertGrants(r) PROVE Inv'
  <2> PICK n, ps : n = reqs[r].call.id /\ ps = reqs[r].call.perms
    OBVIOUS
  <2>1. CASE Fail(r)
    BY <1>9, <2>1, FailKeeps DEF InsertGrants
  <2>2. CASE /\ Row(roles, n) /\ \A p \in ps : Row(permissions, p)
             /\ grants' = grants \union GrantsOf(n, ps) /\ Finish(r)
             /\ UNCHANGED <<roles, permissions, admins, failed>>
    <3>1. GrantsOf(n, ps) \subseteq Rows(roles) \X Rows(permissions)
      BY <2>2 DEF GrantsOf, Row, Rows
    <3>2. TablesInv'
      BY <1>t, <2>2, <3>1, GrantsChanged
    <3> QED
      BY <1>9, <1>t, <2>2, <3>2, GoesOrEnds DEF InsertGrants, At
  <2> QED
    BY <1>9, <2>1, <2>2 DEF InsertGrants
<1>10. ASSUME RemoveRole(r) PROVE Inv'
  BY <1>10, CheckKeeps DEF RemoveRole, At
<1>11. ASSUME DropRoleGrants(r) PROVE Inv'
  <2>1. TablesInv'
    BY <1>11, <1>t, GrantsChanged DEF DropRoleGrants
  <2> QED
    BY <1>11, <1>t, <2>1, GoesOrEnds DEF DropRoleGrants, At
<1>12. ASSUME DeleteRole(r) PROVE Inv'
  <2> PICK n : n = reqs[r].call.id
    OBVIOUS
  <2>1. CASE Members(n) # {}
    BY <1>12, <2>1, FailKeeps DEF DeleteRole
  <2>2. CASE Members(n) = {}
    <3>1. TablesInv'
      BY <1>12, <1>t, <2>2, RoleDeleted DEF DeleteRole
    <3> QED
      BY <1>12, <1>t, <2>2, <3>1, GoesOrEnds DEF DeleteRole, At
  <2> QED
    BY <2>1, <2>2
<1>13. ASSUME RemovePermission(r) PROVE Inv'
  BY <1>13, CheckKeeps DEF RemovePermission, At
<1>14. ASSUME DropGrant(r) PROVE Inv'
  <2>1. TablesInv'
    BY <1>14, <1>t, GrantsChanged DEF DropGrant
  <2> QED
    BY <1>14, <1>t, <2>1, GoesOrEnds DEF DropGrant, At
<1> QED
  BY <1>1, <1>2, <1>3, <1>4, <1>5, <1>6, <1>7, <1>8, <1>9, <1>10, <1>11, <1>12, <1>13, <1>14
  DEF RoleStep

LEMMA PermissionStepKeeps ==
  ASSUME Inv, NEW r \in Requests, PermissionStep(r)
  PROVE  Inv'
<1> USE DEF Places, Ops, Starts, AdminOps
<1> PICK n, name : n = reqs[r].call.id /\ name = reqs[r].call.name
  OBVIOUS
<1>t. TablesInv /\ Len(admins) <= Len(admins) /\ name \in Names
  BY AdminCount, CallOf DEF Inv
<1>1. ASSUME CreatePermission(r) PROVE Inv'
  BY <1>1, CheckKeeps DEF CreatePermission, At
<1>2. ASSUME InsertPermission(r) PROVE Inv'
  <2>1. CASE IsNamed(permissions, name)
    BY <1>2, <2>1, FailKeeps DEF InsertPermission
  <2>2. CASE ~IsNamed(permissions, name)
    <3>1. TablesInv'
      BY <1>2, <1>t, <2>2, PermissionAdded DEF InsertPermission
    <3> QED
      BY <1>2, <1>t, <2>2, <3>1, GoesOrEnds DEF InsertPermission, At
  <2> QED
    BY <2>1, <2>2
<1>3. ASSUME UpdatePermission(r) PROVE Inv'
  BY <1>3, CheckKeeps DEF UpdatePermission, At
<1>4. ASSUME CheckPermissionName(r) PROVE Inv'
  BY <1>4, CheckKeeps DEF CheckPermissionName, At
<1>5. ASSUME WritePermission(r) PROVE Inv'
  <2>1. CASE Row(permissions, n) /\ ~NameIsFree(permissions, n, name)
    BY <1>5, <2>1, FailKeeps DEF WritePermission
  <2>2. CASE ~(Row(permissions, n) /\ ~NameIsFree(permissions, n, name))
    <3>1. TablesInv'
      BY <1>5, <1>t, <2>2, PermissionRenamed DEF WritePermission
    <3> QED
      BY <1>5, <1>t, <2>2, <3>1, GoesOrEnds DEF WritePermission, At
  <2> QED
    BY <2>1, <2>2
<1>6. ASSUME LoadUnused(r) PROVE Inv'
  BY <1>6, CheckKeeps DEF LoadUnused, At
<1>7. ASSUME DeletePermission(r) PROVE Inv'
  <2>1. TablesInv'
    BY <1>7, <1>t, PermissionDeleted DEF DeletePermission
  <2> QED
    BY <1>7, <1>t, <2>1, GoesOrEnds DEF DeletePermission, At
<1> QED
  BY <1>1, <1>2, <1>3, <1>4, <1>5, <1>6, <1>7 DEF PermissionStep

LEMMA AfterPhonePlaces ==
  ASSUME NEW r, NEW row
  PROVE  AfterPhone(r, row) \in {"check_new_role", "write_admin", "idle"}
BY DEF AfterPhone

(* An admin is written: only the phone and the role must be settled.       *)
LEMMA AdminWritten ==
  ASSUME Inv, NEW r \in Requests, ~At(r, "idle"), NEW a, NEW row, admins' = [admins EXCEPT ![a] = row],
         a \in DOMAIN admins => row \in AdminRow /\ PhoneIsFree(a, row.phone) /\ Row(roles, row.role),
         Finish(r), UNCHANGED <<roles, permissions, grants, failed, served>>
  PROVE  Inv'
<1>1. TablesInv /\ admins \in Seq(AdminRow)
  BY DEF Inv, TablesInv
<1>2. TablesInv' /\ Len(admins) <= Len(admins')
  <2>1. CASE a \in DOMAIN admins
    BY <1>1, <2>1, AdminChanged, AdminCount
  <2>2. CASE a \notin DOMAIN admins
    <3>1. admins' = admins
      BY <1>1, <2>2
    <3> QED
      BY <1>1, <3>1, SameTables, AdminCount
  <2> QED
    BY <2>1, <2>2
<1> QED
  BY <1>2, GoesOrEnds DEF Places, Ops, Starts, AdminOps

LEMMA AdminStepKeeps ==
  ASSUME Inv, NEW r \in Requests, AdminStep(r)
  PROVE  Inv'
<1> USE DEF Places, Ops, Starts, AdminOps
<1> PICK c, a : c = reqs[r].call /\ a = c.id
  OBVIOUS
<1>t. TablesInv /\ c.name \in Names /\ c.role \in Nat /\ reqs[r].row \in AdminRow
  BY CallOf DEF Inv
<1>row. ASSUME a \in DOMAIN admins
        PROVE  admins[a] \in AdminRow /\ PhoneIsFree(a, admins[a].phone) /\ Row(roles, admins[a].role)
  <2>1. admins \in Seq(AdminRow)
    BY <1>t DEF TablesInv
  <2> QED
    BY <1>t, <1>row, <2>1 DEF TablesInv, PhoneIsFree, Row, Rows
<1>1. ASSUME CreateAdmin(r) PROVE Inv'
  BY <1>1, CheckKeeps DEF CreateAdmin, At
<1>2. ASSUME LoadRole(r) PROVE Inv'
  BY <1>2, CheckKeeps DEF LoadRole, At
<1>3. ASSUME InsertAdmin(r) PROVE Inv'
  <2>1. CASE ~PhoneIsFree(0, c.name) \/ ~Row(roles, c.role)
    BY <1>3, <2>1, FailKeeps DEF InsertAdmin
  <2>2. CASE PhoneIsFree(0, c.name) /\ Row(roles, c.role)
    <3>1. /\ admins' = Append(admins, Admin(c.name, c.role)) /\ Finish(r) /\ ~At(r, "idle")
          /\ UNCHANGED <<roles, permissions, grants, failed, served>>
      BY <1>3, <2>2 DEF InsertAdmin, At
    <3>2. TablesInv' /\ Len(admins') = Len(admins) + 1
      BY <1>t, <2>2, <3>1, AdminAdded
    <3>3. Len(admins) <= Len(admins')
      BY <1>t, <3>2, AdminCount
    <3> QED
      BY <3>1, <3>2, <3>3, GoesOrEnds
  <2> QED
    BY <2>1, <2>2
<1>4. ASSUME UpdateAdmin(r) PROVE Inv'
  <2> PICK row, next : row = admins[a] /\ next = AfterPhone(r, row)
    OBVIOUS
  <2>1. next \in {"check_new_role", "write_admin", "idle"}
    BY AfterPhonePlaces
  <2>2. CASE Check(r, FALSE, "idle")
    BY <1>4, <2>2, CheckKeeps DEF UpdateAdmin, At
  <2>3. ASSUME NEW pc \in {"check_phone", next}, LoadAdmin(r, pc)
        PROVE  Inv'
    BY <1>4, <2>1, <2>3, LoadKeeps DEF UpdateAdmin
  <2>4. \/ Check(r, FALSE, "idle")
        \/ LoadAdmin(r, IF GivesPhone(r, row) THEN "check_phone" ELSE next)
    BY <1>4 DEF UpdateAdmin
  <2> QED
    BY <2>2, <2>3, <2>4
<1>5. ASSUME CheckPhone(r) PROVE Inv'
  <2> PICK next : next = AfterPhone(r, reqs[r].row)
    OBVIOUS
  <2>1. next \in {"check_new_role", "write_admin", "idle"}
    BY AfterPhonePlaces
  <2> QED
    BY <1>5, <2>1, CheckKeeps DEF CheckPhone, At
<1>6. ASSUME CheckNewRole(r) PROVE Inv'
  BY <1>6, CheckKeeps DEF CheckNewRole, At
<1>7. ASSUME WriteAdmin(r) PROVE Inv'
  <2> PICK phone, role, old, row :
        /\ phone = (IF GivesPhone(r, reqs[r].row) THEN c.name ELSE admins[a].phone)
        /\ role = (IF GivesRole(r, reqs[r].row) THEN c.role ELSE admins[a].role)
        /\ old = admins[a] /\ row = [old EXCEPT !.phone = phone, !.role = role]
    OBVIOUS
  <2>1. CASE ~PhoneIsFree(a, phone) \/ ~Row(roles, role)
    BY <1>7, <2>1, FailKeeps DEF WriteAdmin
  <2>2. CASE PhoneIsFree(a, phone) /\ Row(roles, role)
    <3>1. /\ admins' = [admins EXCEPT ![a] = row] /\ Finish(r) /\ ~At(r, "idle")
          /\ UNCHANGED <<roles, permissions, grants, failed, served>>
      BY <1>7, <2>2 DEF WriteAdmin, At
    <3>2. ASSUME a \in DOMAIN admins
          PROVE  row \in AdminRow /\ PhoneIsFree(a, row.phone) /\ Row(roles, row.role)
      <4>1. old \in AdminRow /\ phone \in Names /\ role \in Nat
        BY <1>t, <1>row, <3>2 DEF AdminRow
      <4>2. row \in AdminRow /\ row.phone = phone /\ row.role = role
        BY <4>1 DEF AdminRow
      <4> QED
        BY <2>2, <4>2
    <3> QED
      BY <3>1, <3>2, AdminWritten
  <2> QED
    BY <2>1, <2>2
<1>8. ASSUME ToggleActive(r) PROVE Inv'
  BY <1>8, LoadKeeps DEF ToggleActive
<1>9. ASSUME WriteActive(r) PROVE Inv'
  <2> PICK old, row, active : /\ old = admins[a] /\ active = ~reqs[r].row.active
                              /\ row = [old EXCEPT !.active = active]
    OBVIOUS
  <2>1. /\ admins' = [admins EXCEPT ![a] = row] /\ Finish(r) /\ ~At(r, "idle")
        /\ UNCHANGED <<roles, permissions, grants, failed, served>>
    BY <1>9 DEF WriteActive, At
  <2>2. ASSUME a \in DOMAIN admins
        PROVE  row \in AdminRow /\ row.phone = old.phone /\ row.role = old.role
    BY <1>t, <1>row, <2>2 DEF AdminRow
  <2> QED
    BY <1>row, <2>1, <2>2, AdminWritten
<1>10. ASSUME RemoveAdmin(r) PROVE Inv'
  BY <1>10, LoadKeeps DEF RemoveAdmin
<1>11. ASSUME WriteDeleted(r) PROVE Inv'
  <2> PICK old, row : old = admins[a] /\ row = [old EXCEPT !.deleted = TRUE]
    OBVIOUS
  <2>1. /\ admins' = [admins EXCEPT ![a] = row] /\ Finish(r) /\ ~At(r, "idle")
        /\ UNCHANGED <<roles, permissions, grants, failed, served>>
    BY <1>11 DEF WriteDeleted, At
  <2>2. ASSUME a \in DOMAIN admins
        PROVE  row \in AdminRow /\ row.phone = old.phone /\ row.role = old.role
    BY <1>t, <1>row, <2>2 DEF AdminRow
  <2> QED
    BY <1>row, <2>1, <2>2, AdminWritten
<1> QED
  BY <1>1, <1>2, <1>3, <1>4, <1>5, <1>6, <1>7, <1>8, <1>9, <1>10, <1>11 DEF AdminStep

-------------------------------------------------------------------------------
(* What holds whatever overlaps and whatever is cut short                  *)

LEMMA InitInv == Init => Inv
<1> SUFFICES ASSUME Init PROVE Inv
  OBVIOUS
<1>1. NamesOK(roles) /\ {1, 2, 3} \subseteq Rows(roles)
  <2>1. roles = <<Manager, SuperAdmin, "admin_support">>
    BY DEF Init
  <2>2. roles \in Seq(Names) /\ Rows(roles) = {1, 2, 3}
    BY <2>1 DEF Names, Rows, Manager, SuperAdmin, None
  <2> QED
    BY <2>1, <2>2 DEF NamesOK, Manager, SuperAdmin
<1>2. /\ NamesOK(permissions)
      /\ DOMAIN SeedPermissions \subseteq Rows(permissions) /\ Len(permissions) \in Rows(permissions)
  <2> PICK seed, new : seed = SeedPermissions /\ new = Append(seed, "close_ticket")
    OBVIOUS
  <2>1. /\ seed \in Seq(SeedNames) /\ \A m, n \in DOMAIN seed : seed[m] = seed[n] => m = n
        /\ "close_ticket" \notin SeedNames /\ None \notin SeedNames
        /\ SeedNames \subseteq Names /\ "close_ticket" \in Names
    BY SeedIsATable DEF Names
  <2>2. \A n \in DOMAIN seed : seed[n] \in SeedNames
    BY <2>1
  <2>3. seed \in Seq(Names)
    BY <2>1
  <2>4. NamesOK(seed) /\ Rows(seed) = DOMAIN seed /\ ~IsNamed(seed, "close_ticket")
    BY <2>1, <2>2, <2>3 DEF NamesOK, Rows, IsNamed
  <2>5. NamesOK(new) /\ Rows(seed) \subseteq Rows(new)
    BY <2>1, <2>4, NameAdded
  <2>6. Len(new) \in DOMAIN new /\ new[Len(new)] = "close_ticket"
    BY <2>3
  <2>7. Len(new) \in Rows(new)
    BY <2>6 DEF Rows, None
  <2> QED
    BY <2>4, <2>5, <2>7 DEF Init
<1>3. grants \subseteq Rows(roles) \X Rows(permissions)
  <2>1. PICK toClose \in {{}, {1, 3}} :
          grants = ({1, 2} \X DOMAIN SeedPermissions) \union (toClose \X {Len(permissions)})
    BY DEF Init
  <2> QED
    BY <1>1, <1>2, <2>1
<1>4. /\ admins \in Seq(AdminRow) /\ DOMAIN admins = {1, 2} /\ Len(admins) \in Nat
      /\ admins[1].phone = "p1" /\ admins[1].role = 1
      /\ admins[2].phone = "p2" /\ admins[2].role = 2
  <2> PICK first, second : first = Admin("p1", 1) /\ second = Admin("p2", 2)
    OBVIOUS
  <2>1. "p1" \in Names /\ "p2" \in Names
    BY DEF Names
  <2>2. /\ first \in AdminRow /\ first.phone = "p1" /\ first.role = 1
        /\ second \in AdminRow /\ second.phone = "p2" /\ second.role = 2
    BY <2>1, AdminTypes
  <2>3. admins = <<first, second>>
    BY DEF Init
  <2> QED
    BY <2>2, <2>3
<1>5. TablesInv
  BY <1>1, <1>2, <1>3, <1>4 DEF TablesInv
<1>6. RequestsInv
  BY IdleOK DEF Init, RequestsInv
<1>7. CountsInv
  BY BoundIsNatural DEF Init, CountsInv
<1> QED
  BY <1>5, <1>6, <1>7 DEF Inv

LEMMA NextInv == Inv /\ [Next]_vars => Inv'
<1> SUFFICES ASSUME Inv, [Next]_vars PROVE Inv'
  OBVIOUS
<1>1. CASE UNCHANGED vars
  <2>1. TablesInv'
    BY <1>1, SameTables DEF Inv, vars
  <2> QED
    BY <1>1, <2>1 DEF Inv, RequestsInv, CountsInv, vars
<1>2. ASSUME NEW r \in Requests, Abort(r) PROVE Inv'
  <2>1. TablesInv' /\ Len(admins) <= Len(admins')
    BY <1>2, SameTables, AdminCount DEF Inv, Abort
  <2>2. RequestsInv'
    BY <1>2, AdminCount, FinishTypes DEF Inv, Abort
  <2> QED
    BY <1>2, <2>1, <2>2 DEF Inv, CountsInv, Abort
<1> QED
  BY <1>1, <1>2, AuthenticateKeeps, GuardKeeps, RoleStepKeeps, PermissionStepKeeps, AdminStepKeeps
  DEF Next, AtRest

(* Every variable has its type. *)
THEOREM TypeCorrect == Spec => []TypeOK
<1>1. Init => Inv
  BY InitInv
<1>2. Inv /\ [Next]_vars => Inv'
  BY NextInv
<1>3. Inv => TypeOK
  BY InvSuffices
<1> QED
  BY <1>1, <1>2, <1>3, PTL DEF Spec

(* Whatever overlaps and whatever is cut short, an admin has a role that   *)
(* exists, a grant joins a role and a permission that exist, and names and *)
(* phones are unique.                                                      *)
THEOREM ConsistentAlways == Spec => []Consistent
<1>1. Init => Inv
  BY InitInv
<1>2. Inv /\ [Next]_vars => Inv'
  BY NextInv
<1>3. Inv => Consistent
  BY InvSuffices
<1> QED
  BY <1>1, <1>2, <1>3, PTL DEF Spec

-------------------------------------------------------------------------------
(* Requests that touch different things                                    *)

RoleOps == {"create_role", "update_role", "assign", "remove_role", "remove_grant"}
PermissionOps == {"create_permission", "update_permission", "remove_permission"}
AdminCalls == AdminOps \union {"create_admin"}

(* What is in Touched(c), kind by kind. *)
TouchesRole(c, n) ==
  /\ n # 0
  /\ \/ c.op \in RoleOps /\ n = c.id
     \/ c.op \in AdminCalls /\ n = c.role
     \/ c.op \in AdminCalls /\ c.id \in DOMAIN admins /\ n = admins[c.id].role
TouchesPermission(c, p) ==
  p # 0 /\ ((c.op \in RoleOps /\ p \in c.perms) \/ (c.op \in PermissionOps /\ p = c.id))
TouchesAdmin(c, a) == a # 0 /\ c.op \in AdminCalls /\ a = c.id
NamesRole(c, name) == name # None /\ c.op \in RoleOps /\ name = c.name
NamesPermission(c, name) == name # None /\ c.op \in PermissionOps /\ name = c.name
NamesPhone(c, name) == name # None /\ c.op \in AdminCalls /\ name = c.name

AreApart(c, d) ==
  /\ \A n : ~(TouchesRole(c, n) /\ TouchesRole(d, n))
  /\ \A n : ~(TouchesPermission(c, n) /\ TouchesPermission(d, n))
  /\ \A n : ~(TouchesAdmin(c, n) /\ TouchesAdmin(d, n))
  /\ \A x : ~(NamesRole(c, x) /\ NamesRole(d, x))
  /\ \A x : ~(NamesPermission(c, x) /\ NamesPermission(d, x))
  /\ \A x : ~(NamesPhone(c, x) /\ NamesPhone(d, x))

ApartInv == \A r, q \in Requests : r # q => AreApart(reqs[r].call, reqs[q].call)

(* The places a request comes through. *)
Assigning == {"assign", "find_permissions", "drop_grants", "insert_grants"}
Came(pc, op) ==
  /\ pc \in {"create_role", "insert_role"} => op = "create_role"
  /\ pc \in {"update_role", "check_role_name", "write_role"} => op = "update_role"
  /\ pc \in Assigning => op \in {"create_role", "update_role", "assign"}
  /\ pc \in {"remove_role", "drop_role_grants", "delete_role"} => op = "remove_role"
  /\ pc \in {"remove_grant", "drop_grant"} => op = "remove_grant"
  /\ pc \in {"create_permission", "insert_permission"} => op = "create_permission"
  /\ pc \in {"update_permission", "check_permission_name", "write_permission"} => op = "update_permission"
  /\ pc \in {"remove_permission", "delete_permission"} => op = "remove_permission"
  /\ pc \in {"create_admin", "load_role", "insert_admin"} => op = "create_admin"
  /\ pc \in {"update_admin", "check_phone", "check_new_role", "write_admin"} => op = "update_admin"
  /\ pc \in {"toggle_admin", "write_active"} => op = "toggle_admin"
  /\ pc \in {"remove_admin", "write_deleted"} => op = "remove_admin"

(* A call is about rows that there were when it came. *)
CallOK(c) ==
  /\ c.op \in RoleOps => c.id \in 0..Len(roles)
  /\ c.op \in {"update_role", "assign", "remove_role", "remove_grant"} => c.id # 0
  /\ c.op = "remove_grant" => \E p : c.perms = {p}
  /\ c.op \in PermissionOps => c.id \in 0..Len(permissions)
  /\ c.op \in AdminCalls => c.id \in 0..Len(admins)
  /\ c.op \in {"create_role", "create_permission", "update_permission", "create_admin"} => c.name # None
  /\ c.role \in 0..Len(roles)

(* What a request has checked still holds when it writes. *)
ChecksOK(h) ==
  LET c == h.call IN
  /\ Came(h.pc, c.op)
  /\ CallOK(c)
  /\ h.pc = "insert_role" => ~IsNamed(roles, c.name)
  /\ h.pc = "write_role" => NameIsFree(roles, c.id, c.name)
  /\ h.pc \in Assigning => c.id # 0
  /\ h.pc \in {"find_permissions", "drop_grants", "insert_grants"} => Row(roles, c.id)
  /\ h.pc \in {"drop_grants", "insert_grants"} => \A p \in c.perms : Row(permissions, p)
  /\ h.pc = "insert_grants" => \A g \in grants : g[1] # c.id
  /\ h.pc \in {"drop_role_grants", "delete_role"} => Row(roles, c.id) /\ Members(c.id) = {}
  /\ h.pc = "insert_permission" => ~IsNamed(permissions, c.name)
  /\ h.pc = "write_permission" => NameIsFree(permissions, c.id, c.name)
  /\ h.pc = "delete_permission" => Row(permissions, c.id) /\ \A g \in grants : g[2] # c.id
  /\ h.pc \in {"load_role", "insert_admin"} => \A b \in DOMAIN admins : admins[b].phone # c.name
  /\ h.pc = "insert_admin" => Row(roles, c.role)
  /\ h.pc \in {"check_new_role", "write_admin"} /\ c.name \notin {None, h.row.phone} =>
       PhoneIsFree(c.id, c.name)

(* Only a role that is gone is missing, and it does not come back.         *)
FailuresOK ==
  \A c \in failed : c.op = "update_admin" /\ c.role \in (1..Len(roles)) \ Rows(roles)

ChecksInv == \A r \in Requests : ChecksOK(reqs[r])

OrderlyInv == Inv /\ ApartInv /\ ChecksInv /\ FailuresOK

LEMMA TouchedIncludes ==
  ASSUME NEW c
  PROVE  /\ \A n : TouchesRole(c, n) => <<"role", n>> \in Touched(c)
         /\ \A p : TouchesPermission(c, p) => <<"permission", p>> \in Touched(c)
         /\ \A a : TouchesAdmin(c, a) => <<"admin", a>> \in Touched(c)
         /\ \A x : NamesRole(c, x) => <<"role name", x>> \in Touched(c)
         /\ \A x : NamesPermission(c, x) => <<"permission name", x>> \in Touched(c)
         /\ \A x : NamesPhone(c, x) => <<"phone", x>> \in Touched(c)
<1> PICK some, op, touched :
      /\ some = {"role", "permission", "admin"} \X {0} \union {"role name", "permission name", "phone"} \X {None}
      /\ op = c.op /\ touched = Touched(c)
  OBVIOUS
<1>1. /\ \A n : n # 0 => <<"role", n>> \notin some /\ <<"permission", n>> \notin some /\ <<"admin", n>> \notin some
      /\ \A x : x # None =>
           <<"role name", x>> \notin some /\ <<"permission name", x>> \notin some /\ <<"phone", x>> \notin some
  OBVIOUS
<1>2. CASE op \in RoleOps
  <2>1. touched = ({<<"role", c.id>>, <<"role name", c.name>>} \union {<<"permission", p>> : p \in c.perms}) \ some
    BY <1>2 DEF Touched, RoleOps, None
  <2> QED
    BY <1>1, <1>2, <2>1
    DEF TouchesRole, TouchesPermission, TouchesAdmin, NamesRole, NamesPermission, NamesPhone,
        RoleOps, PermissionOps, AdminCalls, AdminOps
<1>3. CASE op \in PermissionOps
  <2>1. touched = {<<"permission", c.id>>, <<"permission name", c.name>>} \ some
    BY <1>3 DEF Touched, PermissionOps, None
  <2> QED
    BY <1>1, <1>3, <2>1
    DEF TouchesRole, TouchesPermission, TouchesAdmin, NamesRole, NamesPermission, NamesPhone,
        RoleOps, PermissionOps, AdminCalls, AdminOps
<1>4. CASE op \in AdminCalls
  <2>1. touched = ({<<"admin", c.id>>, <<"phone", c.name>>, <<"role", c.role>>}
                     \union {<<"role", admins[a].role>> : a \in DOMAIN admins \intersect {c.id}}) \ some
    BY <1>4 DEF Touched, AdminCalls, AdminOps, None
  <2> QED
    BY <1>1, <1>4, <2>1
    DEF TouchesRole, TouchesPermission, TouchesAdmin, NamesRole, NamesPermission, NamesPhone,
        RoleOps, PermissionOps, AdminCalls, AdminOps
<1> QED
  BY <1>2, <1>3, <1>4
  DEF TouchesRole, TouchesPermission, TouchesAdmin, NamesRole, NamesPermission, NamesPhone

LEMMA DisjointAreApart ==
  ASSUME NEW c, NEW d, Touched(c) \intersect Touched(d) = {}
  PROVE  AreApart(c, d) /\ AreApart(d, c)
<1>1. \A x : ~(x \in Touched(c) /\ x \in Touched(d))
  OBVIOUS
<1> QED
  BY <1>1, TouchedIncludes DEF AreApart

(* A step on behalf of c changes and names only what c touches.            *)
Within(c) ==
  /\ Len(roles) <= Len(roles') /\ Len(permissions) <= Len(permissions') /\ Len(admins) <= Len(admins')
  /\ \A n \in DOMAIN roles' :
       \/ n \in DOMAIN roles /\ roles'[n] = roles[n]
       \/ /\ n \in DOMAIN roles => TouchesRole(c, n) /\ roles[n] # None
          /\ roles'[n] = None \/ NamesRole(c, roles'[n])
  /\ \A n \in DOMAIN permissions' :
       \/ n \in DOMAIN permissions /\ permissions'[n] = permissions[n]
       \/ /\ n \in DOMAIN permissions => TouchesPermission(c, n)
          /\ permissions'[n] = None \/ NamesPermission(c, permissions'[n])
  /\ \A g \in grants' \ grants : TouchesRole(c, g[1]) /\ TouchesPermission(c, g[2])
  /\ \A a \in DOMAIN admins' :
       \/ a \in DOMAIN admins /\ admins'[a] = admins[a]
       \/ /\ a \in DOMAIN admins => TouchesAdmin(c, a)
          /\ TouchesRole(c, admins'[a].role)
          /\ \/ a \in DOMAIN admins /\ admins'[a].phone = admins[a].phone
             \/ NamesPhone(c, admins'[a].phone)

TablesAre(rs, ps, as) ==
  /\ DOMAIN rs = 1..Len(rs) /\ Len(rs) \in Nat /\ DOMAIN ps = 1..Len(ps) /\ Len(ps) \in Nat
  /\ DOMAIN as = 1..Len(as) /\ Len(as) \in Nat

LEMMA TableSizes == TablesInv => TablesAre(roles, permissions, admins)
<1> SUFFICES ASSUME TablesInv PROVE TablesAre(roles, permissions, admins)
  OBVIOUS
<1>1. roles \in Seq(Names) /\ permissions \in Seq(Names) /\ admins \in Seq(AdminRow)
  BY DEF TablesInv, NamesOK
<1> QED
  BY <1>1 DEF TablesAre

LEMMA NewTableSizes == TablesInv' => TablesAre(roles, permissions, admins)'
<1> SUFFICES ASSUME TablesInv' PROVE TablesAre(roles, permissions, admins)'
  OBVIOUS
<1>1. roles' \in Seq(Names) /\ permissions' \in Seq(Names) /\ admins' \in Seq(AdminRow)
  BY DEF TablesInv, NamesOK
<1> QED
  BY <1>1 DEF TablesAre

LEMMA NothingWritten ==
  ASSUME TablesInv, UNCHANGED <<roles, permissions, grants, admins>>, NEW c
  PROVE  Within(c)
BY TableSizes DEF Within, TablesAre

(* The tables only grow. *)
LEMMA CallStays ==
  ASSUME TablesInv, TablesInv', NEW c, Within(c), NEW d, CallOK(d)
  PROVE  CallOK(d)'
<1>1. TablesAre(roles, permissions, admins) /\ TablesAre(roles, permissions, admins)'
  BY TableSizes, NewTableSizes
<1>2. /\ Len(roles) <= Len(roles') /\ Len(permissions) <= Len(permissions') /\ Len(admins) <= Len(admins')
  BY DEF Within
<1>3. /\ Len(roles) \in Nat /\ Len(roles') \in Nat /\ Len(permissions) \in Nat /\ Len(permissions') \in Nat
      /\ Len(admins) \in Nat /\ Len(admins') \in Nat
  BY <1>1 DEF TablesAre
<1>4. /\ \A n : n \in 0..Len(roles) => n \in 0..Len(roles')
      /\ \A n : n \in 0..Len(permissions) => n \in 0..Len(permissions')
      /\ \A n : n \in 0..Len(admins) => n \in 0..Len(admins')
  BY <1>2, <1>3
<1> QED
  BY <1>4, Zenon DEF CallOK

(* What another call touches is as it was. *)
LEMMA OthersSee ==
  ASSUME TablesInv, TablesInv', NEW c, Within(c), NEW d, AreApart(d, c), CallOK(d)
  PROVE  /\ CallOK(d)'
         /\ \A n : TouchesRole(d, n) => n \in DOMAIN roles /\ n \in DOMAIN roles' /\ roles'[n] = roles[n]
         /\ d.op \in AdminCalls /\ d.id # 0 =>
              d.id \in DOMAIN admins /\ d.id \in DOMAIN admins' /\ admins'[d.id] = admins[d.id]
         /\ \A n : TouchesRole(d, n)' <=> TouchesRole(d, n)
<1>1. TablesAre(roles, permissions, admins) /\ TablesAre(roles, permissions, admins)'
  BY TableSizes, NewTableSizes
<1>0. /\ Len(roles) <= Len(roles') /\ Len(permissions) <= Len(permissions') /\ Len(admins) <= Len(admins')
  BY DEF Within
<1>2. CallOK(d)'
  BY CallStays
<1>3. ASSUME d.op \in AdminCalls, d.id # 0
      PROVE  d.id \in DOMAIN admins /\ d.id \in DOMAIN admins' /\ admins'[d.id] = admins[d.id]
  <2>1. d.id \in DOMAIN admins /\ d.id \in DOMAIN admins'
    BY <1>0, <1>1, <1>3 DEF CallOK, TablesAre
  <2>2. TouchesAdmin(d, d.id)
    BY <1>3 DEF TouchesAdmin
  <2>3. ~TouchesAdmin(c, d.id)
    BY <2>2 DEF AreApart
  <2> QED
    BY <2>1, <2>3 DEF Within
<1>4. ASSUME NEW n, TouchesRole(d, n)
      PROVE  n \in DOMAIN roles /\ n \in DOMAIN roles' /\ roles'[n] = roles[n]
  <2>1. n \in DOMAIN roles
    <3>1. CASE d.op \in AdminCalls /\ d.id \in DOMAIN admins /\ n = admins[d.id].role
      BY <3>1 DEF TablesInv, Rows
    <3> QED
      BY <1>1, <1>4, <3>1 DEF TouchesRole, CallOK, TablesAre
  <2>2. n \in DOMAIN roles'
    BY <1>0, <1>1, <2>1 DEF TablesAre
  <2>3. ~TouchesRole(c, n)
    BY <1>4 DEF AreApart
  <2> QED
    BY <2>1, <2>2, <2>3 DEF Within
<1>5. ASSUME NEW n PROVE TouchesRole(d, n)' <=> TouchesRole(d, n)
  <2>1. 0 \notin DOMAIN admins /\ 0 \notin DOMAIN admins'
    BY <1>1 DEF TablesAre
  <2>2. CASE d.op \in AdminCalls /\ d.id # 0
    <3>1. d.id \in DOMAIN admins /\ d.id \in DOMAIN admins' /\ admins'[d.id] = admins[d.id]
      BY <1>3, <2>2
    <3> QED
      BY <3>1 DEF TouchesRole
  <2>3. CASE ~(d.op \in AdminCalls /\ d.id # 0)
    BY <2>1, <2>3 DEF TouchesRole
  <2> QED
    BY <2>2, <2>3
<1> QED
  BY <1>2, <1>3, <1>4, <1>5

LEMMA OthersKeep ==
  ASSUME TablesInv, TablesInv', NEW c, Within(c), NEW h, AreApart(h.call, c), ChecksOK(h),
         h.call.op \in AdminOps => h.call.id # 0
  PROVE  ChecksOK(h)'
<1> PICK d : d = h.call
  OBVIOUS
<1>0. CallOK(d) /\ Came(h.pc, d.op) /\ AreApart(d, c)
  BY DEF ChecksOK
<1>1. /\ CallOK(d)'
      /\ \A n : TouchesRole(d, n) => n \in DOMAIN roles /\ n \in DOMAIN roles' /\ roles'[n] = roles[n]
      /\ d.op \in AdminCalls /\ d.id # 0 =>
           d.id \in DOMAIN admins /\ d.id \in DOMAIN admins' /\ admins'[d.id] = admins[d.id]
      /\ \A n : TouchesRole(d, n)' <=> TouchesRole(d, n)
  BY <1>0, OthersSee
<1>2. 0 \notin DOMAIN roles /\ 0 \notin DOMAIN permissions /\ 0 \notin DOMAIN admins
  BY TableSizes DEF TablesAre
<1>3. \A n : TouchesRole(d, n) /\ Row(roles, n) => Row(roles, n)'
  BY <1>1 DEF Row
<1>4. ASSUME NEW p, TouchesPermission(d, p), Row(permissions, p) PROVE Row(permissions, p)'
  <2>1. p \in DOMAIN permissions /\ p \in DOMAIN permissions'
    BY <1>4, TableSizes, NewTableSizes DEF Row, Within, TablesAre
  <2>2. ~TouchesPermission(c, p)
    BY <1>0, <1>4 DEF AreApart
  <2> QED
    BY <1>4, <2>1, <2>2 DEF Row, Within
<1>5. ASSUME NamesRole(d, d.name), NEW n \in DOMAIN roles', roles'[n] = d.name
      PROVE  n \in DOMAIN roles /\ roles[n] = d.name
  <2>1. ~NamesRole(c, d.name) /\ d.name # None
    BY <1>0, <1>5 DEF AreApart, NamesRole
  <2> QED
    BY <1>5, <2>1 DEF Within
<1>6. ASSUME NamesPermission(d, d.name), NEW n \in DOMAIN permissions', permissions'[n] = d.name
      PROVE  n \in DOMAIN permissions /\ permissions[n] = d.name
  <2>1. ~NamesPermission(c, d.name) /\ d.name # None
    BY <1>0, <1>6 DEF AreApart, NamesPermission
  <2> QED
    BY <1>6, <2>1 DEF Within
<1>7. ASSUME NamesPhone(d, d.name), NEW n \in DOMAIN admins', admins'[n].phone = d.name
      PROVE  n \in DOMAIN admins /\ admins[n].phone = d.name
  <2>1. ~NamesPhone(c, d.name)
    BY <1>0, <1>7 DEF AreApart
  <2> QED
    BY <1>7, <2>1 DEF Within
<1>8. ASSUME NEW n, TouchesRole(d, n), NEW g \in grants', g[1] = n
      PROVE  g \in grants
  BY <1>0, <1>8 DEF Within, AreApart
<1>9. ASSUME NEW p, TouchesPermission(d, p), NEW g \in grants', g[2] = p
      PROVE  g \in grants
  BY <1>0, <1>9 DEF Within, AreApart
<1>10. ASSUME NEW n, TouchesRole(d, n), NEW a \in DOMAIN admins', admins'[a].role = n
       PROVE  a \in DOMAIN admins /\ admins[a].role = n
  BY <1>0, <1>10 DEF Within, AreApart
<1>11. d.op \in RoleOps /\ d.id # 0 => TouchesRole(d, d.id)
  BY DEF TouchesRole
<1>12. /\ d.op \in RoleOps => \A p \in d.perms : p # 0 => TouchesPermission(d, p)
       /\ d.op \in PermissionOps /\ d.id # 0 => TouchesPermission(d, d.id)
       /\ d.op \in AdminCalls /\ d.role # 0 => TouchesRole(d, d.role)
  BY DEF TouchesPermission, TouchesRole
<1>13. d.name # None => /\ d.op \in RoleOps => NamesRole(d, d.name)
                        /\ d.op \in PermissionOps => NamesPermission(d, d.name)
                        /\ d.op \in AdminCalls => NamesPhone(d, d.name)
  BY DEF NamesRole, NamesPermission, NamesPhone
<1> USE DEF RoleOps, PermissionOps, AdminCalls, AdminOps
<1>a. h.pc = "insert_role" => ~IsNamed(roles, d.name)'
  BY <1>0, <1>5, <1>13 DEF ChecksOK, CallOK, Came, IsNamed
<1>b. h.pc = "write_role" => NameIsFree(roles, d.id, d.name)'
  BY <1>0, <1>5, <1>13 DEF ChecksOK, Came, NameIsFree
<1>c. h.pc \in {"find_permissions", "drop_grants", "insert_grants"} => Row(roles, d.id)'
  BY <1>0, <1>3, <1>11 DEF ChecksOK, Came, Assigning
<1>d. h.pc \in {"drop_grants", "insert_grants"} => \A p \in d.perms : Row(permissions, p)'
  BY <1>0, <1>2, <1>4, <1>12 DEF ChecksOK, Came, Assigning, Row
<1>e. h.pc = "insert_grants" => \A g \in grants' : g[1] # d.id
  BY <1>0, <1>8, <1>11 DEF ChecksOK, Came, Assigning
<1>f. h.pc \in {"drop_role_grants", "delete_role"} => Row(roles, d.id)' /\ Members(d.id)' = {}
  <2> SUFFICES ASSUME h.pc \in {"drop_role_grants", "delete_role"}
               PROVE  Row(roles, d.id)' /\ Members(d.id)' = {}
    OBVIOUS
  <2>1. TouchesRole(d, d.id) /\ Row(roles, d.id) /\ Members(d.id) = {}
    BY <1>0, <1>11, Zenon DEF ChecksOK, Came, CallOK
  <2> QED
    BY <1>3, <1>10, <2>1 DEF Members
<1>g. h.pc = "insert_permission" => ~IsNamed(permissions, d.name)'
  BY <1>0, <1>6, <1>13 DEF ChecksOK, CallOK, Came, IsNamed
<1>h. h.pc = "write_permission" => NameIsFree(permissions, d.id, d.name)'
  BY <1>0, <1>6, <1>13 DEF ChecksOK, Came, NameIsFree
<1>i. h.pc = "delete_permission" => Row(permissions, d.id)' /\ \A g \in grants' : g[2] # d.id
  BY <1>0, <1>2, <1>4, <1>9, <1>12 DEF ChecksOK, Came, Row
<1>j. h.pc \in {"load_role", "insert_admin"} => \A b \in DOMAIN admins' : admins'[b].phone # d.name
  BY <1>0, <1>7, <1>13 DEF ChecksOK, CallOK, Came
<1>k. h.pc = "insert_admin" => Row(roles, d.role)'
  BY <1>0, <1>2, <1>3, <1>12 DEF ChecksOK, Came, Row
<1>l. h.pc \in {"check_new_role", "write_admin"} /\ d.name \notin {None, h.row.phone} =>
        PhoneIsFree(d.id, d.name)'
  BY <1>0, <1>7, <1>13 DEF ChecksOK, Came, PhoneIsFree
<1>m. Came(h.pc, d.op) /\ (h.pc \in Assigning => d.id # 0)
  BY <1>0 DEF ChecksOK
<1> QED
  BY <1>1, <1>a, <1>b, <1>c, <1>d, <1>e, <1>f, <1>g, <1>h, <1>i, <1>j, <1>k, <1>l, <1>m DEF ChecksOK

(* From what is said of the values in the slots to what is said of the slots. *)
LEMMA ChecksFrom ==
  ASSUME \A q \in Requests : \A g : g = reqs'[q] => ChecksOK(g)'
  PROVE  ChecksInv'
<1> SUFFICES ASSUME NEW q \in Requests, NEW g, g = reqs'[q], ChecksOK(g)'
             PROVE  ChecksOK(reqs[q])'
  BY DEF ChecksInv
<1> QED
  BY DEF ChecksOK, CallOK, RoleOf, RoleName, Members, PhoneIsFree

LEMMA ApartFrom ==
  ASSUME \A p, q \in Requests : \A x, y : p # q /\ x = reqs'[p].call /\ y = reqs'[q].call => AreApart(x, y)'
  PROVE  ApartInv'
<1> SUFFICES ASSUME NEW p \in Requests, NEW q \in Requests, p # q,
                    NEW x, NEW y, x = reqs'[p].call, y = reqs'[q].call, AreApart(x, y)'
             PROVE  AreApart(reqs[p].call, reqs[q].call)'
  BY DEF ApartInv
<1> QED
  BY DEF AreApart, TouchesRole, TouchesPermission, TouchesAdmin, NamesRole, NamesPermission, NamesPhone

(* What its own call touches, after the step. *)
LEMMA MoverTouches ==
  ASSUME TablesInv, TablesInv', NEW c, Within(c), CallOK(c), NEW n, TouchesRole(c, n)'
  PROVE  TouchesRole(c, n)
<1>1. CASE c.op \in AdminCalls /\ c.id \in DOMAIN admins' /\ n = admins'[c.id].role
  BY <1>1 DEF Within, TouchesRole
<1> QED
  BY <1>1 DEF TouchesRole

(* How the request in a slot goes on. Only the creation of a role gets an  *)
(* id that its call did not have.                                          *)
GoesOn(h, g) ==
  \/ g = Idle
  \/ g.call = h.call
  \/ h.call.op = "create_role" /\ g.call = [h.call EXCEPT !.id = Len(roles) + 1]

LEMMA StillApart ==
  ASSUME TablesInv, TablesInv', NEW h, NEW g, Within(h.call), CallOK(h.call), GoesOn(h, g),
         h.call \in Call, NEW d, CallOK(d), AreApart(d, h.call), AreApart(h.call, d)
  PROVE  AreApart(d, g.call)' /\ AreApart(g.call, d)'
<1> PICK c, e : c = h.call /\ e = g.call
  OBVIOUS
<1>1. /\ \A n : TouchesRole(d, n) => n \in DOMAIN roles
      /\ \A n : TouchesRole(d, n)' <=> TouchesRole(d, n)
  BY OthersSee
<1>2. /\ \A n : TouchesRole(e, n)' => TouchesRole(c, n) \/ n = Len(roles) + 1
      /\ \A p : TouchesPermission(e, p) => TouchesPermission(c, p)
      /\ \A a : TouchesAdmin(e, a) => TouchesAdmin(c, a)
      /\ \A x : NamesRole(e, x) => NamesRole(c, x)
      /\ \A x : NamesPermission(e, x) => NamesPermission(c, x)
      /\ \A x : NamesPhone(e, x) => NamesPhone(c, x)
  <2>1. CASE e = NoCall
    BY <2>1 DEF NoCall, None, RoleOps, PermissionOps, AdminCalls, AdminOps, TouchesRole,
                TouchesPermission, TouchesAdmin, NamesRole, NamesPermission, NamesPhone
  <2>2. CASE e = c
    BY <2>2, MoverTouches
  <2>3. CASE c.op = "create_role" /\ e = [c EXCEPT !.id = Len(roles) + 1]
    <3>1. e.op = "create_role" /\ e.id = Len(roles) + 1 /\ e.name = c.name /\ e.perms = c.perms
      BY <2>3 DEF Call
    <3> QED
      BY <2>3, <3>1 DEF RoleOps, PermissionOps, AdminCalls, AdminOps, TouchesRole,
                TouchesPermission, TouchesAdmin, NamesRole, NamesPermission, NamesPhone
  <2> QED
    BY <2>1, <2>2, <2>3 DEF GoesOn, Idle
<1>3. Len(roles) + 1 \notin DOMAIN roles
  BY TableSizes DEF TablesAre
<1>4. /\ \A n : ~(TouchesRole(d, n)' /\ TouchesRole(e, n)')
      /\ \A n : ~(TouchesPermission(d, n) /\ TouchesPermission(e, n))
      /\ \A n : ~(TouchesAdmin(d, n) /\ TouchesAdmin(e, n))
      /\ \A x : ~(NamesRole(d, x) /\ NamesRole(e, x))
      /\ \A x : ~(NamesPermission(d, x) /\ NamesPermission(e, x))
      /\ \A x : ~(NamesPhone(d, x) /\ NamesPhone(e, x))
  BY <1>1, <1>2, <1>3 DEF AreApart
<1> QED
  BY <1>4 DEF AreApart

LEMMA IdleChecks == TablesInv => ChecksOK(Idle)
<1> SUFFICES ASSUME TablesInv PROVE ChecksOK(Idle)
  OBVIOUS
<1>1. 0 \in 0..Len(roles)
  BY TableSizes DEF TablesAre
<1>2. Idle.pc = "idle" /\ Idle.call = NoCall /\ NoCall.op = None /\ NoCall.role = 0
  BY DEF Idle, NoCall
<1> QED
  BY <1>1, <1>2 DEF ChecksOK, CallOK, Came, Assigning, None, RoleOps, PermissionOps, AdminCalls, AdminOps

LEMMA IdleChecksNext ==
  ASSUME TablesInv', NEW g, g = Idle
  PROVE  ChecksOK(g)'
<1>1. 0 \in 0..Len(roles')
  BY NewTableSizes DEF TablesAre
<1>2. g.pc = "idle" /\ g.call = NoCall /\ NoCall.op = None /\ NoCall.role = 0
  BY DEF Idle, NoCall
<1> QED
  BY <1>1, <1>2 DEF ChecksOK, CallOK, Came, Assigning, None, RoleOps, PermissionOps, AdminCalls, AdminOps

(* Where nothing is written a check stays what it was. *)
LEMMA SameChecks ==
  ASSUME UNCHANGED <<roles, permissions, grants, admins>>, NEW g, ChecksOK(g)
  PROVE  ChecksOK(g)'
<1>1. roles' = roles /\ permissions' = permissions /\ grants' = grants /\ admins' = admins
  OBVIOUS
<1>2. CallOK(g.call)'
  <2>1. CallOK(g.call)
    BY DEF ChecksOK
  <2> QED
    BY <1>1, <2>1 DEF CallOK
<1>3. \A a : RoleOf(a)' = RoleOf(a)
  BY <1>1 DEF RoleOf, RoleName
<1>4. \A n : RoleName(n)' = RoleName(n) /\ Members(n)' = Members(n)
  BY <1>1 DEF RoleName, Members
<1>5. \A a, x : PhoneIsFree(a, x)' <=> PhoneIsFree(a, x)
  BY <1>1 DEF PhoneIsFree
<1> QED
  BY <1>1, <1>2, <1>3, <1>4, <1>5 DEF ChecksOK

LEMMA FailuresStay ==
  ASSUME OrderlyInv, TablesInv', NEW c, Within(c), UNCHANGED failed
  PROVE  FailuresOK'
<1> SUFFICES ASSUME NEW n \in (1..Len(roles)) \ Rows(roles)
             PROVE  n \in (1..Len(roles')) \ Rows(roles')
  BY DEF OrderlyInv, FailuresOK
<1>1. /\ TablesAre(roles, permissions, admins) /\ TablesAre(roles, permissions, admins)'
      /\ Len(roles) <= Len(roles')
  BY TableSizes, NewTableSizes DEF OrderlyInv, Inv, Within
<1>2. n \in DOMAIN roles /\ n \in DOMAIN roles' /\ n \in 1..Len(roles') /\ roles[n] = None
  BY <1>1 DEF TablesAre, Rows
<1> QED
  BY <1>2 DEF Within, Rows

(* One request goes on, on behalf of its call: all the others are apart.   *)
LEMMA StepKeeps ==
  ASSUME OrderlyInv, Inv', NEW r \in Requests, NEW h, h = reqs[r], NEW g, reqs' = [reqs EXCEPT ![r] = g],
         Within(h.call), GoesOn(h, g), ChecksOK(g)', FailuresOK'
  PROVE  OrderlyInv'
<1>t. /\ TablesInv /\ TablesInv' /\ RequestsInv /\ ApartInv /\ ChecksInv
      /\ reqs \in [Requests -> Request] /\ reqs'[r] = g
      /\ \A q \in Requests \ {r} : reqs'[q] = reqs[q]
  BY DEF OrderlyInv, Inv, RequestsInv
<1>h. h.call \in Call /\ ChecksOK(h) /\ CallOK(h.call)
  BY <1>t DEF Request, ChecksInv, ChecksOK
<1>1. ASSUME NEW q \in Requests \ {r}, NEW k, k = reqs[q]
      PROVE  /\ AreApart(k.call, h.call) /\ AreApart(h.call, k.call)
             /\ ChecksOK(k) /\ CallOK(k.call)
             /\ k.call.op \in AdminOps => k.call.id # 0
  BY <1>1, <1>t DEF ApartInv, ChecksInv, ChecksOK, RequestsInv, RequestOK
<1>2. ASSUME NEW q \in Requests, NEW k, k = reqs'[q]
      PROVE  ChecksOK(k)'
  <2>1. CASE q = r
    BY <1>2, <1>t, <2>1
  <2>2. CASE q # r
    BY <1>1, <1>2, <1>t, <2>2, OthersKeep
  <2> QED
    BY <2>1, <2>2
<1>3. ASSUME NEW p \in Requests, NEW q \in Requests, NEW x, NEW y, p # q,
             x = reqs'[p].call, y = reqs'[q].call
      PROVE  AreApart(x, y)'
  <2>1. CASE p # r /\ q # r
    <3> PICK k, l : k = reqs[p] /\ l = reqs[q]
      OBVIOUS
    <3>1. x = k.call /\ y = l.call /\ AreApart(x, y)
      BY <1>3, <1>t, <2>1 DEF ApartInv
    <3>2. /\ \A n : TouchesRole(x, n)' <=> TouchesRole(x, n)
          /\ \A n : TouchesRole(y, n)' <=> TouchesRole(y, n)
      BY <1>1, <1>t, <2>1, <3>1, OthersSee
    <3> QED
      BY <3>1, <3>2 DEF AreApart
  <2>2. CASE p = r
    <3> PICK k : k = reqs[q]
      OBVIOUS
    <3>1. x = g.call /\ y = k.call
      BY <1>3, <1>t, <2>2
    <3> QED
      BY <1>1, <1>3, <1>h, <1>t, <2>2, <3>1, StillApart
  <2>3. CASE q = r
    <3> PICK k : k = reqs[p]
      OBVIOUS
    <3>1. y = g.call /\ x = k.call
      BY <1>3, <1>t, <2>3
    <3> QED
      BY <1>1, <1>3, <1>h, <1>t, <2>3, <3>1, StillApart
  <2> QED
    BY <2>1, <2>2, <2>3
<1>4. ChecksInv' /\ ApartInv'
  BY <1>2, <1>3, ChecksFrom, ApartFrom
<1> QED
  BY <1>4 DEF OrderlyInv

(* The request ends, and nothing fails. *)
LEMMA EndKeeps ==
  ASSUME OrderlyInv, Inv', NEW r \in Requests, NEW h, h = reqs[r], Within(h.call), Finish(r), UNCHANGED failed
  PROVE  OrderlyInv'
<1> PICK g : g = Idle
  OBVIOUS
<1>1. reqs' = [reqs EXCEPT ![r] = g] /\ GoesOn(h, g)
  BY DEF Finish, GoesOn
<1>2. ChecksOK(g)' /\ FailuresOK'
  BY IdleChecksNext, FailuresStay DEF Inv
<1> QED
  BY <1>1, <1>2, StepKeeps

(* The request goes on with its call. *)
LEMMA PlaceKeeps ==
  ASSUME OrderlyInv, Inv', NEW r \in Requests, NEW h, h = reqs[r], Within(h.call), UNCHANGED failed,
         NEW pc, Goto(r, pc), NEW g, g = [h EXCEPT !.pc = pc], ChecksOK(g)'
  PROVE  OrderlyInv'
<1>1. h \in Request
  BY DEF OrderlyInv, Inv, RequestsInv
<1>2. reqs' = [reqs EXCEPT ![r] = g] /\ GoesOn(h, g)
  BY <1>1 DEF Goto, GoesOn, Request
<1>3. FailuresOK'
  BY FailuresStay DEF Inv
<1> QED
  BY <1>2, <1>3, StepKeeps

LEMMA CheckGoes ==
  ASSUME OrderlyInv, Inv', NEW r \in Requests, NEW h, h = reqs[r], NEW ok, NEW pc, Check(r, ok, pc),
         NEW g, g = [h EXCEPT !.pc = pc], ok => ChecksOK(g)
  PROVE  OrderlyInv'
<1>1. UNCHANGED <<roles, permissions, grants, admins>> /\ UNCHANGED failed
  BY DEF Check
<1>2. Within(h.call)
  BY <1>1, NothingWritten DEF OrderlyInv, Inv
<1>3. CASE ok
  BY <1>1, <1>2, <1>3, SameChecks, PlaceKeeps DEF Check
<1>4. CASE ~ok
  BY <1>1, <1>2, <1>4, EndKeeps DEF Check
<1> QED
  BY <1>3, <1>4

(* What the calls give, kind by kind. *)
LEMMA CallFields ==
  ASSUME Inv, NEW c \in Calls
  PROVE  /\ c.op \in Ops /\ c.id \in Nat
         /\ c.op \in RoleOps => c.id \in {0} \union DOMAIN roles
         /\ c.op \in {"update_role", "assign", "remove_role", "remove_grant"} => c.id \in DOMAIN roles
         /\ c.op = "remove_grant" => \E p : c.perms = {p}
         /\ c.op \in PermissionOps => c.id \in {0} \union DOMAIN permissions
         /\ c.op \in AdminCalls => c.id \in {0} \union DOMAIN admins
         /\ c.op = "create_role" => c.name \in RoleNames
         /\ c.op \in {"create_permission", "update_permission"} => c.name \in PermissionNames
         /\ c.op = "update_role" => c.name \in RoleNames \union {None}
         /\ c.op = "create_admin" => c.name \in Phones
         /\ c.role \in {0} \union DOMAIN roles
<1> DEFINE n == DOMAIN roles
           p == DOMAIN permissions
           a == DOMAIN admins
           any == {None}
           none == {{}}
<1>1. \/ c \in CallsOf({"create_role"}, {0}, RoleNames, {0}, PermissionSets, {TRUE})
      \/ c \in CallsOf({"update_role"}, n, RoleNames \union any, {0}, PermissionSets, {TRUE})
      \/ c \in CallsOf({"update_role"}, n, RoleNames, {0}, none, {FALSE})
      \/ c \in CallsOf({"assign"}, n, any, {0}, PermissionSets, {TRUE})
      \/ c \in CallsOf({"remove_role"}, n, any, {0}, none, {FALSE})
      \/ c \in CallsOf({"remove_grant"}, n, any, {0}, {{q} : q \in p}, {FALSE})
      \/ c \in CallsOf({"create_permission"}, {0}, PermissionNames, {0}, none, {FALSE})
      \/ c \in CallsOf({"update_permission"}, p, PermissionNames, {0}, none, {FALSE})
      \/ c \in CallsOf({"remove_permission"}, p, any, {0}, none, {FALSE})
      \/ c \in CallsOf({"create_admin"}, {0}, Phones, n, none, {FALSE})
      \/ c \in CallsOf({"update_admin"}, a, Phones \union any, {0} \union n, none, {FALSE})
      \/ c \in CallsOf({"toggle_admin", "remove_admin"}, a, any, {0}, none, {FALSE})
  BY DEF Calls
<1>2. \A ops, ids, names, rs, ps, set : c \in CallsOf(ops, ids, names, rs, ps, set) =>
        c.op \in ops /\ c.id \in ids /\ c.name \in names /\ c.role \in rs /\ c.perms \in ps
  BY DEF CallsOf
<1>3. c.op \in Ops /\ c.id \in Nat
  BY CallTypes DEF Call
<1> HIDE DEF n, p, a, any, none
<1>4. \/ c.op = "create_role" /\ c.id = 0 /\ c.name \in RoleNames /\ c.role = 0
      \/ c.op = "update_role" /\ c.id \in n /\ c.name \in RoleNames \union {None} /\ c.role = 0
      \/ c.op \in {"assign", "remove_role"} /\ c.id \in n /\ c.role = 0
      \/ c.op = "remove_grant" /\ c.id \in n /\ c.role = 0 /\ c.perms \in {{q} : q \in p}
      \/ c.op = "create_permission" /\ c.id = 0 /\ c.name \in PermissionNames /\ c.role = 0
      \/ c.op = "update_permission" /\ c.id \in p /\ c.name \in PermissionNames /\ c.role = 0
      \/ c.op = "remove_permission" /\ c.id \in p /\ c.role = 0
      \/ c.op = "create_admin" /\ c.id = 0 /\ c.name \in Phones /\ c.role \in n
      \/ c.op \in {"update_admin", "toggle_admin", "remove_admin"} /\ c.id \in a /\ c.role \in {0} \union n
  BY <1>1, <1>2 DEF any
<1> QED
  BY <1>3, <1>4 DEF n, p, a, RoleOps, PermissionOps, AdminCalls, AdminOps

LEMMA NewCallOK ==
  ASSUME Inv, NEW c \in Calls
  PROVE  CallOK(c)
<1>1. TablesAre(roles, permissions, admins)
  BY TableSizes DEF Inv
<1>2. /\ c.op \in Ops /\ c.id \in Nat
      /\ c.op \in RoleOps => c.id \in {0} \union DOMAIN roles
      /\ c.op \in {"update_role", "assign", "remove_role", "remove_grant"} => c.id \in DOMAIN roles
      /\ c.op = "remove_grant" => \E p : c.perms = {p}
      /\ c.op \in PermissionOps => c.id \in {0} \union DOMAIN permissions
      /\ c.op \in AdminCalls => c.id \in {0} \union DOMAIN admins
      /\ c.op = "create_role" => c.name \in RoleNames
      /\ c.op \in {"create_permission", "update_permission"} => c.name \in PermissionNames
      /\ c.op = "create_admin" => c.name \in Phones
      /\ c.role \in {0} \union DOMAIN roles
  BY CallFields
<1>3. /\ {0} \union DOMAIN roles = 0..Len(roles) /\ 0 \notin DOMAIN roles
      /\ {0} \union DOMAIN permissions = 0..Len(permissions)
      /\ {0} \union DOMAIN admins = 0..Len(admins)
  BY <1>1 DEF TablesAre
<1>4. None \notin RoleNames /\ None \notin PermissionNames /\ None \notin Phones
  BY NoneIsNoName
<1> HIDE DEF RoleOps, PermissionOps, AdminCalls
<1> QED
  BY <1>2, <1>3, <1>4, Zenon DEF CallOK

LEMMA NewChecksOK ==
  ASSUME NEW h, CallOK(h.call), h.pc \in {h.call.op, "guard"}, h.call.op \in Ops
  PROVE  ChecksOK(h)
BY DEF ChecksOK, CallOK, Came, Assigning, Ops

LEMMA AuthenticateOrderly ==
  ASSUME Overlap = FALSE, OrderlyInv, Inv', NEW r \in Requests, NEW caller \in DOMAIN admins,
         NEW c \in Calls, Authenticate(r, caller, c)
  PROVE  OrderlyInv'
<1> PICK g : g = [Idle EXCEPT !.pc = IF RoleOf(caller) = Manager THEN c.op ELSE "guard", !.call = c,
                              !.as = RoleOf(caller), !.asRole = admins[caller].role]
  OBVIOUS
<1>1. /\ reqs' = [reqs EXCEPT ![r] = g] /\ UNCHANGED <<roles, permissions, grants, admins>>
      /\ UNCHANGED failed
      /\ \A q \in Requests : Touched(reqs[q].call) \intersect Touched(c) = {}
  BY DEF Authenticate
<1>2. g.call = c /\ g.pc \in {c.op, "guard"}
  BY DEF Idle
<1>3. ChecksOK(g)
  BY <1>2, NewCallOK, NewChecksOK, CallTypes DEF OrderlyInv
<1>t. /\ ApartInv /\ ChecksInv /\ FailuresOK /\ reqs'[r] = g
      /\ \A q \in Requests \ {r} : reqs'[q] = reqs[q]
  BY <1>1 DEF OrderlyInv, Inv, RequestsInv
<1>4. ASSUME NEW q \in Requests, NEW k, k = reqs'[q]
      PROVE  ChecksOK(k)'
  <2>1. ChecksOK(k)
    BY <1>3, <1>4, <1>t DEF ChecksInv
  <2> QED
    BY <1>1, <2>1, SameChecks
<1>5. ASSUME NEW p \in Requests, NEW q \in Requests, NEW x, NEW y, p # q,
             x = reqs'[p].call, y = reqs'[q].call
      PROVE  AreApart(x, y)'
  <2>1. AreApart(x, y)
    <3>1. CASE p # r /\ q # r
      BY <1>5, <1>t, <3>1 DEF ApartInv
    <3>2. CASE p = r
      <4>1. x = c /\ y = reqs[q].call
        BY <1>2, <1>5, <1>t, <3>2
      <4> QED
        BY <1>1, <4>1, DisjointAreApart
    <3>3. CASE q = r
      <4>1. y = c /\ x = reqs[p].call
        BY <1>2, <1>5, <1>t, <3>3
      <4> QED
        BY <1>1, <4>1, DisjointAreApart
    <3> QED
      BY <3>1, <3>2, <3>3
  <2>2. \A d, n : TouchesRole(d, n)' <=> TouchesRole(d, n)
    BY <1>1 DEF TouchesRole
  <2> QED
    BY <2>1, <2>2 DEF AreApart
<1>6. FailuresOK'
  BY <1>1, <1>t DEF FailuresOK
<1> QED
  BY <1>4, <1>5, <1>6, ChecksFrom, ApartFrom DEF OrderlyInv

LEMMA GuardOrderly ==
  ASSUME OrderlyInv, Inv', NEW r \in Requests, PermissionsGuard(r)
  PROVE  OrderlyInv'
<1> PICK h, g : h = reqs[r] /\ g = [h EXCEPT !.pc = h.call.op]
  OBVIOUS
<1>1. h \in Request /\ RequestOK(h, Len(admins)) /\ ChecksOK(h) /\ h.pc = "guard"
  BY DEF OrderlyInv, Inv, RequestsInv, ChecksInv, PermissionsGuard, At
<1>2. g.call = h.call /\ g.pc = h.call.op /\ h.call.op \in Ops
  BY <1>1 DEF Request, RequestOK
<1>3. ChecksOK(g)
  BY <1>1, <1>2, NewChecksOK DEF ChecksOK
<1>4. Check(r, \E p \in PermissionsOf(h.asRole) : permissions[p] = Needed(h.call.op), h.call.op)
  BY DEF PermissionsGuard
<1> QED
  BY <1>3, <1>4, CheckGoes

-------------------------------------------------------------------------------
(* Step by step: what is written is what the call touches, and what has    *)
(* been checked is what the next statement needs                           *)

LEMMA GrantsDropped ==
  ASSUME TablesInv, UNCHANGED <<roles, permissions, admins>>, grants' \subseteq grants, NEW c
  PROVE  Within(c)
BY TableSizes DEF Within, TablesAre

(* A request at another place. *)
LEMMA Placed ==
  ASSUME NEW h \in Request, NEW pc, NEW g, g = [h EXCEPT !.pc = pc]
  PROVE  g.pc = pc /\ g.call = h.call /\ g.as = h.as /\ g.row = h.row
BY DEF Request

LEMMA RequestFacts ==
  ASSUME OrderlyInv, NEW r \in Requests, NEW h, h = reqs[r]
  PROVE  /\ h \in Request /\ h.call \in Call /\ ChecksOK(h) /\ CallOK(h.call) /\ Came(h.pc, h.call.op)
         /\ TablesInv /\ TablesAre(roles, permissions, admins)
         /\ h.call.op \in AdminOps => h.call.id \in DOMAIN admins
<1>1. h \in Request /\ ChecksOK(h) /\ RequestOK(h, Len(admins)) /\ TablesInv
  BY DEF OrderlyInv, Inv, RequestsInv, ChecksInv
<1>2. TablesAre(roles, permissions, admins)
  BY <1>1, TableSizes
<1> QED
  BY <1>1, <1>2 DEF ChecksOK, Request, RequestOK, TablesAre

LEMMA InsertRoleOrderly ==
  ASSUME OrderlyInv, Inv', NEW r \in Requests, InsertRole(r)
  PROVE  OrderlyInv'
<1> PICK h, c, name, size : h = reqs[r] /\ c = h.call /\ name = c.name /\ size = Len(roles)
  OBVIOUS
<1>h. /\ h \in Request /\ c \in Call /\ CallOK(c) /\ TablesInv /\ TablesInv' /\ roles \in Seq(Names)
      /\ h.pc = "insert_role" /\ c.op = "create_role" /\ name # None /\ ~IsNamed(roles, name)
  <2>1. /\ h \in Request /\ c \in Call /\ CallOK(c) /\ TablesInv /\ TablesInv' /\ ChecksOK(h)
        /\ Came(h.pc, c.op)
    BY RequestFacts DEF Inv
  <2>2. h.pc = "insert_role"
    BY DEF InsertRole, At
  <2>3. c.op = "create_role"
    BY <2>1, <2>2 DEF Came
  <2> QED
    BY <2>1, <2>2, <2>3 DEF CallOK, ChecksOK, TablesInv, NamesOK
<1>1. /\ roles' = Append(roles, name) /\ UNCHANGED <<permissions, grants, admins, failed>>
      /\ Finish(r) \/ reqs' = [reqs EXCEPT ![r].pc = "assign", ![r].call.id = size + 1]
  BY <1>h DEF InsertRole
<1>2. /\ size \in Nat /\ Len(roles') = size + 1 /\ DOMAIN roles = 1..size /\ DOMAIN roles' = 1..(size + 1)
      /\ \A n \in DOMAIN roles : roles'[n] = roles[n]
      /\ roles'[size + 1] = name
  BY <1>h, <1>1, name \in Names DEF Call
<1>3. Within(c)
  <2>1. NamesRole(c, name)
    BY <1>h DEF NamesRole, RoleOps
  <2>2. \A n \in DOMAIN roles' : n \in DOMAIN roles \/ n = size + 1
    BY <1>2
  <2>3. size + 1 \notin DOMAIN roles /\ Len(roles) <= Len(roles')
    BY <1>2
  <2> QED
    BY <1>1, <1>2, <2>1, <2>2, <2>3, <1>h, TableSizes DEF Within, TablesAre
<1>4. CASE Finish(r)
  BY <1>1, <1>3, <1>4, EndKeeps
<1>5. CASE reqs' = [reqs EXCEPT ![r].pc = "assign", ![r].call.id = size + 1]
  <2> PICK d, g : d = [c EXCEPT !.id = size + 1] /\ g = [h EXCEPT !.pc = "assign", !.call = d]
    OBVIOUS
  <2>1. /\ d.op = "create_role" /\ d.id = size + 1 /\ d.name = name /\ d.role = c.role /\ d.perms = c.perms
        /\ g.pc = "assign" /\ g.call = d
    BY <1>h DEF Request, Call
  <2>2. reqs' = [reqs EXCEPT ![r] = g]
    BY <1>5
  <2>3. CallOK(c)'
    BY <1>3, <1>h, CallStays
  <2>4. size + 1 # 0 /\ size + 1 \in 0..Len(roles')
    BY <1>2
  <2>5. CallOK(d)'
    BY <1>h, <2>1, <2>3, <2>4 DEF CallOK, PermissionOps, AdminCalls, AdminOps
  <2>6. ChecksOK(g)'
    <3>1. CallOK(g.call)'
      BY <2>1, <2>5
    <3> QED
      BY <2>1, <2>4, <3>1 DEF ChecksOK, Came, Assigning
  <2>7. GoesOn(h, g)
    BY <1>h, <2>1 DEF GoesOn
  <2>8. FailuresOK'
    BY <1>1, <1>3, <1>h, FailuresStay
  <2> QED
    BY <1>3, <2>2, <2>6, <2>7, <2>8, StepKeeps
<1> QED
  BY <1>1, <1>4, <1>5

LEMMA WriteRoleOrderly ==
  ASSUME OrderlyInv, Inv', NEW r \in Requests, WriteRole(r)
  PROVE  OrderlyInv'
<1> PICK h, c, n, name : h = reqs[r] /\ c = h.call /\ n = c.id /\ name = c.name
  OBVIOUS
<1>h. /\ h \in Request /\ c \in Call /\ CallOK(c) /\ TablesInv /\ TablesInv' /\ roles \in Seq(Names)
      /\ TablesAre(roles, permissions, admins)
      /\ h.pc = "write_role" /\ c.op = "update_role" /\ n # 0 /\ NameIsFree(roles, n, name)
  <2>1. /\ h \in Request /\ c \in Call /\ CallOK(c) /\ TablesInv /\ TablesInv' /\ ChecksOK(h)
        /\ Came(h.pc, c.op) /\ TablesAre(roles, permissions, admins)
    BY RequestFacts DEF Inv
  <2>2. h.pc = "write_role"
    BY DEF WriteRole, At
  <2>3. c.op = "update_role"
    BY <2>1, <2>2 DEF Came
  <2> QED
    BY <2>1, <2>2, <2>3 DEF CallOK, ChecksOK, TablesInv, NamesOK
<1>1. /\ roles' = Rename(roles, n, name) /\ UNCHANGED <<permissions, grants, admins, failed>>
      /\ IF c.set THEN Goto(r, "assign") ELSE Finish(r)
  BY <1>h DEF WriteRole
<1>2. /\ DOMAIN roles' = DOMAIN roles /\ Len(roles') = Len(roles)
      /\ \A m \in DOMAIN roles : roles'[m] = roles[m] \/ (m = n /\ roles[n] # None /\ roles'[n] = name /\ name # None)
  <2>1. CASE name # None /\ Row(roles, n)
    <3>1. roles' = [roles EXCEPT ![n] = name] /\ n \in DOMAIN roles /\ roles[n] # None
      BY <1>1, <2>1 DEF Rename, Row
    <3> QED
      BY <1>h, <2>1, <3>1
  <2>2. CASE ~(name # None /\ Row(roles, n))
    BY <1>1, <2>2 DEF Rename
  <2> QED
    BY <2>1, <2>2
<1>3. Within(c)
  <2>1. TouchesRole(c, n) /\ (name # None => NamesRole(c, name))
    BY <1>h DEF TouchesRole, NamesRole, RoleOps
  <2> QED
    BY <1>1, <1>2, <1>h, <2>1 DEF Within, TablesAre
<1>4. CASE Finish(r)
  BY <1>1, <1>3, <1>4, EndKeeps
<1>5. CASE Goto(r, "assign")
  <2> PICK g : g = [h EXCEPT !.pc = "assign"]
    OBVIOUS
  <2>1. g.pc = "assign" /\ g.call = c
    BY <1>h, Placed
  <2>2. CallOK(c)'
    BY <1>3, <1>h, CallStays
  <2>3. ChecksOK(g)'
    <3>1. CallOK(g.call)'
      BY <2>1, <2>2
    <3> QED
      BY <1>h, <2>1, <3>1 DEF ChecksOK, Came, Assigning
  <2> QED
    BY <1>1, <1>3, <1>5, <2>3, PlaceKeeps
<1> QED
  BY <1>1, <1>4, <1>5

LEMMA DropGrantsOrderly ==
  ASSUME OrderlyInv, Inv', NEW r \in Requests, DropGrants(r)
  PROVE  OrderlyInv'
<1> PICK h, c, n, g : h = reqs[r] /\ c = h.call /\ n = c.id /\ g = [h EXCEPT !.pc = "insert_grants"]
  OBVIOUS
<1>h. /\ h \in Request /\ CallOK(c) /\ TablesInv /\ TablesInv' /\ ChecksOK(h) /\ h.pc = "drop_grants"
      /\ g.pc = "insert_grants" /\ g.call = c
  BY RequestFacts, Placed DEF Inv, DropGrants, At
<1>1. /\ grants' = grants \ GrantsOf(n, PermissionsOf(n)) /\ UNCHANGED <<roles, permissions, admins, failed>>
      /\ Finish(r) \/ Goto(r, "insert_grants")
  BY DEF DropGrants
<1>2. Within(c)
  BY <1>1, <1>h, GrantsDropped
<1>3. \A x \in grants' : x[1] # n
  <2> SUFFICES ASSUME NEW x \in grants, x[1] = n PROVE x \in GrantsOf(n, PermissionsOf(n))
    BY <1>1
  <2>1. x = <<x[1], x[2]>>
    BY <1>h DEF TablesInv
  <2> QED
    BY <2>1 DEF GrantsOf, PermissionsOf
<1>4. ChecksOK(g)'
  <2>1. CallOK(c)'
    BY <1>2, <1>h, CallStays
  <2>2. CallOK(g.call)'
    BY <1>h, <2>1
  <2>3. n # 0 /\ Row(roles, n) /\ (\A p \in c.perms : Row(permissions, p)) /\ Came(g.pc, c.op)
    BY <1>h DEF ChecksOK, Came, Assigning
  <2> QED
    BY <1>1, <1>3, <1>h, <2>2, <2>3 DEF ChecksOK, Assigning, Row
<1> QED
  BY <1>1, <1>2, <1>4, EndKeeps, PlaceKeeps

LEMMA InsertGrantsOrderly ==
  ASSUME OrderlyInv, Inv', NEW r \in Requests, InsertGrants(r)
  PROVE  OrderlyInv'
<1> PICK h, c, n, new : h = reqs[r] /\ c = h.call /\ n = c.id /\ new = GrantsOf(n, c.perms)
  OBVIOUS
<1>h. /\ h \in Request /\ TablesInv /\ TablesAre(roles, permissions, admins) /\ ChecksOK(h)
      /\ h.pc = "insert_grants" /\ Came(h.pc, c.op)
  BY RequestFacts, Placed DEF Inv, InsertGrants, At
<1>1. /\ c.op \in RoleOps /\ n # 0 /\ Row(roles, n) /\ \A p \in c.perms : Row(permissions, p)
      /\ \A x \in grants : x[1] # n
  BY <1>h DEF ChecksOK, Came, Assigning, RoleOps
<1>2. new \intersect grants = {}
  BY <1>1 DEF GrantsOf
<1>3. grants' = grants \union new /\ Finish(r) /\ UNCHANGED <<roles, permissions, admins, failed>>
  BY <1>1, <1>2 DEF InsertGrants
<1>4. Within(c)
  <2>1. ASSUME NEW x \in new PROVE TouchesRole(c, x[1]) /\ TouchesPermission(c, x[2])
    <3>1. x[1] = n /\ x[2] \in c.perms /\ x[2] # 0
      BY <1>1, <1>h DEF GrantsOf, Row, TablesAre
    <3> QED
      BY <1>1, <3>1 DEF TouchesRole, TouchesPermission
  <2> QED
    BY <1>3, <1>h, <2>1 DEF Within, TablesAre
<1> QED
  BY <1>3, <1>4, EndKeeps

LEMMA DeleteRoleOrderly ==
  ASSUME OrderlyInv, Inv', NEW r \in Requests, DeleteRole(r)
  PROVE  OrderlyInv'
<1> PICK h, c, n : h = reqs[r] /\ c = h.call /\ n = c.id
  OBVIOUS
<1>h. /\ h \in Request /\ TablesInv /\ roles \in Seq(Names) /\ TablesAre(roles, permissions, admins)
      /\ ChecksOK(h) /\ h.pc = "delete_role" /\ Came(h.pc, c.op)
  BY RequestFacts DEF Inv, TablesInv, NamesOK, DeleteRole, At
<1>1. c.op \in RoleOps /\ Row(roles, n) /\ Members(n) = {}
  BY <1>h DEF ChecksOK, Came, RoleOps
<1>2. /\ roles' = [roles EXCEPT ![n] = None] /\ grants' \subseteq grants /\ Finish(r)
      /\ UNCHANGED <<permissions, admins, failed>>
  BY <1>1 DEF DeleteRole
<1>3. /\ n \in DOMAIN roles /\ roles[n] # None /\ roles'[n] = None
      /\ DOMAIN roles' = DOMAIN roles /\ Len(roles') = Len(roles)
      /\ \A m \in DOMAIN roles \ {n} : roles'[m] = roles[m]
  BY <1>1, <1>2, <1>h DEF Row
<1>4. TouchesRole(c, n)
  BY <1>1, <1>3, <1>h DEF TouchesRole, TablesAre
<1>5. Within(c)
  BY <1>2, <1>3, <1>4, <1>h DEF Within, TablesAre
<1> QED
  BY <1>2, <1>5, EndKeeps

LEMMA RoleStepOrderly ==
  ASSUME OrderlyInv, Inv', NEW r \in Requests, RoleStep(r)
  PROVE  OrderlyInv'
<1> PICK h, c, n, name : h = reqs[r] /\ c = h.call /\ n = c.id /\ name = c.name
  OBVIOUS
<1>h. /\ h \in Request /\ c \in Call /\ CallOK(c) /\ TablesInv /\ TablesInv' /\ ChecksOK(h) /\ Came(h.pc, c.op)
  BY RequestFacts DEF Inv
<1>p. \A pc, g : g = [h EXCEPT !.pc = pc] => g.pc = pc /\ g.call = c
  BY <1>h, Placed
<1>1. CASE CreateRole(r)
  <2> PICK g : g = [h EXCEPT !.pc = "insert_role"]
    OBVIOUS
  <2>1. ~IsNamed(roles, name) => ChecksOK(g)
    BY <1>1, <1>h, <1>p DEF CreateRole, At, ChecksOK, Came, Assigning
  <2> QED
    BY <1>1, <2>1, CheckGoes DEF CreateRole
<1>2. CASE InsertRole(r)
  BY <1>2, InsertRoleOrderly
<1>3. CASE UpdateRole(r)
  <2> PICK pc, g : /\ pc = IF name \in {None, RoleName(n)} THEN "write_role" ELSE "check_role_name"
                   /\ g = [h EXCEPT !.pc = pc]
    OBVIOUS
  <2>1. Check(r, Row(roles, n), pc) /\ h.pc = "update_role"
    BY <1>3 DEF UpdateRole, At
  <2>2. Row(roles, n) /\ name = RoleName(n) => NameIsFree(roles, n, name)
    BY <1>h DEF TablesInv, NamesOK, Row, Rows, RoleName, NameIsFree
  <2>3. Row(roles, n) /\ pc = "write_role" => NameIsFree(roles, n, name)
    BY <2>2 DEF NameIsFree
  <2>4. Row(roles, n) => ChecksOK(g)
    BY <1>h, <1>p, <2>1, <2>3 DEF ChecksOK, Came, Assigning
  <2> QED
    BY <2>1, <2>4, CheckGoes
<1>4. CASE CheckRoleName(r)
  <2> PICK g : g = [h EXCEPT !.pc = "write_role"]
    OBVIOUS
  <2>1. ~IsNamed(roles, name) => NameIsFree(roles, n, name)
    BY DEF IsNamed, NameIsFree
  <2>2. ~IsNamed(roles, name) => ChecksOK(g)
    BY <1>4, <1>h, <1>p, <2>1 DEF CheckRoleName, At, ChecksOK, Came, Assigning
  <2> QED
    BY <1>4, <2>2, CheckGoes DEF CheckRoleName
<1>5. CASE WriteRole(r)
  BY <1>5, WriteRoleOrderly
<1>6. CASE AssignPermissions(r)
  <2> PICK g : g = [h EXCEPT !.pc = "find_permissions"]
    OBVIOUS
  <2>1. Row(roles, n) => ChecksOK(g)
    BY <1>6, <1>h, <1>p DEF AssignPermissions, At, ChecksOK, Came, Assigning
  <2> QED
    BY <1>6, <2>1, CheckGoes DEF AssignPermissions
<1>7. CASE FindPermissions(r)
  <2> PICK g, ok : g = [h EXCEPT !.pc = "drop_grants"] /\ ok = \A p \in c.perms : Row(permissions, p)
    OBVIOUS
  <2>1. (\A p \in c.perms : Row(permissions, p)) => ChecksOK(g)
    BY <1>7, <1>h, <1>p DEF FindPermissions, At, ChecksOK, Came, Assigning
  <2>2. Check(r, ok, "drop_grants")
    BY <1>7 DEF FindPermissions
  <2> QED
    BY <2>1, <2>2, CheckGoes
<1>8. CASE DropGrants(r)
  BY <1>8, DropGrantsOrderly
<1>9. CASE InsertGrants(r)
  BY <1>9, InsertGrantsOrderly
<1>10. CASE RemoveRole(r)
  <2> PICK g : g = [h EXCEPT !.pc = "drop_role_grants"]
    OBVIOUS
  <2>1. Row(roles, n) /\ Members(n) = {} => ChecksOK(g)
    BY <1>10, <1>h, <1>p DEF RemoveRole, At, ChecksOK, Came, Assigning
  <2> QED
    BY <1>10, <2>1, CheckGoes DEF RemoveRole
<1>11. CASE DropRoleGrants(r)
  <2> PICK g : g = [h EXCEPT !.pc = "delete_role"]
    OBVIOUS
  <2>1. h.pc = "drop_role_grants" /\ Goto(r, "delete_role") /\ grants' \subseteq grants
        /\ UNCHANGED <<roles, permissions, admins, failed>>
    BY <1>11 DEF DropRoleGrants, At
  <2>2. Within(c)
    BY <1>h, <2>1, GrantsDropped
  <2>3. CallOK(g.call)' /\ g.pc = "delete_role" /\ g.call = c
    BY <1>h, <1>p, <2>2, CallStays
  <2>4. Row(roles, n) /\ Members(n) = {} /\ Members(n)' = Members(n) /\ c.op = "remove_role"
    BY <1>h, <2>1 DEF ChecksOK, Members, Came
  <2>5. ChecksOK(g)'
    BY <2>1, <2>3, <2>4 DEF ChecksOK, Came, Assigning
  <2> QED
    BY <2>1, <2>2, <2>5, PlaceKeeps
<1>12. CASE DeleteRole(r)
  BY <1>12, DeleteRoleOrderly
<1>13. CASE RemovePermission(r)
  <2> PICK g : g = [h EXCEPT !.pc = "drop_grant"]
    OBVIOUS
  <2>1. ChecksOK(g)
    BY <1>13, <1>h, <1>p DEF RemovePermission, At, ChecksOK, Came, Assigning
  <2> QED
    BY <1>13, <2>1, CheckGoes DEF RemovePermission
<1>14. CASE DropGrant(r)
  <2>1. Within(c)
    BY <1>14, <1>h, GrantsDropped DEF DropGrant
  <2> QED
    BY <1>14, <2>1, EndKeeps DEF DropGrant
<1> QED
  BY <1>1, <1>2, <1>3, <1>4, <1>5, <1>6, <1>7, <1>8, <1>9, <1>10, <1>11, <1>12, <1>13, <1>14
  DEF RoleStep

LEMMA InsertPermissionOrderly ==
  ASSUME OrderlyInv, Inv', NEW r \in Requests, InsertPermission(r)
  PROVE  OrderlyInv'
<1> PICK h, c, name, size : h = reqs[r] /\ c = h.call /\ name = c.name /\ size = Len(permissions)
  OBVIOUS
<1>h. /\ c \in Call /\ CallOK(c) /\ TablesInv /\ TablesAre(roles, permissions, admins)
      /\ permissions \in Seq(Names) /\ ChecksOK(h) /\ Came(h.pc, c.op) /\ h.pc = "insert_permission"
  BY RequestFacts DEF TablesInv, NamesOK, InsertPermission, At
<1>1. c.op = "create_permission" /\ name # None /\ name \in Names /\ ~IsNamed(permissions, name)
  BY <1>h DEF ChecksOK, CallOK, Came, Call
<1>2. permissions' = Append(permissions, name) /\ UNCHANGED <<roles, grants, admins, failed>> /\ Finish(r)
  BY <1>1 DEF InsertPermission
<1>3. /\ size \in Nat /\ Len(permissions') = size + 1
      /\ DOMAIN permissions = 1..size /\ DOMAIN permissions' = 1..(size + 1)
      /\ \A n \in DOMAIN permissions : permissions'[n] = permissions[n]
      /\ permissions'[size + 1] = name
  BY <1>h, <1>1, <1>2
<1>4. /\ \A n \in DOMAIN permissions' : n \in DOMAIN permissions \/ n = size + 1
      /\ size + 1 \notin DOMAIN permissions /\ Len(permissions) <= Len(permissions')
  BY <1>3
<1>5. NamesPermission(c, name)
  BY <1>1 DEF NamesPermission, PermissionOps
<1>6. Within(c)
  BY <1>2, <1>3, <1>4, <1>5, <1>h DEF Within, TablesAre
<1> QED
  BY <1>2, <1>6, EndKeeps

LEMMA WritePermissionOrderly ==
  ASSUME OrderlyInv, Inv', NEW r \in Requests, WritePermission(r)
  PROVE  OrderlyInv'
<1> PICK h, c, n, name : h = reqs[r] /\ c = h.call /\ n = c.id /\ name = c.name
  OBVIOUS
<1>h. /\ TablesInv /\ TablesAre(roles, permissions, admins)
      /\ permissions \in Seq(Names) /\ ChecksOK(h) /\ Came(h.pc, c.op) /\ h.pc = "write_permission"
  BY RequestFacts DEF TablesInv, NamesOK, WritePermission, At
<1>1. c.op = "update_permission" /\ NameIsFree(permissions, n, name)
  BY <1>h DEF ChecksOK, Came
<1>2. permissions' = Rename(permissions, n, name) /\ UNCHANGED <<roles, grants, admins, failed>> /\ Finish(r)
  BY <1>1 DEF WritePermission
<1>3. /\ DOMAIN permissions' = DOMAIN permissions /\ Len(permissions') = Len(permissions)
      /\ \A m \in DOMAIN permissions :
           permissions'[m] = permissions[m] \/ (m = n /\ permissions'[n] = name /\ name # None)
  <2>1. CASE name # None /\ Row(permissions, n)
    <3>1. permissions' = [permissions EXCEPT ![n] = name] /\ n \in DOMAIN permissions
      BY <1>2, <2>1 DEF Rename, Row
    <3> QED
      BY <1>h, <2>1, <3>1
  <2>2. CASE ~(name # None /\ Row(permissions, n))
    BY <1>2, <2>2 DEF Rename
  <2> QED
    BY <2>1, <2>2
<1>4. /\ n \in DOMAIN permissions => TouchesPermission(c, n)
      /\ name # None => NamesPermission(c, name)
  BY <1>1, <1>h DEF TouchesPermission, NamesPermission, PermissionOps, TablesAre
<1>5. Within(c)
  BY <1>2, <1>3, <1>4, <1>h DEF Within, TablesAre
<1> QED
  BY <1>2, <1>5, EndKeeps

LEMMA DeletePermissionOrderly ==
  ASSUME OrderlyInv, Inv', NEW r \in Requests, DeletePermission(r)
  PROVE  OrderlyInv'
<1> PICK h, c, n : h = reqs[r] /\ c = h.call /\ n = c.id
  OBVIOUS
<1>h. /\ TablesInv /\ TablesAre(roles, permissions, admins)
      /\ permissions \in Seq(Names) /\ ChecksOK(h) /\ Came(h.pc, c.op) /\ h.pc = "delete_permission"
  BY RequestFacts DEF TablesInv, NamesOK, DeletePermission, At
<1>1. c.op \in PermissionOps /\ n \in DOMAIN permissions
  BY <1>h DEF ChecksOK, Came, PermissionOps, Row
<1>2. /\ permissions' = [permissions EXCEPT ![n] = None] /\ grants' \subseteq grants
      /\ UNCHANGED <<roles, admins, failed>> /\ Finish(r)
  BY DEF DeletePermission
<1>3. /\ DOMAIN permissions' = DOMAIN permissions /\ Len(permissions') = Len(permissions)
      /\ permissions'[n] = None /\ \A m \in DOMAIN permissions \ {n} : permissions'[m] = permissions[m]
  BY <1>1, <1>2, <1>h
<1>4. TouchesPermission(c, n)
  BY <1>1, <1>h DEF TouchesPermission, TablesAre
<1>5. Within(c)
  BY <1>2, <1>3, <1>4, <1>h DEF Within, TablesAre
<1> QED
  BY <1>2, <1>5, EndKeeps

LEMMA PermissionStepOrderly ==
  ASSUME OrderlyInv, Inv', NEW r \in Requests, PermissionStep(r)
  PROVE  OrderlyInv'
<1> PICK h, c, n, name : h = reqs[r] /\ c = h.call /\ n = c.id /\ name = c.name
  OBVIOUS
<1>h. h \in Request /\ CallOK(c) /\ TablesInv /\ ChecksOK(h) /\ Came(h.pc, c.op)
  BY RequestFacts DEF Inv
<1>p. \A pc, g : g = [h EXCEPT !.pc = pc] => g.pc = pc /\ g.call = c
  BY <1>h, Placed
<1>1. CASE CreatePermission(r)
  <2> PICK g : g = [h EXCEPT !.pc = "insert_permission"]
    OBVIOUS
  <2>1. ~IsNamed(permissions, name) => ChecksOK(g)
    BY <1>1, <1>h, <1>p DEF CreatePermission, At, ChecksOK, Came, Assigning
  <2> QED
    BY <1>1, <2>1, CheckGoes DEF CreatePermission
<1>2. CASE InsertPermission(r)
  BY <1>2, InsertPermissionOrderly
<1>3. CASE UpdatePermission(r)
  <2> PICK pc, g : /\ pc = IF name = permissions[n] THEN "write_permission" ELSE "check_permission_name"
                   /\ g = [h EXCEPT !.pc = pc]
    OBVIOUS
  <2>1. Check(r, Row(permissions, n), pc) /\ h.pc = "update_permission"
    BY <1>3 DEF UpdatePermission, At
  <2>2. Row(permissions, n) /\ pc = "write_permission" => NameIsFree(permissions, n, name)
    BY <1>h DEF TablesInv, NamesOK, Row, Rows, NameIsFree
  <2>3. Row(permissions, n) => ChecksOK(g)
    BY <1>h, <1>p, <2>1, <2>2 DEF ChecksOK, Came, Assigning
  <2> QED
    BY <2>1, <2>3, CheckGoes
<1>4. CASE CheckPermissionName(r)
  <2> PICK g : g = [h EXCEPT !.pc = "write_permission"]
    OBVIOUS
  <2>1. ~IsNamed(permissions, name) => NameIsFree(permissions, n, name)
    BY DEF IsNamed, NameIsFree
  <2>2. ~IsNamed(permissions, name) => ChecksOK(g)
    BY <1>4, <1>h, <1>p, <2>1 DEF CheckPermissionName, At, ChecksOK, Came, Assigning
  <2> QED
    BY <1>4, <2>2, CheckGoes DEF CheckPermissionName
<1>5. CASE WritePermission(r)
  BY <1>5, WritePermissionOrderly
<1>6. CASE LoadUnused(r)
  <2> PICK g, ok : /\ g = [h EXCEPT !.pc = "delete_permission"]
                   /\ ok = (Row(permissions, n) /\ \A x \in grants : x[2] # n)
    OBVIOUS
  <2>1. Row(permissions, n) /\ (\A x \in grants : x[2] # n) => ChecksOK(g)
    BY <1>6, <1>h, <1>p DEF LoadUnused, At, ChecksOK, Came, Assigning
  <2>2. Check(r, ok, "delete_permission")
    BY <1>6 DEF LoadUnused
  <2> QED
    BY <2>1, <2>2, CheckGoes
<1>7. CASE DeletePermission(r)
  BY <1>7, DeletePermissionOrderly
<1> QED
  BY <1>1, <1>2, <1>3, <1>4, <1>5, <1>6, <1>7 DEF PermissionStep

(* An admin is written by a call about this admin. *)
LEMMA AdminWithin ==
  ASSUME TablesInv, NEW c, c.op \in AdminOps, c.id \in DOMAIN admins, NEW row,
         admins' = [admins EXCEPT ![c.id] = row], UNCHANGED <<roles, permissions, grants>>,
         row.role = admins[c.id].role \/ (row.role = c.role /\ c.role # 0),
         row.phone = admins[c.id].phone \/ NamesPhone(c, row.phone)
  PROVE  Within(c)
<1>1. admins \in Seq(AdminRow) /\ TablesAre(roles, permissions, admins)
  BY TableSizes DEF TablesInv
<1>2. /\ admins'[c.id] = row /\ DOMAIN admins' = DOMAIN admins /\ Len(admins') = Len(admins)
      /\ \A a \in DOMAIN admins \ {c.id} : admins'[a] = admins[a]
  BY <1>1
<1>3. TouchesAdmin(c, c.id)
  BY <1>1 DEF TouchesAdmin, AdminCalls, TablesAre
<1>4. admins[c.id].role \in DOMAIN roles /\ admins[c.id].role # 0
  BY <1>1 DEF TablesInv, Rows, TablesAre
<1>5. TouchesRole(c, row.role)
  BY <1>4 DEF TouchesRole, AdminCalls
<1> QED
  BY <1>1, <1>2, <1>3, <1>5 DEF Within, TablesAre

LEMMA InsertAdminOrderly ==
  ASSUME OrderlyInv, Inv', NEW r \in Requests, InsertAdmin(r)
  PROVE  OrderlyInv'
<1> PICK h, c, name, role, size, row :
      /\ h = reqs[r] /\ c = h.call /\ name = c.name /\ role = c.role /\ size = Len(admins)
      /\ row = Admin(name, role)
  OBVIOUS
<1>h. /\ c \in Call /\ CallOK(c) /\ TablesInv /\ TablesAre(roles, permissions, admins)
      /\ admins \in Seq(AdminRow) /\ ChecksOK(h) /\ Came(h.pc, c.op) /\ h.pc = "insert_admin"
  BY RequestFacts DEF TablesInv, InsertAdmin, At
<1>1. /\ c.op = "create_admin" /\ name # None /\ name \in Names /\ role \in Nat /\ Row(roles, role)
      /\ \A b \in DOMAIN admins : admins[b].phone # name
  BY <1>h DEF ChecksOK, CallOK, Came, Call
<1>2. row \in AdminRow /\ row.phone = name /\ row.role = role
  BY <1>1, AdminTypes
<1>3. admins' = Append(admins, row) /\ UNCHANGED <<roles, permissions, grants, failed>> /\ Finish(r)
  BY <1>1 DEF InsertAdmin, PhoneIsFree
<1>4. /\ size \in Nat /\ Len(admins') = size + 1
      /\ DOMAIN admins = 1..size /\ DOMAIN admins' = 1..(size + 1)
      /\ \A a \in DOMAIN admins : admins'[a] = admins[a]
      /\ admins'[size + 1] = row
  BY <1>h, <1>2, <1>3
<1>5. /\ \A a \in DOMAIN admins' : a \in DOMAIN admins \/ a = size + 1
      /\ size + 1 \notin DOMAIN admins /\ Len(admins) <= Len(admins')
  BY <1>4
<1>6. NamesPhone(c, name) /\ TouchesRole(c, role)
  BY <1>1, <1>h DEF NamesPhone, TouchesRole, AdminCalls, Row, TablesAre
<1>7. Within(c)
  BY <1>2, <1>3, <1>4, <1>5, <1>6, <1>h DEF Within, TablesAre
<1> QED
  BY <1>3, <1>7, EndKeeps

(* The handler has loaded the admin. *)
LEMMA LoadOrderly ==
  ASSUME OrderlyInv, Inv', NEW r \in Requests, NEW h, h = reqs[r], NEW pc,
         NEW row, row = admins[h.call.id], NEW g, g = [h EXCEPT !.pc = pc, !.row = row], ChecksOK(g),
         LoadAnyAdmin(r, pc) \/ LoadAdmin(r, pc)
  PROVE  OrderlyInv'
<1>h. h \in Request /\ TablesInv
  BY RequestFacts
<1>1. /\ UNCHANGED <<roles, permissions, grants, admins>> /\ UNCHANGED failed
      /\ \/ Finish(r)
         \/ reqs' = [reqs EXCEPT ![r] = g] /\ ChecksOK(g)
  BY DEF LoadAdmin, LoadAnyAdmin
<1>2. Within(h.call)
  BY <1>1, <1>h, NothingWritten
<1>3. CASE Finish(r)
  BY <1>1, <1>2, <1>3, EndKeeps
<1>4. CASE reqs' = [reqs EXCEPT ![r] = g] /\ ChecksOK(g)
  <2>1. GoesOn(h, g)
    BY <1>h DEF Request, GoesOn
  <2>2. ChecksOK(g)' /\ FailuresOK'
    BY <1>1, <1>2, <1>4, SameChecks, FailuresStay DEF Inv
  <2> QED
    BY <1>2, <1>4, <2>1, <2>2, StepKeeps
<1> QED
  BY <1>1, <1>3, <1>4

LEMMA WriteAdminOrderly ==
  ASSUME OrderlyInv, Inv', NEW r \in Requests, WriteAdmin(r)
  PROVE  OrderlyInv'
<1> PICK h, c, a, old, phone, role, row :
      /\ h = reqs[r] /\ c = h.call /\ a = c.id /\ old = admins[a]
      /\ phone = (IF GivesPhone(r, h.row) THEN c.name ELSE old.phone)
      /\ role = (IF GivesRole(r, h.row) THEN c.role ELSE old.role)
      /\ row = [old EXCEPT !.phone = phone, !.role = role]
  OBVIOUS
<1>h. /\ h \in Request /\ c \in Call /\ CallOK(c) /\ TablesInv /\ TablesAre(roles, permissions, admins)
      /\ admins \in Seq(AdminRow) /\ ChecksOK(h) /\ Came(h.pc, c.op) /\ h.pc = "write_admin"
      /\ c.op \in AdminOps => a \in DOMAIN admins
  BY RequestFacts DEF TablesInv, WriteAdmin, At
<1>1. c.op = "update_admin" /\ a \in DOMAIN admins /\ old \in AdminRow
  BY <1>h DEF Came, AdminOps
<1>2. PhoneIsFree(a, phone) /\ (phone = old.phone \/ NamesPhone(c, phone))
  <2>1. CASE GivesPhone(r, h.row)
    <3>1. phone = c.name /\ c.name \notin {None, h.row.phone}
      BY <2>1 DEF GivesPhone
    <3> QED
      BY <1>1, <1>h, <3>1 DEF ChecksOK, NamesPhone, AdminCalls, AdminOps
  <2>2. CASE ~GivesPhone(r, h.row)
    BY <1>1, <1>h, <2>2 DEF TablesInv, PhoneIsFree
  <2> QED
    BY <2>1, <2>2
<1>3. role = old.role \/ (role = c.role /\ c.role # 0)
  BY DEF GivesRole
<1>4. CASE ~Row(roles, role)
  <2>1. role = c.role /\ c.role # 0
    BY <1>1, <1>3, <1>4, <1>h DEF TablesInv, Row, Rows
  <2>2. c.role \in (1..Len(roles)) \ Rows(roles)
    BY <1>4, <1>h, <2>1 DEF CallOK, TablesAre, Row, Rows
  <2>3. Fail(r)
    BY <1>4 DEF WriteAdmin
  <2>4. /\ UNCHANGED <<roles, permissions, grants, admins>>
        /\ failed' = failed \union {c} /\ Finish(r)
    BY <2>3 DEF Fail
  <2>5. Within(c)
    BY <1>h, <2>4, NothingWritten
  <2>6. FailuresOK'
    BY <1>1, <2>2, <2>4 DEF OrderlyInv, FailuresOK
  <2> PICK g : g = Idle
    OBVIOUS
  <2>7. ChecksOK(g)' /\ reqs' = [reqs EXCEPT ![r] = g] /\ GoesOn(h, g)
    BY <2>4, IdleChecksNext DEF Inv, Finish, GoesOn
  <2> QED
    BY <2>5, <2>6, <2>7, StepKeeps
<1>5. CASE Row(roles, role)
  <2>1. admins' = [admins EXCEPT ![a] = row] /\ UNCHANGED <<roles, permissions, grants, failed>> /\ Finish(r)
    BY <1>2, <1>5 DEF WriteAdmin
  <2>2. row.phone = phone /\ row.role = role
    BY <1>1 DEF AdminRow
  <2>3. Within(c)
    <3>1. c.op \in AdminOps /\ UNCHANGED <<roles, permissions, grants>> /\ admins' = [admins EXCEPT ![c.id] = row]
      BY <1>1, <2>1 DEF AdminOps
    <3>2. row.role = admins[c.id].role \/ (row.role = c.role /\ c.role # 0)
      BY <1>3, <2>2
    <3>3. row.phone = admins[c.id].phone \/ NamesPhone(c, row.phone)
      BY <1>2, <2>2
    <3> QED
      BY <1>1, <1>h, <3>1, <3>2, <3>3, AdminWithin
  <2> QED
    BY <2>1, <2>3, EndKeeps
<1> QED
  BY <1>4, <1>5

LEMMA NextPlace ==
  ASSUME NEW r, NEW h, h = reqs[r], NEW row
  PROVE  \A pc : /\ pc = AfterPhone(r, row) =>
                      /\ pc \in {"check_new_role", "write_admin", "idle"}
                      /\ pc = "write_admin" /\ h.as = SuperAdmin => h.call.role \in {0, row.role}
                 /\ pc = (IF GivesPhone(r, row) THEN "check_phone" ELSE AfterPhone(r, row)) =>
                      /\ pc \in {"check_phone", "check_new_role", "write_admin", "idle"}
                      /\ pc \in {"check_new_role", "write_admin"} => h.call.name \in {None, row.phone}
                      /\ pc = "write_admin" /\ h.as = SuperAdmin => h.call.role \in {0, row.role}
<1>1. GivesRole(r, row) \/ h.call.role \in {0, row.role}
  BY DEF GivesRole
<1>2. GivesPhone(r, row) \/ h.call.name \in {None, row.phone}
  BY DEF GivesPhone
<1>3. /\ AfterPhone(r, row) \in {"check_new_role", "write_admin", "idle"}
      /\ AfterPhone(r, row) = "write_admin" /\ h.as = SuperAdmin => ~GivesRole(r, row)
  <2>1. GivesRole(r, row) /\ reqs[r].as = SuperAdmin => AfterPhone(r, row) = "check_new_role"
    BY DEF AfterPhone
  <2> QED
    BY <2>1, AfterPhonePlaces
<1> QED
  BY <1>1, <1>2, <1>3

LEMMA AdminStepOrderly ==
  ASSUME OrderlyInv, Inv', NEW r \in Requests, AdminStep(r)
  PROVE  OrderlyInv'
<1> PICK h, c, a, name : h = reqs[r] /\ c = h.call /\ a = c.id /\ name = c.name
  OBVIOUS
<1>h. /\ h \in Request /\ CallOK(c) /\ TablesInv /\ TablesAre(roles, permissions, admins)
      /\ admins \in Seq(AdminRow) /\ ChecksOK(h) /\ Came(h.pc, c.op)
      /\ c.op \in AdminOps => a \in DOMAIN admins
  BY RequestFacts DEF TablesInv
<1>p. \A pc, g : g = [h EXCEPT !.pc = pc] => g.pc = pc /\ g.call = c /\ g.as = h.as /\ g.row = h.row
  BY <1>h, Placed
<1>1. CASE CreateAdmin(r)
  <2> PICK g : g = [h EXCEPT !.pc = "load_role"]
    OBVIOUS
  <2>1. PhoneIsFree(0, name) => \A b \in DOMAIN admins : admins[b].phone # name
    BY <1>h DEF PhoneIsFree, TablesAre
  <2>2. PhoneIsFree(0, name) => ChecksOK(g)
    BY <1>1, <1>h, <1>p, <2>1 DEF CreateAdmin, At, ChecksOK, Came, Assigning
  <2> QED
    BY <1>1, <2>2, CheckGoes DEF CreateAdmin
<1>2. CASE LoadRole(r)
  <2> PICK g : g = [h EXCEPT !.pc = "insert_admin"]
    OBVIOUS
  <2>1. Row(roles, c.role) => ChecksOK(g)
    BY <1>2, <1>h, <1>p DEF LoadRole, At, ChecksOK, Came, Assigning
  <2> QED
    BY <1>2, <2>1, CheckGoes DEF LoadRole
<1>3. CASE InsertAdmin(r)
  BY <1>3, InsertAdminOrderly
<1>4. CASE UpdateAdmin(r)
  <2> PICK row, pc, g : /\ row = admins[a]
                        /\ pc = IF GivesPhone(r, row) THEN "check_phone" ELSE AfterPhone(r, row)
                        /\ g = [h EXCEPT !.pc = pc, !.row = row]
    OBVIOUS
  <2>1. h.pc = "update_admin" /\ (Check(r, FALSE, "idle") \/ LoadAdmin(r, pc))
    BY <1>4 DEF UpdateAdmin, At
  <2>2. CASE Check(r, FALSE, "idle")
    BY <2>2, CheckGoes
  <2>3. CASE LoadAdmin(r, pc)
    <3>1. /\ pc \in {"check_phone", "check_new_role", "write_admin", "idle"}
          /\ pc \in {"check_new_role", "write_admin"} => name \in {None, row.phone}
          /\ pc = "write_admin" /\ h.as = SuperAdmin => c.role \in {0, row.role}
      BY NextPlace
    <3>2. g.pc = pc /\ g.call = c /\ g.as = h.as /\ g.row = row
      BY <1>h DEF Request
    <3>3. ChecksOK(g)
      BY <1>h, <2>1, <3>1, <3>2 DEF ChecksOK, Came, Assigning
    <3> QED
      BY <2>3, <3>3, LoadOrderly
  <2> QED
    BY <2>1, <2>2, <2>3
<1>5. CASE CheckPhone(r)
  <2> PICK pc, g : pc = AfterPhone(r, h.row) /\ g = [h EXCEPT !.pc = pc]
    OBVIOUS
  <2>1. h.pc = "check_phone" /\ Check(r, PhoneIsFree(a, name), pc)
    BY <1>5 DEF CheckPhone, At
  <2>2. /\ pc \in {"check_new_role", "write_admin", "idle"}
        /\ pc = "write_admin" /\ h.as = SuperAdmin => c.role \in {0, h.row.role}
    BY NextPlace
  <2>3. PhoneIsFree(a, name) => ChecksOK(g)
    BY <1>h, <1>p, <2>1, <2>2 DEF ChecksOK, Came, Assigning
  <2> QED
    BY <2>1, <2>3, CheckGoes
<1>6. CASE CheckNewRole(r)
  <2> PICK g : g = [h EXCEPT !.pc = "write_admin"]
    OBVIOUS
  <2>1. ChecksOK(g)
    BY <1>6, <1>h, <1>p DEF CheckNewRole, At, ChecksOK, Came, Assigning
  <2> QED
    BY <1>6, <2>1, CheckGoes DEF CheckNewRole
<1>7. CASE WriteAdmin(r)
  BY <1>7, WriteAdminOrderly
<1>8. CASE ToggleActive(r)
  <2> PICK row, g : row = admins[a] /\ g = [h EXCEPT !.pc = "write_active", !.row = row]
    OBVIOUS
  <2>1. h.pc = "toggle_admin" /\ g.pc = "write_active" /\ g.call = c /\ g.as = h.as
    BY <1>8, <1>h DEF ToggleActive, At, Request
  <2>2. ChecksOK(g)
    BY <1>h, <2>1 DEF ChecksOK, Came, Assigning
  <2> QED
    BY <1>8, <2>2, LoadOrderly DEF ToggleActive
<1>9. CASE WriteActive(r)
  <2> PICK old, active, row : old = admins[a] /\ active = ~h.row.active /\ row = [old EXCEPT !.active = active]
    OBVIOUS
  <2>1. /\ h.pc = "write_active" /\ admins' = [admins EXCEPT ![a] = row] /\ Finish(r)
        /\ UNCHANGED <<roles, permissions, grants, failed>>
    BY <1>9 DEF WriteActive, At
  <2>2. c.op \in AdminOps /\ a \in DOMAIN admins
    BY <1>h, <2>1 DEF Came, AdminOps
  <2>3. row.role = old.role /\ row.phone = old.phone
    BY <1>h, <2>2 DEF AdminRow
  <2> QED
    BY <1>h, <2>1, <2>2, <2>3, AdminWithin, EndKeeps
<1>10. CASE RemoveAdmin(r)
  <2> PICK row, g : row = admins[a] /\ g = [h EXCEPT !.pc = "write_deleted", !.row = row]
    OBVIOUS
  <2>1. h.pc = "remove_admin" /\ g.pc = "write_deleted" /\ g.call = c
    BY <1>10, <1>h DEF RemoveAdmin, At, Request
  <2>2. ChecksOK(g)
    BY <1>h, <2>1 DEF ChecksOK, Came, Assigning
  <2> QED
    BY <1>10, <2>2, LoadOrderly DEF RemoveAdmin
<1>11. CASE WriteDeleted(r)
  <2> PICK old, row : old = admins[a] /\ row = [old EXCEPT !.deleted = TRUE]
    OBVIOUS
  <2>1. /\ h.pc = "write_deleted" /\ admins' = [admins EXCEPT ![a] = row] /\ Finish(r)
        /\ UNCHANGED <<roles, permissions, grants, failed>>
    BY <1>11 DEF WriteDeleted, At
  <2>2. c.op \in AdminOps /\ a \in DOMAIN admins
    BY <1>h, <2>1 DEF Came, AdminOps
  <2>3. row.role = old.role /\ row.phone = old.phone
    BY <1>h, <2>2 DEF AdminRow
  <2> QED
    BY <1>h, <2>1, <2>2, <2>3, AdminWithin, EndKeeps
<1> QED
  BY <1>1, <1>2, <1>3, <1>4, <1>5, <1>6, <1>7, <1>8, <1>9, <1>10, <1>11 DEF AdminStep

LEMMA InitOrderly == Init => OrderlyInv
<1> SUFFICES ASSUME Init PROVE OrderlyInv
  OBVIOUS
<1>1. Inv /\ TablesInv /\ \A r \in Requests : reqs[r] = Idle
  BY InitInv DEF Init, Inv
<1>2. ChecksInv
  BY <1>1, IdleChecks DEF ChecksInv
<1>3. AreApart(NoCall, NoCall)
  BY DEF AreApart, TouchesRole, TouchesPermission, TouchesAdmin, NamesRole, NamesPermission, NamesPhone,
         NoCall, None, RoleOps, PermissionOps, AdminCalls, AdminOps
<1>4. ApartInv
  BY <1>1, <1>3 DEF ApartInv, Idle
<1> QED
  BY <1>1, <1>2, <1>4 DEF OrderlyInv, FailuresOK, Init

LEMMA NextOrderly ==
  ASSUME Overlap = FALSE, OrderlyInv, [Next]_vars
  PROVE  OrderlyInv'
<1>1. Inv'
  BY NextInv DEF OrderlyInv
<1>2. CASE UNCHANGED vars
  <2>1. UNCHANGED <<roles, permissions, grants, admins>> /\ UNCHANGED reqs /\ UNCHANGED failed
    BY <1>2 DEF vars
  <2>2. ASSUME NEW q \in Requests, NEW g, g = reqs'[q] PROVE ChecksOK(g)'
    BY <2>1, <2>2, SameChecks DEF OrderlyInv, ChecksInv
  <2>3. ASSUME NEW p \in Requests, NEW q \in Requests, NEW x, NEW y, p # q,
               x = reqs'[p].call, y = reqs'[q].call
        PROVE  AreApart(x, y)'
    <3>1. AreApart(x, y)
      BY <2>1, <2>3 DEF OrderlyInv, ApartInv
    <3>2. \A d, n : TouchesRole(d, n)' <=> TouchesRole(d, n)
      BY <2>1 DEF TouchesRole
    <3> QED
      BY <3>1, <3>2 DEF AreApart
  <2>4. FailuresOK'
    BY <2>1 DEF OrderlyInv, FailuresOK
  <2> QED
    BY <1>1, <2>2, <2>3, <2>4, ChecksFrom, ApartFrom DEF OrderlyInv
<1>3. ASSUME NEW r \in Requests, Abort(r) PROVE OrderlyInv'
  <2> PICK h : h = reqs[r]
    OBVIOUS
  <2>1. UNCHANGED <<roles, permissions, grants, admins>> /\ UNCHANGED failed /\ Finish(r)
    BY <1>3 DEF Abort
  <2>2. Within(h.call)
    BY <2>1, RequestFacts, NothingWritten
  <2> QED
    BY <1>1, <2>1, <2>2, EndKeeps
<1> QED
  BY <1>1, <1>2, <1>3, AuthenticateOrderly, GuardOrderly, RoleStepOrderly, PermissionStepOrderly,
     AdminStepOrderly DEF Next, AtRest

LEMMA OrderlyAlways == ASSUME Overlap = FALSE PROVE Spec => []OrderlyInv
<1>1. OrderlyInv /\ [Next]_vars => OrderlyInv'
  BY NextOrderly
<1> QED
  BY <1>1, InitOrderly, PTL DEF Spec

(* Where requests that touch the same thing wait for each other, the       *)
(* handlers check all that the database would refuse, but for the role     *)
(* that an admin is given.                                                 *)
THEOREM OnlyMissingRolesFailAlways ==
  ASSUME Overlap = FALSE
  PROVE  Spec => []OnlyMissingRolesFail
<1>1. OrderlyInv => OnlyMissingRolesFail
  BY DEF OrderlyInv, FailuresOK, OnlyMissingRolesFail
<1> QED
  BY <1>1, OrderlyAlways, PTL

(* A step is one slot's. *)
Elsewhere(r) == \A q \in Requests \ {r} : reqs'[q] = reqs[q]

LEMMA OneMoves ==
  ASSUME Inv, NEW r \in Requests,
         \/ \E caller \in DOMAIN admins, c \in Calls : Authenticate(r, caller, c)
         \/ PermissionsGuard(r) \/ RoleStep(r) \/ PermissionStep(r) \/ AdminStep(r) \/ Abort(r)
  PROVE  Elsewhere(r)
<1> USE DEF Goto, Finish, Fail, Check, LoadAdmin, LoadAnyAdmin, Elsewhere
<1>t. reqs \in [Requests -> Request]
  BY DEF Inv, RequestsInv
<1>1. (\E caller \in DOMAIN admins, c \in Calls : Authenticate(r, caller, c)) => Elsewhere(r)
  BY <1>t DEF Authenticate
<1>2. PermissionsGuard(r) \/ Abort(r) => Elsewhere(r)
  BY <1>t DEF PermissionsGuard, Abort
<1>3. RoleStep(r) => Elsewhere(r)
  BY <1>t DEF RoleStep, CreateRole, InsertRole, UpdateRole, CheckRoleName, WriteRole, AssignPermissions,
              FindPermissions, DropGrants, InsertGrants, RemoveRole, DropRoleGrants, DeleteRole,
              RemovePermission, DropGrant
<1>4. PermissionStep(r) => Elsewhere(r)
  BY <1>t DEF PermissionStep, CreatePermission, InsertPermission, UpdatePermission, CheckPermissionName,
              WritePermission, LoadUnused, DeletePermission
<1>5. AdminStep(r) => Elsewhere(r)
  BY <1>t DEF AdminStep, CreateAdmin, LoadRole, InsertAdmin, UpdateAdmin, CheckPhone, CheckNewRole,
              WriteAdmin, ToggleActive, WriteActive, RemoveAdmin, WriteDeleted
<1> QED
  BY <1>1, <1>2, <1>3, <1>4, <1>5

-------------------------------------------------------------------------------
(* Super_admins and managers, however requests overlap                     *)

Naming == {"create_role", "insert_role", "update_role", "check_role_name", "write_role"}
Editing == {"check_phone", "check_new_role", "write_admin", "write_active"}
NamesRoles(c) == c.op \in {"create_role", "update_role"}

(* What a super_admin has loaded was no manager, and what it gives is not  *)
(* the role of managers; both stays so, for nothing is named manager.      *)
SparingOK(h) ==
  /\ h.pc \in Naming => NamesRoles(h.call)
  /\ NamesRoles(h.call) => h.call.name # Manager
  /\ h.pc \in Editing /\ h.as = SuperAdmin => RoleName(h.row.role) # Manager
  /\ h.pc = "write_admin" /\ h.as = SuperAdmin /\ h.call.role \notin {0, h.row.role} =>
       RoleName(h.call.role) # Manager

SparingInv == Inv /\ \A r \in Requests : SparingOK(reqs[r])

(* The steps of one slot. *)
SlotStep(r) ==
  \/ \E caller \in DOMAIN admins, c \in Calls : Authenticate(r, caller, c)
  \/ PermissionsGuard(r) \/ RoleStep(r) \/ PermissionStep(r) \/ AdminStep(r) \/ Abort(r)

LEMMA RolesWritten ==
  ASSUME NEW r \in Requests, SlotStep(r)
  PROVE  UNCHANGED roles \/ InsertRole(r) \/ WriteRole(r) \/ DeleteRole(r)
<1> USE DEF Fail, Check, LoadAdmin, LoadAnyAdmin
<1>1. (\E caller \in DOMAIN admins, c \in Calls : Authenticate(r, caller, c)) => UNCHANGED roles
  BY DEF Authenticate
<1>2. PermissionsGuard(r) \/ Abort(r) => UNCHANGED roles
  BY DEF PermissionsGuard, Abort
<1>3. RoleStep(r) => UNCHANGED roles \/ InsertRole(r) \/ WriteRole(r) \/ DeleteRole(r)
  BY DEF RoleStep, CreateRole, UpdateRole, CheckRoleName, AssignPermissions, FindPermissions, DropGrants,
         InsertGrants, RemoveRole, DropRoleGrants, RemovePermission, DropGrant
<1>4. PermissionStep(r) => UNCHANGED roles
  BY DEF PermissionStep, CreatePermission, InsertPermission, UpdatePermission, CheckPermissionName,
         WritePermission, LoadUnused, DeletePermission
<1>5. AdminStep(r) => UNCHANGED roles
  BY DEF AdminStep, CreateAdmin, LoadRole, InsertAdmin, UpdateAdmin, CheckPhone, CheckNewRole, WriteAdmin,
         ToggleActive, WriteActive, RemoveAdmin, WriteDeleted
<1> QED
  BY <1>1, <1>2, <1>3, <1>4, <1>5 DEF SlotStep

(* No role becomes the role of managers. *)
LEMMA NoNewManagerRole ==
  ASSUME SparingInv, NEW r \in Requests, SlotStep(r)
  PROVE  \A n : RoleName(n) # Manager => RoleName(n)' # Manager
<1> PICK c : c = reqs[r].call
  OBVIOUS
<1>t. roles \in Seq(Names) /\ DOMAIN roles = 1..Len(roles) /\ Len(roles) \in Nat /\ None # Manager
  BY DEF SparingInv, Inv, TablesInv, NamesOK, None, Manager
<1>1. CASE UNCHANGED roles
  BY <1>1 DEF RoleName, Row
<1>2. CASE InsertRole(r) /\ ~UNCHANGED roles
  <2>1. roles' = Append(roles, c.name) /\ c.name \in Names /\ c.name # Manager
    BY <1>2, CallOf DEF InsertRole, Fail, At, SparingInv, SparingOK, Naming
  <2>2. /\ DOMAIN roles' = DOMAIN roles \union {Len(roles) + 1}
        /\ \A n \in DOMAIN roles : roles'[n] = roles[n]
        /\ roles'[Len(roles) + 1] = c.name
    BY <1>t, <2>1
  <2> QED
    BY <1>t, <2>1, <2>2 DEF RoleName, Row
<1>3. CASE WriteRole(r) /\ ~UNCHANGED roles
  <2>1. roles' = [roles EXCEPT ![c.id] = c.name] /\ c.name # Manager
    BY <1>3 DEF WriteRole, Rename, Fail, At, SparingInv, SparingOK, Naming
  <2> QED
    BY <1>t, <2>1 DEF RoleName, Row
<1>4. CASE DeleteRole(r) /\ ~UNCHANGED roles
  <2>1. roles' = [roles EXCEPT ![c.id] = None]
    BY <1>4 DEF DeleteRole, Fail
  <2> QED
    BY <1>t, <2>1 DEF RoleName, Row
<1> QED
  BY <1>1, <1>2, <1>3, <1>4, RolesWritten

(* A request goes on outside the edits of admins, or to its end. *)
LEMMA GoesSpared ==
  ASSUME NEW h, SparingOK(h), NEW g,
         g.call.op = h.call.op, g.call.name = h.call.name, g.pc \notin Editing,
         g.pc \in Naming => NamesRoles(h.call)
  PROVE  SparingOK(g)
BY DEF SparingOK, NamesRoles, Editing

LEMMA IdleSpared == SparingOK(Idle)
BY DEF SparingOK, NamesRoles, Naming, Editing, Idle, NoCall, None

LEMMA CallSpared ==
  ASSUME Manager \notin RoleNames, NEW r \in Requests, NEW caller \in DOMAIN admins, NEW c \in Calls,
         Authenticate(r, caller, c), Inv
  PROVE  SparingOK(reqs'[r])
<1> PICK g : g = [Idle EXCEPT !.pc = IF RoleOf(caller) = Manager THEN c.op ELSE "guard", !.call = c,
                              !.as = RoleOf(caller), !.asRole = admins[caller].role]
  OBVIOUS
<1>1. reqs'[r] = g /\ g.call = c /\ g.pc \in {c.op, "guard"}
  BY DEF Inv, RequestsInv, Authenticate, Idle
<1>2. c.op \in Ops /\ (NamesRoles(c) => c.name \in RoleNames \union {None})
  BY CallFields DEF NamesRoles
<1>3. g.pc \notin Editing /\ (g.pc \in Naming => NamesRoles(c))
  BY <1>1, <1>2 DEF Editing, Naming, Ops, NamesRoles
<1> QED
  BY <1>1, <1>2, <1>3 DEF SparingOK, Editing, None, Manager

LEMMA StepSpared ==
  ASSUME SparingInv, NEW r \in Requests,
         PermissionsGuard(r) \/ RoleStep(r) \/ PermissionStep(r) \/ AdminStep(r) \/ Abort(r)
  PROVE  SparingOK(reqs'[r])
<1> PICK h, g : h = reqs[r] /\ g = reqs'[r]
  OBVIOUS
<1>t. reqs \in [Requests -> Request] /\ h \in Request /\ SparingOK(h)
  BY DEF SparingInv, Inv, RequestsInv
<1> DEFINE Plain == \/ g = Idle
                    \/ /\ g.call.op = h.call.op /\ g.call.name = h.call.name /\ g.pc \notin Editing
                       /\ g.pc \in Naming => h.pc \in Naming
<1>p. Plain => SparingOK(g)
  BY <1>t, GoesSpared, IdleSpared DEF SparingOK
<1>1. CASE PermissionsGuard(r)
  <2>1. h.call.op \in Ops
    BY <1>1 DEF SparingInv, Inv, RequestsInv, RequestOK, PermissionsGuard, At
  <2>2. g = Idle \/ g = [h EXCEPT !.pc = h.call.op]
    BY <1>1, <1>t DEF PermissionsGuard, Check, Goto, Finish
  <2>3. CASE g = [h EXCEPT !.pc = h.call.op]
    <3>1. g.call = h.call /\ g.pc = h.call.op
      BY <1>t, <2>3 DEF Request
    <3> QED
      BY <1>t, <2>1, <3>1, GoesSpared DEF Ops, Editing, Naming, NamesRoles
  <2> QED
    BY <1>p, <2>2, <2>3
<1>2. CASE RoleStep(r)
  <2>1. Plain
    BY <1>2, <1>t
    DEF RoleStep, CreateRole, InsertRole, UpdateRole, CheckRoleName, WriteRole, AssignPermissions,
        FindPermissions, DropGrants, InsertGrants, RemoveRole, DropRoleGrants, DeleteRole, RemovePermission,
        DropGrant, Goto, Finish, Fail, Check, At, Request, Call, Naming, Editing
  <2> QED
    BY <1>p, <2>1
<1>3. CASE PermissionStep(r)
  <2>1. Plain
    BY <1>3, <1>t
    DEF PermissionStep, CreatePermission, InsertPermission, UpdatePermission, CheckPermissionName,
        WritePermission, LoadUnused, DeletePermission, Goto, Finish, Fail, Check, At, Request, Naming, Editing
  <2> QED
    BY <1>p, <2>1
<1>4. CASE Abort(r)
  BY <1>4, <1>t, <1>p DEF Abort, Finish
<1>5. CASE AdminStep(r)
  <2>1. CASE \/ CreateAdmin(r) \/ LoadRole(r) \/ InsertAdmin(r) \/ WriteAdmin(r) \/ WriteActive(r)
             \/ RemoveAdmin(r) \/ WriteDeleted(r)
    <3>1. Plain
      BY <2>1, <1>t
      DEF CreateAdmin, LoadRole, InsertAdmin, WriteAdmin, WriteActive, RemoveAdmin, WriteDeleted,
          LoadAnyAdmin, Goto, Finish, Fail, Check, At, Request, Naming, Editing
    <3> QED
      BY <1>p, <3>1
  (* The row is loaded, and is no manager's if a super_admin goes on. *)
  <2>2. ASSUME NEW pc, LoadAdmin(r, pc),
               pc \in Editing \union {"idle"},
               pc = "write_admin" /\ h.as = SuperAdmin => h.call.role \in {0, admins[h.call.id].role}
        PROVE  SparingOK(g)
    <3> PICK row, q : row = admins[h.call.id] /\ q = [h EXCEPT !.pc = pc, !.row = row]
      OBVIOUS
    <3>1. q.pc = pc /\ q.row = row /\ q.call = h.call /\ q.as = h.as
      BY <1>t DEF Request
    <3>2. g = Idle \/ (g = q /\ ~(h.as = SuperAdmin /\ RoleName(row.role) = Manager))
      BY <2>2, <1>t DEF LoadAdmin, Finish, RoleOf
    <3>3. pc \notin Naming
      BY <2>2 DEF Editing, Naming
    <3>4. CASE g = q /\ ~(h.as = SuperAdmin /\ RoleName(row.role) = Manager)
      BY <1>t, <2>2, <3>1, <3>3, <3>4 DEF SparingOK
    <3> QED
      BY <1>p, <3>2, <3>4
  <2>3. CASE ToggleActive(r)
    BY <2>2, <2>3 DEF ToggleActive, Editing
  <2>4. CASE UpdateAdmin(r)
    <3> PICK row, pc : /\ row = admins[h.call.id]
                       /\ pc = IF GivesPhone(r, row) THEN "check_phone" ELSE AfterPhone(r, row)
      OBVIOUS
    <3>1. /\ pc \in {"check_phone", "check_new_role", "write_admin", "idle"}
          /\ pc = "write_admin" /\ h.as = SuperAdmin => h.call.role \in {0, row.role}
      BY NextPlace
    <3>2. CASE Check(r, FALSE, "idle")
      BY <1>p, <1>t, <3>2 DEF Check, Finish
    <3>3. CASE LoadAdmin(r, pc)
      BY <2>2, <3>1, <3>3 DEF Editing
    <3> QED
      BY <2>4, <3>2, <3>3 DEF UpdateAdmin
  <2>5. CASE CheckPhone(r)
    <3> PICK pc, q : pc = AfterPhone(r, h.row) /\ q = [h EXCEPT !.pc = pc]
      OBVIOUS
    <3>1. /\ pc \in {"check_new_role", "write_admin", "idle"}
          /\ pc = "write_admin" /\ h.as = SuperAdmin => h.call.role \in {0, h.row.role}
      BY NextPlace
    <3>2. q.pc = pc /\ q.row = h.row /\ q.call = h.call /\ q.as = h.as
      BY <1>t DEF Request
    <3>3. (g = Idle \/ g = q) /\ h.pc = "check_phone"
      BY <2>5, <1>t DEF CheckPhone, Check, Goto, Finish, At
    <3>4. CASE g = q
      BY <1>t, <3>1, <3>2, <3>3, <3>4 DEF SparingOK, Editing, Naming
    <3> QED
      BY <1>p, <3>3, <3>4
  <2>6. CASE CheckNewRole(r)
    <3> PICK q : q = [h EXCEPT !.pc = "write_admin"]
      OBVIOUS
    <3>1. q.pc = "write_admin" /\ q.row = h.row /\ q.call = h.call /\ q.as = h.as
      BY <1>t DEF Request
    <3>2. (g = Idle \/ (g = q /\ RoleName(h.call.role) # Manager)) /\ h.pc = "check_new_role"
      BY <2>6, <1>t DEF CheckNewRole, Check, Goto, Finish, At
    <3>3. CASE g = q /\ RoleName(h.call.role) # Manager
      BY <1>t, <3>1, <3>2, <3>3 DEF SparingOK, Editing, Naming
    <3> QED
      BY <1>p, <3>2, <3>3
  <2> QED
    BY <1>5, <2>1, <2>3, <2>4, <2>5, <2>6 DEF AdminStep
<1> QED
  BY <1>1, <1>2, <1>3, <1>4, <1>5

LEMMA SparingAlways == ASSUME Manager \notin RoleNames PROVE Spec => []SparingInv
<1>1. Init => SparingInv
  BY InitInv, IdleSpared DEF Init, SparingInv
<1>2. SparingInv /\ [Next]_vars => SparingInv'
  <2> SUFFICES ASSUME SparingInv, [Next]_vars PROVE SparingInv'
    OBVIOUS
  <2>1. Inv'
    BY NextInv DEF SparingInv
  <2>2. ASSUME NEW r \in Requests, SlotStep(r)
        PROVE  SparingInv'
    <3>1. \A n : RoleName(n) # Manager => RoleName(n)' # Manager
      BY <2>2, NoNewManagerRole
    <3>2. ASSUME NEW h, SparingOK(h)
          PROVE  SparingOK(h)'
      BY <3>1, <3>2 DEF SparingOK
    <3>3. SparingOK(reqs'[r])
      BY <2>2, CallSpared, StepSpared DEF SlotStep, SparingInv
    <3>4. \A q \in Requests : SparingOK(reqs'[q])
      BY <2>2, <3>3, OneMoves DEF SlotStep, SparingInv, Elsewhere
    <3>5. \A q \in Requests : SparingOK(reqs[q])'
      <4> TAKE q \in Requests
      <4> PICK h : h = reqs'[q]
        OBVIOUS
      <4>1. SparingOK(h)'
        BY <3>2, <3>4
      <4> QED
        BY <4>1 DEF SparingOK
    <3> QED
      BY <2>1, <3>5 DEF SparingInv
  <2>3. CASE UNCHANGED vars
    <3>1. \A q \in Requests : SparingOK(reqs[q])'
      BY <2>3 DEF vars, SparingInv, SparingOK, RoleName, Row
    <3> QED
      BY <2>1, <3>1 DEF SparingInv
  <2> QED
    BY <2>2, <2>3 DEF Next, SlotStep, AtRest
<1> QED
  BY <1>1, <1>2, PTL DEF Spec

(* Who writes an admin as a super_admin. *)
LEMMA AdminWritersAre ==
  ASSUME Inv, Next, NEW r \in Requests, reqs[r].pc \in {"write_admin", "write_active"},
         reqs[r] # reqs'[r], admins' # admins
  PROVE  WriteAdmin(r) \/ WriteActive(r)
<1>1. PICK q \in Requests :
        \/ \E caller \in DOMAIN admins, c \in Calls : Authenticate(q, caller, c)
        \/ PermissionsGuard(q) \/ RoleStep(q) \/ PermissionStep(q) \/ AdminStep(q) \/ Abort(q)
  BY DEF Next, AtRest, vars
<1>2. q = r
  BY <1>1, OneMoves DEF Elsewhere
<1>3. ~(\E caller \in DOMAIN admins, c \in Calls : Authenticate(r, caller, c)) /\ ~Abort(r)
  BY DEF Authenticate, Abort
<1>4. ~PermissionsGuard(r)
  BY DEF PermissionsGuard, At
<1>5. ~RoleStep(r)
  BY DEF At, RoleStep, CreateRole, InsertRole, UpdateRole, CheckRoleName, WriteRole, AssignPermissions,
         FindPermissions, DropGrants, InsertGrants, RemoveRole, DropRoleGrants, DeleteRole,
         RemovePermission, DropGrant
<1>6. ~PermissionStep(r)
  BY DEF At, PermissionStep, CreatePermission, InsertPermission, UpdatePermission, CheckPermissionName,
         WritePermission, LoadUnused, DeletePermission
<1>7. AdminStep(r)
  BY <1>1, <1>2, <1>3, <1>4, <1>5, <1>6
<1> QED
  BY <1>7 DEF At, AdminStep, CreateAdmin, LoadRole, InsertAdmin, UpdateAdmin, CheckPhone, CheckNewRole,
              ToggleActive, RemoveAdmin, WriteDeleted

LEMMA ManagersAreSpared ==
  ASSUME SparingInv, Next, NEW r \in Requests, NEW a \in DOMAIN admins, a = reqs[r].call.id,
         reqs[r].as = SuperAdmin, reqs[r].pc \in {"write_admin", "write_active"},
         reqs[r] # reqs'[r], admins' # admins
  PROVE  /\ RoleOf(a) = Manager => admins[a].role # reqs[r].row.role
         /\ RoleOf(a)' = Manager => RoleOf(a) = Manager
<1> PICK h, c, old : h = reqs[r] /\ c = h.call /\ old = admins[a]
  OBVIOUS
<1>h. SparingOK(h) /\ admins \in Seq(AdminRow) /\ a = c.id /\ old \in AdminRow
  BY DEF SparingInv, Inv, TablesInv
<1>1. RoleOf(a) = Manager => old.role # h.row.role
  BY <1>h DEF SparingOK, Editing, RoleOf
<1>2. CASE WriteActive(r)
  <2> PICK active, row : active = ~h.row.active /\ row = [old EXCEPT !.active = active]
    OBVIOUS
  <2>1. admins' = [admins EXCEPT ![a] = row] /\ roles' = roles
    BY <1>2, <1>h DEF WriteActive
  <2>2. admins'[a].role = admins[a].role
    BY <1>h, <2>1 DEF AdminRow
  <2> QED
    BY <1>1, <2>1, <2>2 DEF RoleOf, RoleName
<1>3. CASE WriteAdmin(r)
  <2> PICK phone, role, row :
        /\ phone = (IF GivesPhone(r, h.row) THEN c.name ELSE old.phone)
        /\ role = (IF GivesRole(r, h.row) THEN c.role ELSE old.role)
        /\ row = [old EXCEPT !.phone = phone, !.role = role]
    OBVIOUS
  <2>1. ~Fail(r)
    BY DEF Fail
  <2>2. admins' = [admins EXCEPT ![a] = row] /\ roles' = roles /\ h.pc = "write_admin"
    BY <1>3, <1>h, <2>1 DEF WriteAdmin, At
  <2>3. admins'[a].role = role
    BY <1>h, <2>2 DEF AdminRow
  <2>4. RoleName(role) = Manager => role = old.role
    BY <1>h, <2>2 DEF SparingOK, GivesRole
  <2> QED
    BY <1>1, <2>2, <2>3, <2>4 DEF RoleOf, RoleName
<1> QED
  BY <1>2, <1>3, AdminWritersAre DEF SparingInv

(* Where no request names a role manager, what a super_admin does by       *)
(* update or toggle-active touches a manager only where another request    *)
(* has made it one since it was loaded, and makes none, however requests   *)
(* overlap and wherever they are cut short.                                *)
THEOREM SuperAdminSparesManagersAlways ==
  ASSUME Manager \notin RoleNames
  PROVE  Spec => SuperAdminSparesManagers
<1>1. SparingInv /\ [Next]_vars =>
        [\A r \in Requests, a \in DOMAIN admins :
           a = reqs[r].call.id /\ reqs[r].as = SuperAdmin /\ reqs[r].pc \in {"write_admin", "write_active"}
           /\ reqs[r] # reqs'[r] /\ admins' # admins
             => /\ RoleOf(a) = Manager => admins[a].role # reqs[r].row.role
                /\ RoleOf(a)' = Manager => RoleOf(a) = Manager]_vars
  BY ManagersAreSpared
<1> QED
  BY <1>1, SparingAlways, PTL DEF Spec, SuperAdminSparesManagers

-------------------------------------------------------------------------------
(* Rbac implements AccessTable                                             *)

(* What a request contributes to the mapping.                              *)
Deletes(h) == IF h.pc = "delete_role" THEN {h.call.id} ELSE {}
Gives(h) == IF h.pc = "insert_grants" THEN GrantsOf(h.call.id, h.call.perms) ELSE {}
OrdersOf(h) == IF h.pc \in {"find_permissions", "drop_grants"} THEN {<<h.call.id, h.call.perms>>} ELSE {}

(* What all requests but r contribute. *)
Others(r) == Requests \ {r}
DeletedElsewhere(r) == UNION {Deletes(reqs[q]) : q \in Others(r)}
GivenElsewhere(r) == UNION {Gives(reqs[q]) : q \in Others(r)}
OrderedElsewhere(r) == UNION {OrdersOf(reqs[q]) : q \in Others(r)}

LiveWith(rs, D, h) == Rows(rs) \ (D \union Deletes(h))
GrantedWith(gs, live, G, h) == {x \in gs : x[1] \in live} \union G \union Gives(h)

LEMMA MappingIs ==
  ASSUME OrderlyInv, NEW r \in Requests, NEW h, h = reqs[r]
  PROVE  /\ Live = LiveWith(roles, DeletedElsewhere(r), h)
         /\ Granted = GrantedWith(grants, Live, GivenElsewhere(r), h)
         /\ Orders = OrderedElsewhere(r) \union OrdersOf(h)
<1>1. ASSUME NEW n PROVE Running("delete_role", n) = {} <=> \A q \in Requests : n \notin Deletes(reqs[q])
  BY DEF Running, At, Deletes
<1>2. ASSUME NEW n PROVE (\A q \in Requests : n \notin Deletes(reqs[q])) <=> n \notin DeletedElsewhere(r) \union Deletes(h)
  BY DEF DeletedElsewhere, Others
<1>3. Live = LiveWith(roles, DeletedElsewhere(r), h)
  BY <1>1, <1>2 DEF Live, LiveWith
<1>4. ASSUME NEW x \in grants PROVE Running("insert_grants", x[1]) = {}
  BY DEF Running, At, OrderlyInv, ChecksInv, ChecksOK
<1>5. UNION {GrantsOf(reqs[q].call.id, reqs[q].call.perms) : q \in {p \in Requests : At(p, "insert_grants")}}
        = GivenElsewhere(r) \union Gives(h)
  BY DEF GivenElsewhere, Gives, Others, At
<1>6. Granted = GrantedWith(grants, Live, GivenElsewhere(r), h)
  BY <1>4, <1>5 DEF Granted, GrantedWith
<1>7. Orders = OrderedElsewhere(r) \union OrdersOf(h)
  BY DEF Orders, OrderedElsewhere, OrdersOf, Others, At
<1> QED
  BY <1>3, <1>6, <1>7

(* The others work on other roles, and with other permissions. *)
LEMMA ElsewhereIsApart ==
  ASSUME OrderlyInv, NEW r \in Requests, NEW c, c = reqs[r].call
  PROVE  /\ \A n : TouchesRole(c, n) => /\ n \notin DeletedElsewhere(r)
                                        /\ \A x \in GivenElsewhere(r) : x[1] # n
                                        /\ \A o \in OrderedElsewhere(r) : o[1] # n
         /\ \A p : TouchesPermission(c, p) => \A x \in GivenElsewhere(r) : x[2] # p
         /\ DeletedElsewhere(r) \subseteq DOMAIN roles
<1>1. ASSUME NEW q \in Others(r), NEW h, h = reqs[q]
      PROVE  /\ \A n \in Deletes(h) : TouchesRole(h.call, n) /\ n \in DOMAIN roles
             /\ \A x \in Gives(h) : TouchesRole(h.call, x[1]) /\ TouchesPermission(h.call, x[2])
             /\ \A o \in OrdersOf(h) : TouchesRole(h.call, o[1])
  <2>1. /\ ChecksOK(h) /\ Came(h.pc, h.call.op) /\ CallOK(h.call)
        /\ DOMAIN roles = 1..Len(roles) /\ DOMAIN permissions = 1..Len(permissions)
    BY <1>1, RequestFacts DEF Others, TablesAre
  <2>2. h.pc \in {"delete_role", "insert_grants", "find_permissions", "drop_grants"} =>
          h.call.op \in RoleOps /\ Row(roles, h.call.id) /\ TouchesRole(h.call, h.call.id)
    BY <2>1 DEF ChecksOK, Came, Assigning, RoleOps, TouchesRole, Row
  <2>3. h.pc = "insert_grants" => \A p \in h.call.perms : TouchesPermission(h.call, p)
    BY <2>1, <2>2 DEF ChecksOK, TouchesPermission, Row
  <2> QED
    BY <2>2, <2>3 DEF Deletes, Gives, OrdersOf, GrantsOf, Row
<1>2. \A q \in Others(r) : AreApart(reqs[q].call, c)
  BY DEF OrderlyInv, ApartInv, Others
<1>3. ASSUME NEW n \in DeletedElsewhere(r) PROVE ~TouchesRole(c, n) /\ n \in DOMAIN roles
  <2>1. PICK q \in Others(r) : n \in Deletes(reqs[q])
    BY <1>3 DEF DeletedElsewhere
  <2> QED
    BY <1>1, <1>2, <2>1 DEF AreApart
<1>4. ASSUME NEW x \in GivenElsewhere(r) PROVE ~TouchesRole(c, x[1]) /\ ~TouchesPermission(c, x[2])
  <2>1. PICK q \in Others(r) : x \in Gives(reqs[q])
    BY <1>4 DEF GivenElsewhere
  <2> QED
    BY <1>1, <1>2, <2>1 DEF AreApart
<1>5. ASSUME NEW o \in OrderedElsewhere(r) PROVE ~TouchesRole(c, o[1])
  <2>1. PICK q \in Others(r) : o \in OrdersOf(reqs[q])
    BY <1>5 DEF OrderedElsewhere
  <2> QED
    BY <1>1, <1>2, <2>1 DEF AreApart
<1> QED
  BY <1>3, <1>4, <1>5

(* After a step of r the others contribute what they did before. *)
LEMMA MappingNext ==
  ASSUME OrderlyInv', NEW r \in Requests, Elsewhere(r), NEW g, g = reqs'[r]
  PROVE  /\ Live' = LiveWith(roles', DeletedElsewhere(r), g)
         /\ Granted' = GrantedWith(grants', Live', GivenElsewhere(r), g)
         /\ Orders' = OrderedElsewhere(r) \union OrdersOf(g)
<1>e. \A q \in Others(r) : reqs'[q] = reqs[q]
  BY DEF Elsewhere, Others
<1>1. ASSUME NEW n
      PROVE  Running("delete_role", n)' = {} <=> \A q \in Requests : n \notin Deletes(reqs'[q])
  BY DEF Running, At, Deletes
<1>2. ASSUME NEW n
      PROVE  (\A q \in Requests : n \notin Deletes(reqs'[q])) <=> n \notin DeletedElsewhere(r) \union Deletes(g)
  BY <1>e DEF DeletedElsewhere, Others
<1>3. Live' = LiveWith(roles', DeletedElsewhere(r), g)
  BY <1>1, <1>2 DEF Live, LiveWith
<1>4. ASSUME NEW x \in grants' PROVE Running("insert_grants", x[1])' = {}
  BY DEF Running, At, OrderlyInv, ChecksInv, ChecksOK
<1>5. UNION {GrantsOf(reqs'[q].call.id, reqs'[q].call.perms) : q \in {p \in Requests : At(p, "insert_grants")'}}
        = GivenElsewhere(r) \union Gives(g)
  BY <1>e DEF GivenElsewhere, Gives, Others, At
<1>6. Granted' = GrantedWith(grants', Live', GivenElsewhere(r), g)
  BY <1>4, <1>5 DEF Granted, GrantedWith
<1>7. Orders' = OrderedElsewhere(r) \union OrdersOf(g)
  BY <1>e DEF Orders, OrderedElsewhere, OrdersOf, Others, At
<1> QED
  BY <1>3, <1>6, <1>7

(* The mapping before and after a step that takes the request h to g: the  *)
(* others contribute D, G and O to both, on roles that c does not touch.   *)
Mapped(c, h, g, D, G, O) ==
  /\ Live = LiveWith(roles, D, h) /\ Live' = LiveWith(roles', D, g)
  /\ Granted = GrantedWith(grants, Live, G, h) /\ Granted' = GrantedWith(grants', Live', G, g)
  /\ Orders = O \union OrdersOf(h) /\ Orders' = O \union OrdersOf(g)
  /\ \A n : TouchesRole(c, n) => n \notin D /\ (\A x \in G : x[1] # n) /\ (\A o \in O : o[1] # n)
  /\ \A p : TouchesPermission(c, p) => \A x \in G : x[2] # p
  /\ D \subseteq DOMAIN roles

LEMMA StepMapped ==
  ASSUME OrderlyInv, OrderlyInv', NEW r \in Requests, Elsewhere(r),
         NEW h, h = reqs[r], NEW c, c = h.call, NEW g, g = reqs'[r]
  PROVE  \E D, G, O : Mapped(c, h, g, D, G, O)
<1>1. Mapped(c, h, g, DeletedElsewhere(r), GivenElsewhere(r), OrderedElsewhere(r))
  BY MappingIs, MappingNext, ElsewhereIsApart DEF Mapped
<1> QED
  BY <1>1

Held == {<<a, admins[a].role>> : a \in DOMAIN admins}

(* A step that writes nothing the mapping shows changes at most the orders.*)
LEMMA QuietMaps ==
  ASSUME OrderlyInv, OrderlyInv', NEW r \in Requests, Elsewhere(r), NEW h, h = reqs[r], NEW g, g = reqs'[r],
         Deletes(g) = Deletes(h), Gives(g) = Gives(h), UNCHANGED grants,
         Rows(roles') = Rows(roles), Rows(permissions') = Rows(permissions), Held' = Held
  PROVE  [Table!Next]_(Table!vars)
<1> PICK c : c = h.call
  OBVIOUS
<1> PICK D, G, O : Mapped(c, h, g, D, G, O)
  BY StepMapped
<1>1. Live' = Live
  BY DEF Mapped, LiveWith
<1>2. Granted' = Granted
  BY <1>1 DEF Mapped, GrantedWith
<1> QED
  BY <1>1, <1>2 DEF Table!Next, Table!Order, Table!vars, Held, Rows

LEMMA InsertRoleMaps ==
  ASSUME OrderlyInv, OrderlyInv', NEW r \in Requests, Elsewhere(r), InsertRole(r)
  PROVE  [Table!Next]_(Table!vars)
<1> PICK h, c, name, n, g : /\ h = reqs[r] /\ c = h.call /\ name = c.name /\ n = Len(roles) + 1
                            /\ g = reqs'[r]
  OBVIOUS
<1> PICK D, G, O : Mapped(c, h, g, D, G, O)
  BY StepMapped
<1>h. /\ h \in Request /\ c \in Call /\ ChecksOK(h) /\ h.pc = "insert_role" /\ TablesInv
      /\ roles \in Seq(Names) /\ name \in Names /\ reqs \in [Requests -> Request]
  BY RequestFacts DEF InsertRole, At, TablesInv, NamesOK, Call, OrderlyInv, Inv, RequestsInv
<1>1. /\ roles' = Append(roles, name) /\ UNCHANGED <<permissions, grants, admins, failed>>
      /\ g = Idle \/ g.pc = "assign"
  BY <1>h DEF InsertRole, Finish, ChecksOK, Request
<1>2. name # None
  BY <1>h DEF ChecksOK, CallOK, Came
<1>3. /\ DOMAIN roles' = DOMAIN roles \union {n} /\ n \notin DOMAIN roles /\ roles'[n] = name
      /\ \A m \in DOMAIN roles : roles'[m] = roles[m]
  BY <1>1, <1>h
<1>4. Rows(roles') = Rows(roles) \union {n} /\ n \notin Rows(roles) /\ n \notin D
  BY <1>2, <1>3 DEF Rows, Mapped
<1>5. Deletes(h) = {} /\ Deletes(g) = {} /\ Gives(h) = {} /\ Gives(g) = {} /\ OrdersOf(h) = {} /\ OrdersOf(g) = {}
  BY <1>1, <1>h DEF Deletes, Gives, OrdersOf, Idle
<1>6. Live' = Live \union {n} /\ n \notin Live
  BY <1>4, <1>5 DEF Mapped, LiveWith
<1>7. Granted' = Granted /\ Orders' = Orders
  <2>1. \A x \in grants : x[1] # n
    BY <1>4, <1>h DEF TablesInv
  <2>2. \A x \in grants : x[1] \in Live' <=> x[1] \in Live
    BY <1>6, <2>1
  <2> QED
    BY <1>1, <1>5, <2>2 DEF Mapped, GrantedWith
<1>8. Table!AddRole(n) /\ n \in Live'
  BY <1>1, <1>6, <1>7 DEF Table!AddRole
<1> QED
  BY <1>8 DEF Table!Next

(* All grants of a role go. *)
LEMMA GrantsOfRole ==
  ASSUME TablesInv, NEW n
  PROVE  grants \ GrantsOf(n, PermissionsOf(n)) = {x \in grants : x[1] # n}
<1>1. ASSUME NEW x \in grants PROVE x \in GrantsOf(n, PermissionsOf(n)) <=> x[1] = n
  <2>1. x = <<x[1], x[2]>>
    BY DEF TablesInv
  <2> QED
    BY <2>1 DEF GrantsOf, PermissionsOf
<1> QED
  BY <1>1

LEMMA DropGrantsMaps ==
  ASSUME OrderlyInv, OrderlyInv', NEW r \in Requests, Elsewhere(r), DropGrants(r)
  PROVE  [Table!Next]_(Table!vars)
<1> PICK h, c, n, ps, g : h = reqs[r] /\ c = h.call /\ n = c.id /\ ps = c.perms /\ g = reqs'[r]
  OBVIOUS
<1> PICK D, G, O : Mapped(c, h, g, D, G, O)
  BY StepMapped
<1>h. /\ h \in Request /\ ChecksOK(h) /\ h.pc = "drop_grants" /\ Came(h.pc, c.op) /\ TablesInv
      /\ reqs \in [Requests -> Request]
  BY RequestFacts DEF DropGrants, At, OrderlyInv, Inv, RequestsInv
<1>1. /\ grants' = {x \in grants : x[1] # n} /\ UNCHANGED <<roles, permissions, admins>>
      /\ \/ ps = {} /\ g = Idle
         \/ g.pc = "insert_grants" /\ g.call = c
  BY <1>h, GrantsOfRole DEF DropGrants, Finish, Goto, Request
<1>2. Row(roles, n) /\ n # 0 /\ c.op \in RoleOps /\ ps \subseteq Rows(permissions)
  BY <1>h DEF ChecksOK, Came, Assigning, RoleOps, Row, Rows
<1>3. TouchesRole(c, n)
  BY <1>2 DEF TouchesRole
<1>4. /\ Deletes(h) = {} /\ Gives(h) = {} /\ OrdersOf(h) = {<<n, ps>>}
      /\ Deletes(g) = {} /\ OrdersOf(g) = {} /\ Gives(g) = {n} \X ps
  BY <1>1, <1>h DEF Deletes, Gives, OrdersOf, Idle, GrantsOf
<1>5. Live' = Live /\ n \in Live
  BY <1>1, <1>2, <1>3, <1>4 DEF Mapped, LiveWith, Row, Rows
<1>6. \A x \in G : x[1] # n
  BY <1>3 DEF Mapped
<1>7. Granted' = {x \in Granted : x[1] # n} \union ({n} \X ps)
  <2>1. Granted = {x \in grants : x[1] \in Live} \union G
    BY <1>4 DEF Mapped, GrantedWith
  <2>2. Granted' = {x \in grants' : x[1] \in Live} \union G \union ({n} \X ps)
    BY <1>4, <1>5 DEF Mapped, GrantedWith
  <2> QED
    BY <1>1, <1>6, <2>1, <2>2
<1>8. <<n, ps>> \in Orders /\ Orders' = Orders \ {<<n, ps>>}
  <2>1. \A o \in O : o[1] # n
    BY <1>3 DEF Mapped
  <2> QED
    BY <1>4, <2>1 DEF Mapped
<1>9. Table!Replace(n, ps)
  BY <1>1, <1>2, <1>5, <1>7, <1>8 DEF Table!Replace, Rows
<1> QED
  BY <1>8, <1>9 DEF Table!Next

LEMMA InsertGrantsMaps ==
  ASSUME OrderlyInv, OrderlyInv', NEW r \in Requests, Elsewhere(r), InsertGrants(r)
  PROVE  UNCHANGED Table!vars
<1> PICK h, c, n, new, g : h = reqs[r] /\ c = h.call /\ n = c.id /\ new = GrantsOf(n, c.perms) /\ g = reqs'[r]
  OBVIOUS
<1> PICK D, G, O : Mapped(c, h, g, D, G, O)
  BY StepMapped
<1>h. /\ h \in Request /\ ChecksOK(h) /\ h.pc = "insert_grants" /\ Came(h.pc, c.op) /\ TablesInv
      /\ reqs \in [Requests -> Request]
  BY RequestFacts DEF InsertGrants, At, OrderlyInv, Inv, RequestsInv
<1>1. /\ Row(roles, n) /\ n # 0 /\ c.op \in RoleOps /\ (\A p \in c.perms : Row(permissions, p))
      /\ \A x \in grants : x[1] # n
  BY <1>h DEF ChecksOK, Came, Assigning, RoleOps
<1>2. new \intersect grants = {}
  BY <1>1 DEF GrantsOf
<1>3. grants' = grants \union new /\ g = Idle /\ UNCHANGED <<roles, permissions, admins>>
  BY <1>1, <1>2, <1>h DEF InsertGrants, Finish
<1>4. TouchesRole(c, n)
  BY <1>1 DEF TouchesRole
<1>5. /\ Deletes(h) = {} /\ Gives(h) = new /\ OrdersOf(h) = {}
      /\ Deletes(g) = {} /\ Gives(g) = {} /\ OrdersOf(g) = {}
  BY <1>3, <1>h DEF Deletes, Gives, OrdersOf, Idle
<1>6. Live' = Live /\ n \in Live /\ Orders' = Orders
  BY <1>1, <1>3, <1>4, <1>5 DEF Mapped, LiveWith, Row, Rows
<1>7. \A x \in new : x[1] = n
  BY DEF GrantsOf
<1>8. Granted' = Granted
  <2>1. Granted = {x \in grants : x[1] \in Live} \union G \union new
    BY <1>5 DEF Mapped, GrantedWith
  <2>2. Granted' = {x \in grants \union new : x[1] \in Live} \union G
    BY <1>3, <1>5, <1>6 DEF Mapped, GrantedWith
  <2> QED
    BY <1>6, <1>7, <2>1, <2>2
<1> QED
  BY <1>3, <1>6, <1>8 DEF Table!vars, Rows

LEMMA DropRoleGrantsMaps ==
  ASSUME OrderlyInv, OrderlyInv', NEW r \in Requests, Elsewhere(r), DropRoleGrants(r)
  PROVE  [Table!Next]_(Table!vars)
<1> PICK h, c, n, g : h = reqs[r] /\ c = h.call /\ n = c.id /\ g = reqs'[r]
  OBVIOUS
<1> PICK D, G, O : Mapped(c, h, g, D, G, O)
  BY StepMapped
<1>h. /\ h \in Request /\ ChecksOK(h) /\ h.pc = "drop_role_grants" /\ Came(h.pc, c.op) /\ TablesInv
      /\ CallOK(c) /\ reqs \in [Requests -> Request]
  BY RequestFacts DEF DropRoleGrants, At, OrderlyInv, Inv, RequestsInv
<1>1. /\ grants' = {x \in grants : x[1] # n} /\ UNCHANGED <<roles, permissions, admins>>
      /\ g.pc = "delete_role" /\ g.call = c
  BY <1>h, GrantsOfRole DEF DropRoleGrants, Goto, Request
<1>2. Row(roles, n) /\ Members(n) = {} /\ c.op = "remove_role" /\ n # 0
  BY <1>h DEF ChecksOK, Came, CallOK
<1>3. TouchesRole(c, n)
  BY <1>2 DEF TouchesRole, RoleOps
<1>4. /\ Deletes(h) = {} /\ Gives(h) = {} /\ OrdersOf(h) = {}
      /\ Deletes(g) = {n} /\ Gives(g) = {} /\ OrdersOf(g) = {}
  BY <1>1, <1>h DEF Deletes, Gives, OrdersOf
<1>5. Live' = Live \ {n} /\ n \in Live /\ Orders' = Orders
  BY <1>1, <1>2, <1>3, <1>4 DEF Mapped, LiveWith, Row, Rows
<1>6. Granted' = {x \in Granted : x[1] # n}
  <2>1. Granted = {x \in grants : x[1] \in Live} \union G
    BY <1>4 DEF Mapped, GrantedWith
  <2>2. Granted' = {x \in grants' : x[1] \in Live \ {n}} \union G
    BY <1>4, <1>5 DEF Mapped, GrantedWith
  <2>3. \A x \in G : x[1] # n
    BY <1>3 DEF Mapped
  <2> QED
    BY <1>1, <2>1, <2>2, <2>3
<1>7. \A x \in Held : x[2] # n
  BY <1>2 DEF Held, Members
<1>8. Table!DropRole(n)
  BY <1>1, <1>5, <1>6, <1>7 DEF Table!DropRole, Held, Rows
<1> QED
  BY <1>5, <1>8 DEF Table!Next

LEMMA DeleteRoleMaps ==
  ASSUME OrderlyInv, OrderlyInv', NEW r \in Requests, Elsewhere(r), DeleteRole(r)
  PROVE  UNCHANGED Table!vars
<1> PICK h, c, n, g : h = reqs[r] /\ c = h.call /\ n = c.id /\ g = reqs'[r]
  OBVIOUS
<1> PICK D, G, O : Mapped(c, h, g, D, G, O)
  BY StepMapped
<1>h. /\ ChecksOK(h) /\ h.pc = "delete_role" /\ TablesInv /\ NamesOK(roles) /\ reqs \in [Requests -> Request]
  BY RequestFacts DEF DeleteRole, At, OrderlyInv, Inv, RequestsInv, TablesInv
<1>1. Members(n) = {}
  BY <1>h DEF ChecksOK
<1>2. /\ roles' = [roles EXCEPT ![n] = None] /\ grants' = {x \in grants : x[1] # n}
      /\ UNCHANGED <<permissions, admins>> /\ g = Idle
  BY <1>1, <1>h, GrantsOfRole DEF DeleteRole, Finish
<1>3. Rows(roles') = Rows(roles) \ {n}
  BY <1>2, <1>h, RowRemoved
<1>4. /\ Deletes(h) = {n} /\ Gives(h) = {} /\ OrdersOf(h) = {}
      /\ Deletes(g) = {} /\ Gives(g) = {} /\ OrdersOf(g) = {}
  BY <1>2, <1>h DEF Deletes, Gives, OrdersOf, Idle
<1>5. Live' = Live /\ n \notin Live /\ Orders' = Orders
  BY <1>3, <1>4 DEF Mapped, LiveWith
<1>6. Granted' = Granted
  BY <1>2, <1>4, <1>5 DEF Mapped, GrantedWith
<1> QED
  BY <1>2, <1>5, <1>6 DEF Table!vars, Rows

LEMMA DropGrantMaps ==
  ASSUME OrderlyInv, OrderlyInv', NEW r \in Requests, Elsewhere(r), DropGrant(r)
  PROVE  [Table!Next]_(Table!vars)
<1> PICK h, c, n, g : h = reqs[r] /\ c = h.call /\ n = c.id /\ g = reqs'[r]
  OBVIOUS
<1> PICK D, G, O : Mapped(c, h, g, D, G, O)
  BY StepMapped
<1>h. /\ h.pc = "drop_grant" /\ Came(h.pc, c.op) /\ CallOK(c) /\ reqs \in [Requests -> Request]
  BY RequestFacts DEF DropGrant, At, OrderlyInv, Inv, RequestsInv
<1>1. c.op = "remove_grant" /\ n # 0
  BY <1>h DEF Came, CallOK
<1> PICK p : c.perms = {p}
  BY <1>1, <1>h DEF CallOK
<1>2. /\ grants' = grants \ {<<n, p>>} /\ UNCHANGED <<roles, permissions, admins>> /\ g = Idle
  BY <1>h DEF DropGrant, Finish, GrantsOf
<1>3. TouchesRole(c, n)
  BY <1>1 DEF TouchesRole, RoleOps
<1>4. /\ Deletes(h) = {} /\ Gives(h) = {} /\ OrdersOf(h) = {}
      /\ Deletes(g) = {} /\ Gives(g) = {} /\ OrdersOf(g) = {}
  BY <1>2, <1>h DEF Deletes, Gives, OrdersOf, Idle
<1>5. Live' = Live /\ Orders' = Orders
  BY <1>2, <1>4 DEF Mapped, LiveWith
<1>6. Granted' = Granted \ {<<n, p>>}
  <2>1. <<n, p>> \notin G
    BY <1>3 DEF Mapped
  <2> QED
    BY <1>2, <1>4, <1>5, <2>1 DEF Mapped, GrantedWith
<1>7. CASE <<n, p>> \in Granted
  <2>1. Table!Revoke(n, p)
    BY <1>2, <1>5, <1>6 DEF Table!Revoke, Rows
  <2> QED
    BY <1>7, <2>1 DEF Table!Next
<1>8. CASE <<n, p>> \notin Granted
  BY <1>2, <1>5, <1>6, <1>8 DEF Table!vars, Rows
<1> QED
  BY <1>7, <1>8

LEMMA InsertPermissionMaps ==
  ASSUME OrderlyInv, OrderlyInv', NEW r \in Requests, Elsewhere(r), InsertPermission(r)
  PROVE  [Table!Next]_(Table!vars)
<1> PICK h, c, name, n, g : /\ h = reqs[r] /\ c = h.call /\ name = c.name /\ n = Len(permissions) + 1
                            /\ g = reqs'[r]
  OBVIOUS
<1> PICK D, G, O : Mapped(c, h, g, D, G, O)
  BY StepMapped
<1>h. /\ c \in Call /\ ChecksOK(h) /\ CallOK(c) /\ Came(h.pc, c.op) /\ h.pc = "insert_permission"
      /\ permissions \in Seq(Names) /\ name \in Names /\ reqs \in [Requests -> Request]
  BY RequestFacts DEF InsertPermission, At, TablesInv, NamesOK, Call, OrderlyInv, Inv, RequestsInv
<1>1. name # None /\ ~IsNamed(permissions, name)
  BY <1>h DEF ChecksOK, CallOK, Came
<1>2. permissions' = Append(permissions, name) /\ UNCHANGED <<roles, grants, admins>> /\ g = Idle
  BY <1>1, <1>h DEF InsertPermission, Finish
<1>3. /\ DOMAIN permissions' = DOMAIN permissions \union {n} /\ n \notin DOMAIN permissions
      /\ permissions'[n] = name /\ \A m \in DOMAIN permissions : permissions'[m] = permissions[m]
  BY <1>2, <1>h
<1>4. Rows(permissions') = Rows(permissions) \union {n} /\ n \notin Rows(permissions)
  BY <1>1, <1>3 DEF Rows
<1>5. /\ Deletes(h) = {} /\ Gives(h) = {} /\ OrdersOf(h) = {}
      /\ Deletes(g) = {} /\ Gives(g) = {} /\ OrdersOf(g) = {}
  BY <1>2, <1>h DEF Deletes, Gives, OrdersOf, Idle
<1>6. Live' = Live /\ Orders' = Orders
  BY <1>2, <1>5 DEF Mapped, LiveWith
<1>7. Granted' = Granted
  BY <1>2, <1>5, <1>6 DEF Mapped, GrantedWith
<1>8. Table!AddPermission(n)
  BY <1>2, <1>4, <1>6, <1>7 DEF Table!AddPermission, Rows
<1> QED
  BY <1>4, <1>8 DEF Table!Next, Rows

LEMMA DeletePermissionMaps ==
  ASSUME OrderlyInv, OrderlyInv', NEW r \in Requests, Elsewhere(r), DeletePermission(r)
  PROVE  [Table!Next]_(Table!vars)
<1> PICK h, c, n, g : h = reqs[r] /\ c = h.call /\ n = c.id /\ g = reqs'[r]
  OBVIOUS
<1> PICK D, G, O : Mapped(c, h, g, D, G, O)
  BY StepMapped
<1>h. /\ ChecksOK(h) /\ Came(h.pc, c.op) /\ h.pc = "delete_permission" /\ NamesOK(permissions)
      /\ TablesAre(roles, permissions, admins) /\ reqs \in [Requests -> Request]
  BY RequestFacts DEF DeletePermission, At, TablesInv, OrderlyInv, Inv, RequestsInv
<1>1. /\ c.op \in PermissionOps /\ n \in Rows(permissions) /\ n # 0 /\ \A x \in grants : x[2] # n
  BY <1>h DEF ChecksOK, Came, PermissionOps, Row, Rows, TablesAre
<1>2. /\ permissions' = [permissions EXCEPT ![n] = None] /\ grants' = grants
      /\ UNCHANGED <<roles, admins>> /\ g = Idle
  BY <1>1, <1>h DEF DeletePermission, Finish
<1>3. Rows(permissions') = Rows(permissions) \ {n}
  BY <1>2, <1>h, RowRemoved
<1>4. TouchesPermission(c, n)
  BY <1>1 DEF TouchesPermission
<1>5. /\ Deletes(h) = {} /\ Gives(h) = {} /\ OrdersOf(h) = {}
      /\ Deletes(g) = {} /\ Gives(g) = {} /\ OrdersOf(g) = {}
  BY <1>2, <1>h DEF Deletes, Gives, OrdersOf, Idle
<1>6. Live' = Live /\ Orders' = Orders
  BY <1>2, <1>5 DEF Mapped, LiveWith
<1>7. Granted' = Granted
  BY <1>2, <1>5, <1>6 DEF Mapped, GrantedWith
<1>8. \A x \in Granted : x[2] # n
  BY <1>1, <1>4, <1>5 DEF Mapped, GrantedWith
<1>9. Table!DropPermission(n)
  BY <1>1, <1>2, <1>3, <1>6, <1>7, <1>8 DEF Table!DropPermission, Rows
<1> QED
  BY <1>1, <1>9 DEF Table!Next, Rows

(* An admin is given a role that its call touches. *)
LEMMA AdminMaps ==
  ASSUME OrderlyInv, OrderlyInv', NEW r \in Requests, Elsewhere(r), NEW h, h = reqs[r], NEW g, g = reqs'[r],
         Deletes(g) = {}, Deletes(h) = {}, Gives(g) = {}, Gives(h) = {}, OrdersOf(g) = {}, OrdersOf(h) = {},
         UNCHANGED <<roles, permissions, grants>>,
         NEW a, NEW n \in Rows(roles), TouchesRole(h.call, n),
         Held' = {x \in Held : x[1] # a} \union {<<a, n>>}
  PROVE  [Table!Next]_(Table!vars)
<1> PICK c : c = h.call
  OBVIOUS
<1> PICK D, G, O : Mapped(c, h, g, D, G, O)
  BY StepMapped
<1>1. Live' = Live /\ Orders' = Orders /\ n \in Live
  BY DEF Mapped, LiveWith
<1>2. Granted' = Granted
  BY <1>1 DEF Mapped, GrantedWith
<1>3. Table!Hold(a, n)
  BY <1>1, <1>2 DEF Table!Hold, Held, Rows
<1>4. <<a, n>> \in Held'
  OBVIOUS
<1> QED
  BY <1>3, <1>4 DEF Table!Next, Held

LEMMA InsertAdminMaps ==
  ASSUME OrderlyInv, OrderlyInv', NEW r \in Requests, Elsewhere(r), InsertAdmin(r)
  PROVE  [Table!Next]_(Table!vars)
<1> PICK h, c, name, n, a, row, g :
      /\ h = reqs[r] /\ c = h.call /\ name = c.name /\ n = c.role /\ a = Len(admins) + 1
      /\ row = Admin(name, n) /\ g = reqs'[r]
  OBVIOUS
<1>h. /\ c \in Call /\ ChecksOK(h) /\ Came(h.pc, c.op) /\ h.pc = "insert_admin" /\ admins \in Seq(AdminRow)
      /\ TablesAre(roles, permissions, admins) /\ reqs \in [Requests -> Request]
  BY RequestFacts DEF InsertAdmin, At, TablesInv, OrderlyInv, Inv, RequestsInv
<1>1. /\ c.op = "create_admin" /\ name \in Names /\ n \in Nat /\ Row(roles, n)
      /\ \A b \in DOMAIN admins : admins[b].phone # name
  BY <1>h DEF ChecksOK, Came, Call
<1>2. row \in AdminRow /\ row.role = n
  BY <1>1, AdminTypes
<1>3. admins' = Append(admins, row) /\ UNCHANGED <<roles, permissions, grants>> /\ g = Idle
  BY <1>1, <1>h DEF InsertAdmin, PhoneIsFree, Finish
<1>4. /\ DOMAIN admins' = DOMAIN admins \union {a} /\ a \notin DOMAIN admins /\ admins'[a] = row
      /\ \A b \in DOMAIN admins : admins'[b] = admins[b]
  BY <1>2, <1>3, <1>h
<1>5. Held' = {x \in Held : x[1] # a} \union {<<a, n>>}
  BY <1>2, <1>4 DEF Held
<1>6. n \in Rows(roles) /\ TouchesRole(c, n)
  BY <1>1, <1>h DEF Row, Rows, TouchesRole, AdminCalls, TablesAre
<1>7. /\ Deletes(h) = {} /\ Gives(h) = {} /\ OrdersOf(h) = {}
      /\ Deletes(g) = {} /\ Gives(g) = {} /\ OrdersOf(g) = {}
  BY <1>3, <1>h DEF Deletes, Gives, OrdersOf, Idle
<1> QED
  BY <1>3, <1>5, <1>6, <1>7, AdminMaps

LEMMA WriteAdminMaps ==
  ASSUME OrderlyInv, OrderlyInv', NEW r \in Requests, Elsewhere(r), WriteAdmin(r)
  PROVE  [Table!Next]_(Table!vars)
<1> PICK h, c, a, old, phone, role, row, g :
      /\ h = reqs[r] /\ c = h.call /\ a = c.id /\ old = admins[a]
      /\ phone = (IF GivesPhone(r, h.row) THEN c.name ELSE old.phone)
      /\ role = (IF GivesRole(r, h.row) THEN c.role ELSE old.role)
      /\ row = [old EXCEPT !.phone = phone, !.role = role] /\ g = reqs'[r]
  OBVIOUS
<1>h. /\ ChecksOK(h) /\ Came(h.pc, c.op) /\ h.pc = "write_admin" /\ admins \in Seq(AdminRow) /\ TablesInv
      /\ TablesAre(roles, permissions, admins) /\ reqs \in [Requests -> Request]
      /\ c.op \in AdminOps => a \in DOMAIN admins
  BY RequestFacts DEF WriteAdmin, At, TablesInv, OrderlyInv, Inv, RequestsInv
<1>1. c.op = "update_admin" /\ a \in DOMAIN admins /\ old \in AdminRow
  BY <1>h DEF Came, AdminOps
<1>2. /\ UNCHANGED <<roles, permissions, grants>> /\ g = Idle
      /\ admins' = admins \/ (admins' = [admins EXCEPT ![a] = row] /\ Row(roles, role))
  <2>1. UNCHANGED <<roles, permissions, grants>> /\ Finish(r)
    BY DEF WriteAdmin, Fail
  <2>2. g = Idle
    BY <1>h, <2>1 DEF Finish
  <2>3. \/ admins' = admins
        \/ /\ admins' = [admins EXCEPT ![a].phone = phone, ![a].role = role]
           /\ Row(roles, role)
    BY DEF WriteAdmin, Fail
  <2>4. [admins EXCEPT ![a].phone = phone, ![a].role = role] = [admins EXCEPT ![a] = row]
    BY <1>1, <1>h DEF AdminRow
  <2> QED
    BY <2>1, <2>2, <2>3, <2>4
<1>3. /\ Deletes(h) = {} /\ Gives(h) = {} /\ OrdersOf(h) = {}
      /\ Deletes(g) = {} /\ Gives(g) = {} /\ OrdersOf(g) = {}
  BY <1>2, <1>h DEF Deletes, Gives, OrdersOf, Idle
<1>4. CASE admins' = admins
  <2>1. Held' = Held
    BY <1>4 DEF Held
  <2>2. /\ Rows(roles') = Rows(roles) /\ Rows(permissions') = Rows(permissions) /\ UNCHANGED grants
        /\ Deletes(g) = Deletes(h) /\ Gives(g) = Gives(h)
    BY <1>2, <1>3
  <2> QED
    BY <2>1, <2>2, QuietMaps
<1>5. CASE admins' = [admins EXCEPT ![a] = row] /\ Row(roles, role)
  <2>1. /\ DOMAIN admins' = DOMAIN admins /\ admins'[a].role = role
        /\ \A b \in DOMAIN admins \ {a} : admins'[b] = admins[b]
    BY <1>1, <1>5, <1>h DEF AdminRow
  <2>2. Held' = {x \in Held : x[1] # a} \union {<<a, role>>}
    BY <1>1, <2>1 DEF Held
  <2>3. role \in Rows(roles) /\ TouchesRole(c, role)
    <3>1. role = old.role \/ role = c.role
      OBVIOUS
    <3>2. role \in Rows(roles) /\ role # 0
      BY <1>5, <1>h DEF Row, Rows, TablesAre
    <3> QED
      BY <1>1, <3>1, <3>2 DEF TouchesRole, AdminCalls, AdminOps
  <2>4. UNCHANGED <<roles, permissions, grants>> /\ TouchesRole(h.call, role)
    BY <1>2, <2>3
  <2> QED
    BY <1>3, <2>2, <2>3, <2>4, AdminMaps
<1> QED
  BY <1>2, <1>4, <1>5

(* Where a request stands when the mapping differs from the tables. *)
Counted == {"delete_role", "insert_grants"}

LEMMA PlainMaps ==
  ASSUME OrderlyInv, OrderlyInv', NEW r \in Requests, Elsewhere(r), NEW g, g = reqs'[r],
         reqs[r].pc \notin Counted, g.pc \notin Counted, UNCHANGED grants,
         Rows(roles') = Rows(roles), Rows(permissions') = Rows(permissions), Held' = Held
  PROVE  [Table!Next]_(Table!vars)
<1> PICK h : h = reqs[r]
  OBVIOUS
<1>1. Deletes(g) = Deletes(h) /\ Gives(g) = Gives(h)
  BY DEF Deletes, Gives, Counted
<1> QED
  BY <1>1, QuietMaps

LEMMA CheckMaps ==
  ASSUME OrderlyInv, OrderlyInv', NEW r \in Requests, Elsewhere(r), reqs[r].pc \notin Counted,
         NEW ok, NEW pc, Check(r, ok, pc), pc \notin Counted
  PROVE  [Table!Next]_(Table!vars)
<1> PICK h, g : h = reqs[r] /\ g = reqs'[r]
  OBVIOUS
<1>1. reqs \in [Requests -> Request] /\ UNCHANGED <<roles, permissions, grants, admins>>
  BY DEF OrderlyInv, Inv, RequestsInv, Check
<1>2. g = Idle \/ g.pc = pc
  BY <1>1 DEF Check, Goto, Finish, Request
<1>3. Held' = Held
  BY <1>1 DEF Held
<1> QED
  BY <1>1, <1>2, <1>3, PlainMaps DEF Idle, Counted

LEMMA RenameRows ==
  ASSUME NEW table, NamesOK(table), NEW n, NEW name \in Names, NameIsFree(table, n, name)
  PROVE  Rows(Rename(table, n, name)) = Rows(table)
BY NameChanged

LEMMA RoleStepMaps ==
  ASSUME OrderlyInv, OrderlyInv', NEW r \in Requests, Elsewhere(r), RoleStep(r)
  PROVE  [Table!Next]_(Table!vars)
<1> PICK h, c, n, name, g : h = reqs[r] /\ c = h.call /\ n = c.id /\ name = c.name /\ g = reqs'[r]
  OBVIOUS
<1>h. /\ h \in Request /\ c \in Call /\ ChecksOK(h) /\ Came(h.pc, c.op) /\ TablesInv
      /\ reqs \in [Requests -> Request]
  BY RequestFacts DEF OrderlyInv, Inv, RequestsInv
<1>1. CASE WriteRole(r)
  <2>1. h.pc = "write_role" /\ NameIsFree(roles, n, name) /\ NamesOK(roles) /\ name \in Names
    BY <1>1, <1>h DEF WriteRole, At, ChecksOK, TablesInv, Call
  <2>2. /\ roles' = Rename(roles, n, name) /\ UNCHANGED <<permissions, grants, admins>>
        /\ g = Idle \/ g.pc = "assign"
    BY <1>1, <1>h, <2>1 DEF WriteRole, Goto, Finish, Request
  <2>3. Rows(roles') = Rows(roles)
    BY <2>1, <2>2, RenameRows
  <2>4. Held' = Held
    BY <2>2 DEF Held
  <2>5. g.pc \notin Counted /\ h.pc \notin Counted
    BY <2>1, <2>2 DEF Idle, Counted
  <2> QED
    BY <2>2, <2>3, <2>4, <2>5, PlainMaps
<1>2. CASE \/ CreateRole(r) \/ UpdateRole(r) \/ CheckRoleName(r) \/ AssignPermissions(r)
           \/ FindPermissions(r) \/ RemoveRole(r) \/ RemovePermission(r)
  <2>1. CASE CreateRole(r)
    BY <2>1, CheckMaps DEF CreateRole, At, Counted
  <2>2. CASE UpdateRole(r)
    <3> PICK pc : pc = IF name \in {None, RoleName(n)} THEN "write_role" ELSE "check_role_name"
      OBVIOUS
    <3>1. Check(r, Row(roles, n), pc) /\ h.pc = "update_role"
      BY <2>2 DEF UpdateRole, At
    <3> QED
      BY <3>1, CheckMaps DEF Counted
  <2>3. CASE CheckRoleName(r)
    BY <2>3, CheckMaps DEF CheckRoleName, At, Counted
  <2>4. CASE AssignPermissions(r)
    BY <2>4, CheckMaps DEF AssignPermissions, At, Counted
  <2>5. CASE FindPermissions(r)
    <3> PICK ok : ok = \A p \in c.perms : Row(permissions, p)
      OBVIOUS
    <3>1. Check(r, ok, "drop_grants") /\ h.pc = "find_permissions"
      BY <2>5 DEF FindPermissions, At
    <3> QED
      BY <3>1, CheckMaps DEF Counted
  <2>6. CASE RemoveRole(r)
    BY <2>6, CheckMaps DEF RemoveRole, At, Counted
  <2>7. CASE RemovePermission(r)
    BY <2>7, CheckMaps DEF RemovePermission, At, Counted
  <2> QED
    BY <1>2, <2>1, <2>2, <2>3, <2>4, <2>5, <2>6, <2>7
<1> QED
  BY <1>1, <1>2, InsertRoleMaps, DropGrantsMaps, InsertGrantsMaps, DropRoleGrantsMaps, DeleteRoleMaps,
     DropGrantMaps DEF RoleStep

LEMMA PermissionStepMaps ==
  ASSUME OrderlyInv, OrderlyInv', NEW r \in Requests, Elsewhere(r), PermissionStep(r)
  PROVE  [Table!Next]_(Table!vars)
<1> PICK h, c, n, name, g : h = reqs[r] /\ c = h.call /\ n = c.id /\ name = c.name /\ g = reqs'[r]
  OBVIOUS
<1>h. /\ h \in Request /\ c \in Call /\ ChecksOK(h) /\ Came(h.pc, c.op) /\ TablesInv
      /\ reqs \in [Requests -> Request]
  BY RequestFacts DEF OrderlyInv, Inv, RequestsInv
<1>1. CASE CreatePermission(r)
  BY <1>1, CheckMaps DEF CreatePermission, At, Counted
<1>2. CASE UpdatePermission(r)
  <2> PICK pc : pc = IF name = permissions[n] THEN "write_permission" ELSE "check_permission_name"
    OBVIOUS
  <2>1. Check(r, Row(permissions, n), pc) /\ h.pc = "update_permission"
    BY <1>2 DEF UpdatePermission, At
  <2> QED
    BY <2>1, CheckMaps DEF Counted
<1>3. CASE CheckPermissionName(r)
  BY <1>3, CheckMaps DEF CheckPermissionName, At, Counted
<1>4. CASE WritePermission(r)
  <2>1. h.pc = "write_permission" /\ NameIsFree(permissions, n, name) /\ NamesOK(permissions) /\ name \in Names
    BY <1>4, <1>h DEF WritePermission, At, ChecksOK, TablesInv, Call
  <2>2. permissions' = Rename(permissions, n, name) /\ UNCHANGED <<roles, grants, admins>> /\ g = Idle
    BY <1>4, <1>h, <2>1 DEF WritePermission, Finish
  <2>3. Rows(permissions') = Rows(permissions)
    BY <2>1, <2>2, RenameRows
  <2>4. Held' = Held
    BY <2>2 DEF Held
  <2>5. g.pc \notin Counted /\ h.pc \notin Counted
    BY <2>1, <2>2 DEF Idle, Counted
  <2> QED
    BY <2>2, <2>3, <2>4, <2>5, PlainMaps
<1>5. CASE LoadUnused(r)
  <2> PICK ok : ok = (Row(permissions, n) /\ \A x \in grants : x[2] # n)
    OBVIOUS
  <2>1. Check(r, ok, "delete_permission") /\ h.pc = "remove_permission"
    BY <1>5 DEF LoadUnused, At
  <2> QED
    BY <2>1, CheckMaps DEF Counted
<1> QED
  BY <1>1, <1>2, <1>3, <1>4, <1>5, InsertPermissionMaps, DeletePermissionMaps DEF PermissionStep

(* An admin is loaded; an admin is written, but keeps the role. *)
LEMMA LoadMaps ==
  ASSUME OrderlyInv, OrderlyInv', NEW r \in Requests, Elsewhere(r), reqs[r].pc \notin Counted,
         NEW pc, LoadAdmin(r, pc) \/ LoadAnyAdmin(r, pc), pc \notin Counted
  PROVE  [Table!Next]_(Table!vars)
<1> PICK h, g : h = reqs[r] /\ g = reqs'[r]
  OBVIOUS
<1>1. reqs \in [Requests -> Request] /\ UNCHANGED <<roles, permissions, grants, admins>>
  BY DEF OrderlyInv, Inv, RequestsInv, LoadAdmin, LoadAnyAdmin
<1>2. g = Idle \/ g.pc = pc
  BY <1>1 DEF LoadAdmin, LoadAnyAdmin, Finish, Request
<1>3. Held' = Held
  BY <1>1 DEF Held
<1> QED
  BY <1>1, <1>2, <1>3, PlainMaps DEF Idle, Counted

LEMMA FlagMaps ==
  ASSUME OrderlyInv, OrderlyInv', NEW r \in Requests, Elsewhere(r), reqs[r].pc \notin Counted, Finish(r),
         UNCHANGED <<roles, permissions, grants>>, NEW a, NEW row, row.role = admins[a].role,
         admins' = [admins EXCEPT ![a] = row]
  PROVE  [Table!Next]_(Table!vars)
<1> PICK g : g = reqs'[r]
  OBVIOUS
<1>1. reqs \in [Requests -> Request] /\ admins \in Seq(AdminRow)
  BY DEF OrderlyInv, Inv, RequestsInv, TablesInv
<1>2. g.pc \notin Counted
  BY <1>1 DEF Finish, Idle, Counted
<1>3. DOMAIN admins' = DOMAIN admins /\ \A b \in DOMAIN admins : admins'[b].role = admins[b].role
  BY <1>1
<1>4. Held' = Held
  BY <1>3 DEF Held
<1> QED
  BY <1>2, <1>4, PlainMaps

LEMMA AdminStepMaps ==
  ASSUME OrderlyInv, OrderlyInv', NEW r \in Requests, Elsewhere(r), AdminStep(r)
  PROVE  [Table!Next]_(Table!vars)
<1> PICK h, c, a, name : h = reqs[r] /\ c = h.call /\ a = c.id /\ name = c.name
  OBVIOUS
<1>h. /\ Came(h.pc, c.op) /\ admins \in Seq(AdminRow) /\ c.op \in AdminOps => a \in DOMAIN admins
  BY RequestFacts DEF TablesInv
<1>1. CASE CreateAdmin(r)
  BY <1>1, CheckMaps DEF CreateAdmin, At, Counted
<1>2. CASE LoadRole(r)
  BY <1>2, CheckMaps DEF LoadRole, At, Counted
<1>3. CASE UpdateAdmin(r)
  <2> PICK row, pc : /\ row = admins[a]
                     /\ pc = IF GivesPhone(r, row) THEN "check_phone" ELSE AfterPhone(r, row)
    OBVIOUS
  <2>1. h.pc = "update_admin" /\ (Check(r, FALSE, "idle") \/ LoadAdmin(r, pc))
    BY <1>3 DEF UpdateAdmin, At
  <2>2. pc \in {"check_phone", "check_new_role", "write_admin", "idle"}
    BY NextPlace
  <2> QED
    BY <2>1, <2>2, CheckMaps, LoadMaps DEF Counted
<1>4. CASE CheckPhone(r)
  <2> PICK pc : pc = AfterPhone(r, h.row)
    OBVIOUS
  <2>1. h.pc = "check_phone" /\ Check(r, PhoneIsFree(a, name), pc)
    BY <1>4 DEF CheckPhone, At
  <2>2. pc \in {"check_new_role", "write_admin", "idle"}
    BY NextPlace
  <2> QED
    BY <2>1, <2>2, CheckMaps DEF Counted
<1>5. CASE CheckNewRole(r)
  BY <1>5, CheckMaps DEF CheckNewRole, At, Counted
<1>6. CASE ToggleActive(r)
  BY <1>6, LoadMaps DEF ToggleActive, At, Counted
<1>7. CASE WriteActive(r)
  <2> PICK old, active, row : old = admins[a] /\ active = ~h.row.active /\ row = [old EXCEPT !.active = active]
    OBVIOUS
  <2>1. /\ h.pc = "write_active" /\ admins' = [admins EXCEPT ![a] = row] /\ Finish(r)
        /\ UNCHANGED <<roles, permissions, grants>>
    BY <1>7 DEF WriteActive, At
  <2>2. row.role = admins[a].role
    BY <1>h, <2>1 DEF Came, AdminOps, AdminRow
  <2> QED
    BY <2>1, <2>2, FlagMaps DEF Counted
<1>8. CASE RemoveAdmin(r)
  BY <1>8, LoadMaps DEF RemoveAdmin, At, Counted
<1>9. CASE WriteDeleted(r)
  <2> PICK old, row : old = admins[a] /\ row = [old EXCEPT !.deleted = TRUE]
    OBVIOUS
  <2>1. /\ h.pc = "write_deleted" /\ admins' = [admins EXCEPT ![a] = row] /\ Finish(r)
        /\ UNCHANGED <<roles, permissions, grants>>
    BY <1>9 DEF WriteDeleted, At
  <2>2. row.role = admins[a].role
    BY <1>h, <2>1 DEF Came, AdminOps, AdminRow
  <2> QED
    BY <2>1, <2>2, FlagMaps DEF Counted
<1> QED
  BY <1>1, <1>2, <1>3, <1>4, <1>5, <1>6, <1>7, <1>8, <1>9, InsertAdminMaps, WriteAdminMaps DEF AdminStep

LEMMA CallMaps ==
  ASSUME OrderlyInv, OrderlyInv', NEW r \in Requests, Elsewhere(r),
         NEW caller \in DOMAIN admins, NEW c \in Calls, Authenticate(r, caller, c)
  PROVE  [Table!Next]_(Table!vars)
<1> PICK g, pc : g = reqs'[r] /\ pc = IF RoleOf(caller) = Manager THEN c.op ELSE "guard"
  OBVIOUS
<1>1. /\ reqs[r].pc = "idle" /\ reqs \in [Requests -> Request]
      /\ UNCHANGED <<roles, permissions, grants, admins>>
  BY DEF OrderlyInv, Inv, RequestsInv, Authenticate, Idle
<1>2. g.pc = pc
  BY <1>1 DEF Authenticate, Idle
<1>3. c.op \in Ops
  BY CallTypes DEF OrderlyInv
<1>4. g.pc \notin Counted
  BY <1>2, <1>3 DEF Ops, Counted
<1>5. Held' = Held
  BY <1>1 DEF Held
<1> QED
  BY <1>1, <1>4, <1>5, PlainMaps DEF Counted

LEMMA GuardMaps ==
  ASSUME OrderlyInv, OrderlyInv', NEW r \in Requests, Elsewhere(r), PermissionsGuard(r)
  PROVE  [Table!Next]_(Table!vars)
<1> PICK h, pc, ok : /\ h = reqs[r] /\ pc = h.call.op
                     /\ ok = \E p \in PermissionsOf(h.asRole) : permissions[p] = Needed(h.call.op)
  OBVIOUS
<1>1. h.pc = "guard" /\ Check(r, ok, pc)
  BY DEF PermissionsGuard, At
<1>2. RequestOK(h, Len(admins))
  BY DEF OrderlyInv, Inv, RequestsInv
<1>3. pc \in Ops
  BY <1>1, <1>2 DEF RequestOK
<1> QED
  BY <1>1, <1>3, CheckMaps DEF Ops, Counted

LEMMA NextMaps ==
  ASSUME Overlap = FALSE, Faults = FALSE, OrderlyInv, OrderlyInv', [Next]_vars
  PROVE  [Table!Next]_(Table!vars)
<1>1. CASE UNCHANGED vars
  <2>1. roles' = roles /\ permissions' = permissions /\ grants' = grants /\ admins' = admins /\ reqs' = reqs
    BY <1>1 DEF vars
  <2>2. \A pc, n : Running(pc, n)' = Running(pc, n)
    BY <2>1 DEF Running, At
  <2>3. Live' = Live
    BY <2>1, <2>2 DEF Live
  <2>4. Granted' = Granted /\ Orders' = Orders
    BY <2>1, <2>2, <2>3 DEF Granted, Orders, At
  <2> QED
    BY <2>1, <2>3, <2>4 DEF Table!vars, Rows
<1>2. ASSUME NEW r \in Requests,
             \/ \E caller \in DOMAIN admins, c \in Calls : Authenticate(r, caller, c)
             \/ PermissionsGuard(r) \/ RoleStep(r) \/ PermissionStep(r) \/ AdminStep(r)
      PROVE  [Table!Next]_(Table!vars)
  <2>1. Elsewhere(r)
    BY <1>2, OneMoves DEF OrderlyInv
  <2> QED
    BY <1>2, <2>1, CallMaps, GuardMaps, RoleStepMaps, PermissionStepMaps, AdminStepMaps
<1> QED
  BY <1>1, <1>2 DEF Next, AtRest, Abort

LEMMA InitMaps == Init => Table!Init
<1> SUFFICES ASSUME Init PROVE Table!Init
  OBVIOUS
<1>1. TablesInv /\ TablesAre(roles, permissions, admins) /\ \A r \in Requests : reqs[r].pc = "idle"
  BY InitInv, TableSizes DEF Inv, Init, Idle
<1>2. \A n : Running("delete_role", n) = {} /\ Running("insert_grants", n) = {}
  BY <1>1 DEF Running, At
<1>3. Live = Rows(roles) /\ Orders = {}
  BY <1>1, <1>2 DEF Live, Orders, At
<1>4. Granted \subseteq Rows(roles) \X Rows(permissions)
  <2>1. \A x \in Granted : x \in grants
    BY <1>1 DEF Granted, At
  <2> QED
    BY <1>1, <2>1 DEF TablesInv
<1>5. Rows(roles) \subseteq Nat /\ Rows(permissions) \subseteq Nat
  BY <1>1 DEF Rows, TablesAre
<1>6. Held \subseteq Nat \X Live
  BY <1>1, <1>3 DEF Held, TablesInv, TablesAre
<1> QED
  BY <1>3, <1>4, <1>5, <1>6 DEF Table!Init, Held

(* Where requests that touch the same thing wait for each other and none is*)
(* cut short, roles and permissions change as AccessTable says, however    *)
(* many requests about other things run between the statements of each.    *)
THEOREM ImplementsAccessTableAlways ==
  ASSUME Overlap = FALSE, Faults = FALSE
  PROVE  Spec => ImplementsAccessTable
<1>1. OrderlyInv /\ OrderlyInv' /\ [Next]_vars => [Table!Next]_(Table!vars)
  BY NextMaps
<1> QED
  BY <1>1, InitMaps, OrderlyAlways, PTL DEF Spec, ImplementsAccessTable, Table!Spec

===============================================================================
