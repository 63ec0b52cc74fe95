------------------------------ MODULE AccessTable ------------------------------
(***************************************************************************)
(* What the handlers of roles and permissions promise: the permissions of  *)
(* a role are replaced as a whole by those an order asks for, only a role  *)
(* that no admin has goes, and only a permission that no role has.         *)
(***************************************************************************)
EXTENDS Naturals

VARIABLES
  live,      \* the roles there are
  known,     \* the permissions there are
  granted,   \* pairs of a role and a permission it has
  orders,    \* pairs of a role and the permissions it is to have
  held       \* pairs of an admin and the role it has

vars == <<live, known, granted, orders, held>>

Init ==
  /\ live \subseteq Nat /\ known \subseteq Nat
  /\ granted \subseteq live \X known
  /\ orders = {}
  /\ held \subseteq Nat \X live

AddRole(n) ==
  /\ n \notin live
  /\ live' = live \union {n}
  /\ UNCHANGED <<known, granted, orders, held>>

(* Orders come, and may be given up. *)
Order ==
  /\ orders' # orders
  /\ UNCHANGED <<live, known, granted, held>>

Replace(n, ps) ==
  /\ n \in live /\ ps \subseteq known
  /\ granted' = {g \in granted : g[1] # n} \union ({n} \X ps)
  /\ orders' = orders \ {<<n, ps>>}
  /\ UNCHANGED <<live, known, held>>

Revoke(n, p) ==
  /\ granted' = granted \ {<<n, p>>}
  /\ UNCHANGED <<live, known, orders, held>>

DropRole(n) ==
  /\ n \in live
  /\ \A h \in held : h[2] # n
  /\ live' = live \ {n}
  /\ granted' = {g \in granted : g[1] # n}
  /\ UNCHANGED <<known, orders, held>>

AddPermission(p) ==
  /\ p \notin known
  /\ known' = known \union {p}
  /\ UNCHANGED <<live, granted, orders, held>>

DropPermission(p) ==
  /\ p \in known
  /\ \A g \in granted : g[2] # p
  /\ known' = known \ {p}
  /\ UNCHANGED <<live, granted, orders, held>>

Hold(a, n) ==
  /\ n \in live
  /\ held' = {h \in held : h[1] # a} \union {<<a, n>>}
  /\ UNCHANGED <<live, known, granted, orders>>

Next ==
  \/ Order
  \/ \E n \in live' : AddRole(n)
  \/ \E n \in live : DropRole(n)
  \/ \E o \in orders : Replace(o[1], o[2])
  \/ \E g \in granted : Revoke(g[1], g[2])
  \/ \E p \in known' : AddPermission(p)
  \/ \E p \in known : DropPermission(p)
  \/ \E h \in held' : Hold(h[1], h[2])

Spec == Init /\ [][Next]_vars

===============================================================================
