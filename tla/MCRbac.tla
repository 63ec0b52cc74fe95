--------------------------------- MODULE MCRbac ---------------------------------
(* Rbac on small instances, for TLC. *)
EXTENDS RbacProperties, TLC

AdminPermissions == <<"edit_admin", "toggle_admin">>
TwoPermissions == <<"manage_roles", "edit_admin">>
Slots == Permutations(Requests)

===============================================================================
