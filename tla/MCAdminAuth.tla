------------------------------ MODULE MCAdminAuth ------------------------------
(* AdminAuth on small instances, for TLC. *)
EXTENDS AdminAuthProperties, TLC

Slots == Permutations(Requests)

===============================================================================
