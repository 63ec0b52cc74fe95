----------------------------- MODULE MCSellerAuth -----------------------------
(* SellerAuth on small instances, for TLC. *)
EXTENDS SellerAuthProperties, TLC

Slots == Permutations(Requests)

===============================================================================
