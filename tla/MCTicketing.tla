----------------------------- MODULE MCTicketing -----------------------------
(* Ticketing on small instances, for TLC. *)
EXTENDS TicketingProperties, TLC

SellersAndSlots == Permutations(Sellers) \union Permutations(Requests)

Distinct == {1}   \* no two time stamps fall into one millisecond

===============================================================================
