-------------------------------- MODULE MCListing --------------------------------
(* Listing on a small instance, for TLC. *)
EXTENDS ListingProperties

FirstPages == {0, 1}
FewLimits == {0, 1, 3}
AtOnce == {1, 2, 3}

===============================================================================
