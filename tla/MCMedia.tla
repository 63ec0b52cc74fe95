--------------------------------- MODULE MCMedia ---------------------------------
(* Media on small instances, for TLC. *)
EXTENDS MediaProperties, TLC

AdminsAndSlots == Permutations(Admins) \union Permutations(Requests)

File(mime, size) == [mime |-> mime, size |-> size]

(* One file that is accepted for both, one for /upload only, and one for   *)
(* each reason to be refused.                                              *)
AnyFile == {File("image/png", "fits"), File("application/pdf", "fits"),
            File("image/svg+xml", "fits"), File("image/png", "empty")}
OneImage == {File("image/png", "fits")}

===============================================================================
