------------------------------ MODULE OneTimeCode ------------------------------
(***************************************************************************)
(* What login by one-time code promises: an admin has at most one valid    *)
(* code, the last one issued; it is redeemed at most once, and redeeming   *)
(* takes away that code and no other.                                      *)
(***************************************************************************)
EXTENDS Naturals

CONSTANTS Admins

VARIABLES
  valid,      \* the code each admin may log in with, 0 when there is none
  redeemed    \* pairs of an admin and a code that logged in

vars == <<valid, redeemed>>

None == 0

Init == valid = [a \in Admins |-> None] /\ redeemed = {}

(* A new code takes the place of the earlier one. Codes are not reused. *)
Issue(a) ==
  /\ valid'[a] # None
  /\ <<a, valid'[a]>> \notin redeemed
  /\ valid' = [valid EXCEPT ![a] = valid'[a]]
  /\ UNCHANGED redeemed

Redeem(a) ==
  /\ valid[a] # None
  /\ redeemed' = redeemed \union {<<a, valid[a]>>}
  /\ valid' = [valid EXCEPT ![a] = None]

(* A code is given up, by a request that ends before it has logged in. *)
Void(a) ==
  /\ valid' = [valid EXCEPT ![a] = None]
  /\ UNCHANGED redeemed

Next == \E a \in Admins : Issue(a) \/ Redeem(a) \/ Void(a)

Spec == Init /\ [][Next]_vars

===============================================================================
