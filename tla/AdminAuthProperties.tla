-------------------------- MODULE AdminAuthProperties --------------------------
(***************************************************************************)
(* The correctness properties of AdminAuth, and the mapping under which it *)
(* implements OneTimeCode.                                                 *)
(***************************************************************************)
EXTENDS AdminAuth

Code == [admin: Admins, at: Nat]
Login == [admin: Admins, code: Nat \ {None}, at: Nat, exp: Nat]
Request == [pc: {"idle", "store", "send", "clear", "guard", "logout"},
            admin: Admins \union {None}, code: Nat, now: Nat, token: Nat]

(* Every variable has its type. *)
TypeOK ==
  /\ admins \in [Admins -> AdminRow]
  /\ issued \in Seq(Code)
  /\ sent \in SUBSET (1..Len(issued))
  /\ logins \in Seq(Login)
  /\ blacklist \in SUBSET (1..Len(logins))
  /\ loggedOut \in SUBSET (1..Len(logins))
  /\ reqs \in [Requests -> Request]
  /\ clock \in Nat
  /\ served \in Nat

-------------------------------------------------------------------------------
(* Whatever overlaps, and whatever is cut short *)

(* A code logs in the admin it was generated for, and only when it is      *)
(* typed in within its lifetime, whichever of several codes was stored     *)
(* last: a code and its time limit are never mixed up with another's.      *)
LoginsAreTimely ==
  \A i \in DOMAIN logins :
    LET code == issued[logins[i].code] IN
    /\ code.admin = logins[i].admin
    /\ code.at <= logins[i].at /\ logins[i].at <= code.at + Lifetime

(* A token that was logged out, by whichever request and however long ago, *)
(* is refused by BlacklistGuard for as long as JwtStrategy accepts it: the *)
(* cleanup takes it off the list only when it is worth nothing any more.   *)
(* A request that JwtStrategy has let in may find the list cleaned of its  *)
(* token; then the token has expired while the request was on its way from *)
(* the one guard to the other.                                             *)
LoggedOutIsRefused ==
  [][\A r \in Requests :
       At(r, "guard") /\ reqs'[r].pc = "logout" /\ reqs[r].token \in loggedOut
         => ~IsAlive(logins[reqs[r].token].exp, clock)]_vars

-------------------------------------------------------------------------------
(* Admins whose requests do not overlap, beside others whose requests do   *)

Apart == Admins \ Overlapping

(* Two codes that the gateway has taken for one admin were generated at    *)
(* least the cooldown apart, also when the first was redeemed or its       *)
(* message was reported as failed.                                         *)
CodesAreSpaced ==
  \A c, d \in sent :
    c < d /\ issued[c].admin = issued[d].admin /\ issued[c].admin \in Apart
      => issued[c].at + Cooldown <= issued[d].at

(* A code logs in once. *)
RedeemedOnce ==
  \A i, j \in DOMAIN logins :
    logins[i].code = logins[j].code /\ logins[i].admin \in Apart => i = j

Codes == INSTANCE OneTimeCode WITH
           Admins <- Apart,
           valid <- [a \in Apart |-> admins[a].code],
           redeemed <- {<<logins[i].admin, logins[i].code>> :
                          i \in {j \in DOMAIN logins : logins[j].admin \in Apart}}

(* The stored code of an admin behaves as a one-time code: what is         *)
(* redeemed is the code in the row, which goes with it, or it is lost      *)
(* without a login; a redeemed one never comes back.                       *)
ImplementsOneTimeCode == Codes!Spec

===============================================================================
