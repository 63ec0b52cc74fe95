------------------------------ MODULE SellerGate ------------------------------
(***************************************************************************)
(* What the seller authentication promises (class comment of               *)
(* src/entities/seller-token-session.entity.ts): a request is let in only  *)
(* on a grant of the core backend that runs past the request's arrival,    *)
(* and a grant that was forgotten comes back only from the core, which     *)
(* gives none for a revoked token.                                         *)
(***************************************************************************)
EXTENDS Naturals

CONSTANTS Tokens, Sellers, Requests

VARIABLES
  time,       \* the clock
  revoked,    \* tokens the core has revoked
  grants,     \* per token, what the core granted and is still remembered
  visitor     \* per slot, the token shown, when, and the verdict

vars == <<time, revoked, grants, visitor>>

Grant == [user: Sellers, until: Nat]

NoVisitor == [token |-> 0, since |-> 0, verdict |-> "none", user |-> 0]

Init ==
  /\ time = 1
  /\ revoked = {}
  /\ grants = [t \in Tokens |-> {}]
  /\ visitor = [r \in Requests |-> NoVisitor]

Waiting(r) == visitor[r].verdict = "waiting"

(* Grants may be forgotten at any moment, by expiry, purge or failure. *)
Forgetting == \A t \in Tokens : grants'[t] \subseteq grants[t]

Knock(r, t) ==
  /\ ~Waiting(r)
  /\ visitor' = [visitor EXCEPT ![r] =
       [token |-> t, since |-> time, verdict |-> "waiting", user |-> 0]]
  /\ UNCHANGED <<time, revoked, grants>>

Vouch(r) ==
  LET t == visitor[r].token IN
  /\ Waiting(r)
  /\ t \notin revoked
  /\ \E g \in grants'[t] : g \in Grant /\ grants' = [grants EXCEPT ![t] = @ \union {g}]
  /\ UNCHANGED <<time, revoked, visitor>>

Admit(r) ==
  /\ Waiting(r)
  /\ \E g \in grants[visitor[r].token] :
       /\ g.until > visitor[r].since
       /\ visitor' = [visitor EXCEPT ![r].verdict = "accepted", ![r].user = g.user]
  /\ Forgetting
  /\ UNCHANGED <<time, revoked>>

Refuse(r) ==
  /\ Waiting(r)
  /\ visitor' = [visitor EXCEPT ![r].verdict = "refused"]
  /\ Forgetting
  /\ UNCHANGED <<time, revoked>>

Forget == Forgetting /\ UNCHANGED <<time, revoked, visitor>>

Revoke(t) == revoked' = revoked \union {t} /\ UNCHANGED <<time, grants, visitor>>

Pass == time' = time + 1 /\ UNCHANGED <<revoked, grants, visitor>>

Next ==
  \/ \E r \in Requests :
       \/ \E t \in Tokens : Knock(r, t)
       \/ Vouch(r)
       \/ Admit(r)
       \/ Refuse(r)
  \/ Forget
  \/ \E t \in Tokens : Revoke(t)
  \/ Pass

Spec == Init /\ [][Next]_vars

===============================================================================
