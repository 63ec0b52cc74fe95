------------------------- MODULE SellerAuthProperties -------------------------
(***************************************************************************)
(* The correctness properties of SellerAuth, and the mapping under which   *)
(* it implements SellerGate.                                               *)
(***************************************************************************)
EXTENDS SellerAuth

(* Every variable has its type. *)
TypeOK ==
  /\ core \in [Tokens -> CoreEntry]
  /\ sessions \in [Tokens -> Row]
  /\ nextId \in Nat \ {Absent}
  /\ reqs \in [Requests -> Request]
  /\ cleanup \in [pc: {"waiting", "tokens", "sessions"}, cutoff: Nat]
  /\ clock \in Nat
  /\ served \in Nat

(* The request of slot r works with a grant of token t: an answer of the   *)
(* core or a copy of a row.                                                *)
HoldsGrant(r, t) ==
  reqs[r].token = t /\ reqs[r].pc \in {"coreAnswer", "insert", "touch", "update", "reinsert"}

-------------------------------------------------------------------------------
(* Whatever overlaps, and whatever is cut short *)

(* "Validity is always min(session row, token expiresAt from core)"        *)
(* (seller-token-session.entity.ts): no row runs longer than the core has  *)
(* said for its token, and each names the core's user.                     *)
SessionsWithinCore ==
  \A t \in Tokens : Cached(t) =>
    sessions[t].until <= core[t].until /\ sessions[t].user = core[t].user

(* Who is let in arrived before the expiry the core has given for the      *)
(* token, as the user the core knows.                                      *)
AcceptedWithinCore ==
  \A r \in Requests : reqs[r].verdict = "accepted" =>
    LET c == core[reqs[r].token] IN reqs[r].now < c.until /\ reqs[r].user = c.user

(* Only an expired session is removed, by whomever: a live row survives    *)
(* the purge and the deletions of requests that saw an older row.          *)
OnlyExpiredIsRemoved ==
  [][\A t \in Tokens : Cached(t) /\ sessions'[t].id # sessions[t].id
       => sessions[t].until <= clock]_vars

(* The implementation of SellerGate: a grant is remembered by a row, by an *)
(* answer of the core or by a copy of a row that a request works with.     *)
GrantOf(row) == [user |-> row.user, until |-> row.until]
Remembered(t) ==
  {GrantOf(reqs[r].row) : r \in {q \in Requests : HoldsGrant(q, t)}}
    \union (IF Cached(t) THEN {GrantOf(sessions[t])} ELSE {})

Visitor(h) ==
  [token |-> h.token, since |-> h.now, user |-> h.user,
   verdict |-> IF h.verdict \in {"none", "waiting", "accepted"} THEN h.verdict ELSE "refused"]

Gate == INSTANCE SellerGate WITH
          time <- clock,
          revoked <- {t \in Tokens : core[t].revoked},
          grants <- [t \in Tokens |-> Remembered(t)],
          visitor <- [r \in Requests |-> Visitor(reqs[r])]

(* Sellers are let in on grants of the core only, and what was forgotten   *)
(* of a revoked token stays forgotten, even though save() may bring back a *)
(* row that the purge has deleted.                                         *)
ImplementsGate == Gate!Spec

-------------------------------------------------------------------------------
(* Requests that never meet another one with their token, among all others *)

(* "Throttle lastUsedAt writes" (validateBearerToken): a row that stays is *)
(* not written again before the throttle has passed, unless by requests    *)
(* that met each other.                                                    *)
WritesAreThrottled ==
  [][\A t \in Tokens :
       Cached(t) /\ sessions'[t].id = sessions[t].id /\ sessions'[t].lastUsed # sessions[t].lastUsed
         => \/ sessions'[t].lastUsed >= sessions[t].lastUsed + Throttle
            \/ \E r \in Requests : Shows(r, t) /\ reqs[r].met]_vars

(* Only a request that met another one with its token can be answered by   *)
(* an error of the database: alone, it never hits the unique index,        *)
(* whatever the purge does in between, whatever was cut short before it    *)
(* and however requests with other tokens run.                             *)
NoErrors == \A r \in Requests : reqs[r].verdict = "error" => reqs[r].met

(* What the test "validates with core and caches session when no cache     *)
(* hit" (seller-auth.service.spec.ts) says of a single request, claimed of *)
(* any number: no request with a token the core vouches for ends in a 500. *)
NoRequestFails == \A r \in Requests : reqs[r].verdict # "error"

-------------------------------------------------------------------------------
(* Under fairness *)

(* Nothing is left that would let the token in. *)
Worthless(t) ==
  /\ ~Cached(t) \/ ~IsLive(sessions[t], clock)
  /\ \A r \in Requests : ~HoldsGrant(r, t)

(* Revocation takes effect: the cache outlives it only until the expiry,   *)
(* then the token is worthless for good.                                   *)
RevocationTakesEffect == \A t \in Tokens : core[t].revoked ~> []Worthless(t)

(* Expired rows do not pile up: the hourly task removes them, one brought  *)
(* back by a late save() included.                                         *)
ExpiredSessionsGo ==
  \A t \in Tokens : (Cached(t) /\ sessions[t].until < clock) ~> ~Cached(t)

===============================================================================
