------------------------------- MODULE AdminAuth -------------------------------
(***************************************************************************)
(* Login of the staff (src/auth/auth.service.ts, otp.service.ts): a code   *)
(* is stored with the admin and sent by SMS, and typed in again for a JWT; *)
(* logout puts the JWT on a blacklist, which an hourly task cleans. One    *)
(* action per await, as in Ticketing.                                      *)
(*                                                                         *)
(* Codes are numbered in the order they are generated: two codes are never *)
(* equal (six random digits, two minutes). Tokens are the logins, numbered *)
(* too (two logins of one admin in the same second really get equal JWTs:  *)
(* logging out of one then logs out of both). An admin stands for the      *)
(* phone number that finds it.                                             *)
(*                                                                         *)
(* Left out: wrong codes and unknown numbers (refused without a change),   *)
(* what the response says of the admin, and refreshToken, which looks for  *)
(* a column the entity does not have.                                      *)
(***************************************************************************)
EXTENDS Integers, Sequences

CONSTANTS
  Admins,       \* admins, by phone number
  Requests,     \* slots for requests in flight
  MaxRequests,  \* bound: requests in a behaviour
  MaxTime,      \* bound: the clock stops here
  Lifetime,     \* OTP_EXPIRATION_MINUTES
  Cooldown,     \* OTP_RESEND_COOLDOWN_SECONDS
  TokenLife,    \* lifetime of a JWT
  Overlapping,  \* admins that may have several requests in flight
  Faults        \* may the gateway fail, and a request be cut short?

ASSUME TimesArePositive == {Lifetime, Cooldown, TokenLife} \subseteq Nat \ {0}
ASSUME BoundsAreNatural == MaxRequests \in Nat /\ MaxTime \in Nat
ASSUME NoAdminIsAbsent == 0 \notin Admins
ASSUME OverlappingAreAdmins == Overlapping \subseteq Admins
ASSUME FlagIsBoolean == Faults \in BOOLEAN

VARIABLES
  admins,     \* is_active and the otp_* columns
  issued,     \* the codes generated so far: for whom, and when
  sent,       \* the codes the SMS gateway has taken; each may arrive or not
  logins,     \* the tokens issued: for whom, with which code, until when
  blacklist,  \* blacklisted_tokens
  loggedOut,  \* every token that was ever logged out; only properties read it
  reqs,       \* the request running in each slot
  clock,      \* the time, as new Date() shows it
  served      \* number of requests so far

vars == <<admins, issued, sent, logins, blacklist, loggedOut, reqs, clock, served>>

None == 0   \* SQL NULL, and no code

AdminRow == [active: BOOLEAN, code: Nat, until: Nat, requested: Nat]

Idle == [pc |-> "idle", admin |-> None, code |-> None, now |-> 0, token |-> 0]

Init ==
  /\ admins = [a \in Admins |-> [active |-> TRUE, code |-> None, until |-> None, requested |-> None]]
  /\ issued = << >>
  /\ sent = {}
  /\ logins = << >>
  /\ blacklist = {}
  /\ loggedOut = {}
  /\ reqs = [r \in Requests |-> Idle]
  /\ clock = 1
  /\ served = 0

-------------------------------------------------------------------------------
(* Helpers *)

At(r, pc) == reqs[r].pc = pc
Start(r, h) == reqs' = [reqs EXCEPT ![r] = h]
Goto(r, pc) == reqs' = [reqs EXCEPT ![r].pc = pc]
Finish(r) == reqs' = [reqs EXCEPT ![r] = Idle]

Accept(r, a) ==
  /\ reqs[r] = Idle
  /\ served < MaxRequests
  /\ a \in Overlapping \/ \A q \in Requests : reqs[q].admin # a
  /\ served' = served + 1

(* Wrong: the time limit lies in the past, the cooldown is over at once, a *)
(* code is good for one moment too long.                                   *)
ExpiredAtOnce(now) == now - Lifetime
AlwaysResend(requested, now) == TRUE
IsExpiredLate(until, now) == until + 1 < now

ExpiresAt(now) == now + Lifetime
CanResend(requested, now) == requested = None \/ now - requested >= Cooldown
IsExpired(until, now) == until < now

-------------------------------------------------------------------------------
(* requestOtp *)

RequestOtp(r, a) ==
  /\ Accept(r, a)
  /\ admins[a].active
  /\ CanResend(admins[a].requested, clock)
  /\ issued' = Append(issued, [admin |-> a, at |-> clock])
  /\ Start(r, [Idle EXCEPT !.pc = "store", !.admin = a, !.code = Len(issued) + 1, !.now = clock])
  /\ UNCHANGED <<admins, sent, logins, blacklist, loggedOut, clock>>

(* Wrong: the time limit of the earlier code is kept. *)
StoreCodeOnly(r) ==
  LET h == reqs[r] IN
  /\ At(r, "store")
  /\ admins' = [admins EXCEPT ![h.admin] =
       [@ EXCEPT !.code = h.code, !.until = IF @ = None THEN ExpiresAt(h.now) ELSE @,
                 !.requested = h.now]]
  /\ Goto(r, "send")
  /\ UNCHANGED <<issued, sent, logins, blacklist, loggedOut, clock, served>>

StoreCode(r) ==
  LET h == reqs[r] IN
  /\ At(r, "store")
  /\ admins' = [admins EXCEPT ![h.admin] =
       [@ EXCEPT !.code = h.code, !.until = ExpiresAt(h.now), !.requested = h.now]]
  /\ Goto(r, "send")
  /\ UNCHANGED <<issued, sent, logins, blacklist, loggedOut, clock, served>>

(* KavenegarService.sendOtp: an error or a timeout may come after the      *)
(* gateway has taken the message. Either way code and cooldown stay.       *)
SendSms(r) ==
  /\ At(r, "send")
  /\ \/ sent' = sent \union {reqs[r].code}
     \/ Faults /\ UNCHANGED sent
  /\ Finish(r)
  /\ UNCHANGED <<admins, issued, logins, blacklist, loggedOut, clock, served>>

-------------------------------------------------------------------------------
(* verifyOtp *)

VerifyOtp(r, a, c) ==
  /\ Accept(r, a)
  /\ c \in sent
  /\ admins[a].active
  /\ admins[a].code = c
  /\ ~IsExpired(admins[a].until, clock)
  /\ Start(r, [Idle EXCEPT !.pc = "clear", !.admin = a, !.code = c, !.now = clock])
  /\ UNCHANGED <<admins, issued, sent, logins, blacklist, loggedOut, clock>>

(* Wrong: the code is not cleared. *)
LoginOnly(r) ==
  LET h == reqs[r] IN
  /\ At(r, "clear")
  /\ logins' = Append(logins, [admin |-> h.admin, code |-> h.code, at |-> h.now,
                               exp |-> clock + TokenLife])
  /\ Finish(r)
  /\ UNCHANGED <<admins, issued, sent, blacklist, loggedOut, clock, served>>

(* The columns are cleared whatever they hold by now; then the token is    *)
(* signed, unless the process stops in between.                            *)
ClearCode(r) ==
  LET h == reqs[r] IN
  /\ At(r, "clear")
  /\ admins' = [admins EXCEPT ![h.admin] = [@ EXCEPT !.code = None, !.until = None]]
  /\ \/ logins' = Append(logins, [admin |-> h.admin, code |-> h.code, at |-> h.now,
                                  exp |-> clock + TokenLife])
     \/ Faults /\ UNCHANGED logins
  /\ Finish(r)
  /\ UNCHANGED <<issued, sent, blacklist, loggedOut, clock, served>>

-------------------------------------------------------------------------------
(* logout: JwtAuthGuard, then BlacklistGuard, then the handler. Each looks *)
(* at the database once.                                                   *)

(* passport-jwt refuses a token from the second of its expiry on. *)
IsAlive(exp, now) == now < exp

Authenticate(r, n) ==
  /\ Accept(r, logins[n].admin)
  /\ IsAlive(logins[n].exp, clock)
  /\ admins[logins[n].admin].active
  /\ Start(r, [Idle EXCEPT !.pc = "guard", !.admin = logins[n].admin, !.token = n])
  /\ UNCHANGED <<admins, issued, sent, logins, blacklist, loggedOut, clock>>

CheckBlacklist(r) ==
  /\ At(r, "guard")
  /\ IF reqs[r].token \in blacklist THEN Finish(r) ELSE Goto(r, "logout")
  /\ UNCHANGED <<admins, issued, sent, logins, blacklist, loggedOut, clock, served>>

(* A token that is on the list by now is refused by the unique index. *)
Logout(r) ==
  /\ At(r, "logout")
  /\ blacklist' = blacklist \union {reqs[r].token}
  /\ loggedOut' = loggedOut \union {reqs[r].token}
  /\ Finish(r)
  /\ UNCHANGED <<admins, issued, sent, logins, clock, served>>

(* Wrong: the list is cleaned of what has yet to expire. *)
IsCleanedEarly(exp, now) == exp > now
IsCleaned(exp, now) == exp < now

CleanExpiredTokens ==
  /\ \E n \in blacklist : IsCleaned(logins[n].exp, clock)
  /\ blacklist' = {n \in blacklist : ~IsCleaned(logins[n].exp, clock)}
  /\ UNCHANGED <<admins, issued, sent, logins, loggedOut, reqs, clock, served>>

-------------------------------------------------------------------------------
(* The surroundings *)

(* AdminsService.toggleActive, as one update. *)
ToggleActive(a) ==
  /\ served < MaxRequests
  /\ served' = served + 1
  /\ admins' = [admins EXCEPT ![a].active = ~@]
  /\ UNCHANGED <<issued, sent, logins, blacklist, loggedOut, reqs, clock>>

Tick ==
  /\ clock < MaxTime
  /\ clock' = clock + 1
  /\ UNCHANGED <<admins, issued, sent, logins, blacklist, loggedOut, reqs, served>>

Abort(r) ==
  /\ Faults
  /\ reqs[r] # Idle
  /\ Finish(r)
  /\ UNCHANGED <<admins, issued, sent, logins, blacklist, loggedOut, clock, served>>

Step(r) == StoreCode(r) \/ SendSms(r) \/ ClearCode(r) \/ CheckBlacklist(r) \/ Logout(r)

AtRest ==
  /\ served = MaxRequests
  /\ clock = MaxTime
  /\ \A r \in Requests : reqs[r] = Idle
  /\ UNCHANGED vars

Next ==
  \/ \E r \in Requests :
       \/ \E a \in Admins : RequestOtp(r, a) \/ \E c \in sent : VerifyOtp(r, a, c)
       \/ \E n \in DOMAIN logins : Authenticate(r, n)
       \/ Step(r)
       \/ Abort(r)
  \/ \E a \in Admins : ToggleActive(a)
  \/ CleanExpiredTokens
  \/ Tick
  \/ AtRest

Spec == Init /\ [][Next]_vars

===============================================================================
