------------------------------ MODULE SellerAuth ------------------------------
(***************************************************************************)
(* The seller authentication (src/ticketing/seller-auth.service.ts): every *)
(* seller request shows a token of the core backend; the answer of the     *)
(* core is kept in seller_token_sessions until it expires, and an hourly   *)
(* task (src/tasks/token-cleanup.task.ts) purges what has expired.         *)
(* As in Ticketing, a handler is one action per await.                     *)
(*                                                                         *)
(* Left out: the seller's name, phone and language, which travel with the  *)
(* user id, and requests without a bearer token, refused at once.          *)
(***************************************************************************)
EXTENDS Naturals

CONSTANTS
  Tokens,       \* bearer tokens, one hash each
  Sellers,      \* core user ids
  Requests,     \* slots for requests in flight
  MaxRequests,  \* bound: requests in a behaviour
  MaxTime,      \* bound: the clock stops here
  Throttle,     \* LAST_USED_THROTTLE_MS
  Faults        \* may the core be unreachable, and a request be cut short?

ASSUME UserIdsAreSerial == Sellers \subseteq Nat \ {0}
ASSUME BoundsAreNatural == MaxRequests \in Nat /\ MaxTime \in Nat /\ Throttle \in Nat
ASSUME FlagIsBoolean == Faults \in BOOLEAN

VARIABLES
  core,       \* what the core backend knows of each token
  sessions,   \* seller_token_sessions: at most one row per token hash
  nextId,     \* the sequence of its primary key
  reqs,       \* the request running in each slot, or its last answer
  cleanup,    \* TokenCleanupTask
  clock,      \* the time, as new Date() shows it
  served      \* number of requests so far

vars == <<core, sessions, nextId, reqs, cleanup, clock, served>>

Absent == 0   \* no id, no user, no time

Row == [id: Nat, user: Sellers \union {Absent}, until: Nat, lastUsed: Nat]
NoRow == [id |-> Absent, user |-> Absent, until |-> Absent, lastUsed |-> Absent]

CoreEntry == [user: Sellers, until: Nat, revoked: BOOLEAN]

(* verdict is the answer of the guard: let in, 401, 503, 500, or none when *)
(* the request was cut short. row is the session the request loaded, or    *)
(* what it made of the core's answer. met is history, which no action      *)
(* reads: has another request with the same token been in flight with it?  *)
Request ==
  [pc: {"idle", "lookup", "delete", "askCore", "coreAnswer", "insert", "touch",
        "update", "reinsert"},
   token: Tokens \union {Absent}, now: Nat, row: Row,
   verdict: {"none", "waiting", "accepted", "unauthorized", "unavailable", "error", "aborted"},
   user: Sellers \union {Absent}, met: BOOLEAN]

Vacant == [pc |-> "idle", token |-> Absent, now |-> Absent, row |-> NoRow,
           verdict |-> "none", user |-> Absent, met |-> FALSE]

Init ==
  /\ core \in [Tokens -> [user: Sellers, until: 2..MaxTime, revoked: {FALSE}]]
  /\ sessions = [t \in Tokens |-> NoRow]
  /\ nextId = 1
  /\ reqs = [r \in Requests |-> Vacant]
  /\ cleanup = [pc |-> "waiting", cutoff |-> Absent]
  /\ clock = 1
  /\ served = 0

-------------------------------------------------------------------------------
(* Helpers *)

At(r, pc) == reqs[r].pc = pc
Goto(r, pc) == reqs' = [reqs EXCEPT ![r].pc = pc]

(* The request ends; the row it worked on is dropped with its locals. *)
Answer(r, verdict, user) ==
  reqs' = [reqs EXCEPT ![r] = [@ EXCEPT !.pc = "idle", !.row = NoRow,
                                        !.verdict = verdict, !.user = user]]
(* Wrong: the id of the session row is taken for the id of the user. *)
LetInByRowId(r) == Answer(r, "accepted", reqs[r].row.id)
LetIn(r) == Answer(r, "accepted", reqs[r].row.user)
Refuse(r, why) == Answer(r, why, Absent)

(* The request of slot r is in flight with token t. *)
Shows(r, t) == ~At(r, "idle") /\ reqs[r].token = t

Cached(t) == sessions[t] # NoRow
(* The table still holds the row the request loaded. *)
StillThere(r) == Cached(reqs[r].token) /\ sessions[reqs[r].token].id = reqs[r].row.id

(* Wrong: a session is taken for valid up to and including its end, every  *)
(* use is written, a use prolongs the session.                             *)
IsLiveUpToEnd(row, now) == row.until >= now
IsDueAlways(row, now) == TRUE
UsedAndProlonged(row, now) == [row EXCEPT !.lastUsed = now, !.until = now + MaxTime]

IsLive(row, now) == row.until > now
IsDue(row, now) == now - row.lastUsed >= Throttle
Used(row, now) == [row EXCEPT !.lastUsed = now]

-------------------------------------------------------------------------------
(* validateBearerToken *)

Arrive(r, t) ==
  /\ At(r, "idle")
  /\ served < MaxRequests
  /\ reqs' = [q \in Requests |->
       IF q = r THEN [Vacant EXCEPT !.pc = "lookup", !.token = t, !.now = clock,
                                    !.verdict = "waiting", !.met = \E o \in Requests : Shows(o, t)]
       ELSE IF Shows(q, t) THEN [reqs[q] EXCEPT !.met = TRUE]
       ELSE reqs[q]]
  /\ served' = served + 1
  /\ UNCHANGED <<core, sessions, nextId, cleanup, clock>>

Lookup(r) ==
  LET row == sessions[reqs[r].token]
      now == reqs[r].now IN
  /\ At(r, "lookup")
  /\ \/ /\ Cached(reqs[r].token) /\ IsLive(row, now) /\ IsDue(row, now)
        /\ reqs' = [reqs EXCEPT ![r].pc = "touch", ![r].row = Used(row, now)]
     \/ /\ Cached(reqs[r].token) /\ IsLive(row, now) /\ ~IsDue(row, now)
        /\ Answer(r, "accepted", row.user)
     \/ /\ Cached(reqs[r].token) /\ ~IsLive(row, now)
        /\ reqs' = [reqs EXCEPT ![r].pc = "delete", ![r].row = row]
     \/ ~Cached(reqs[r].token) /\ Goto(r, "askCore")
  /\ UNCHANGED <<core, sessions, nextId, cleanup, clock, served>>

(* sessionsRepo.save(cached): a SELECT by id, then an UPDATE if the copy   *)
(* differs or, when the row is gone, an INSERT of the copy with its old id.*)
Touch(r) ==
  /\ At(r, "touch")
  /\ \/ ~StillThere(r) /\ Goto(r, "reinsert")
     \/ StillThere(r) /\ sessions[reqs[r].token] # reqs[r].row /\ Goto(r, "update")
     \/ StillThere(r) /\ sessions[reqs[r].token] = reqs[r].row /\ LetIn(r)
  /\ UNCHANGED <<core, sessions, nextId, cleanup, clock, served>>

(* The copy differs in lastUsed only; a row gone meanwhile is no error. *)
UpdateLastUsed(r) ==
  /\ At(r, "update")
  /\ sessions' = IF StillThere(r)
                   THEN [sessions EXCEPT ![reqs[r].token] = reqs[r].row]
                   ELSE sessions
  /\ LetIn(r)
  /\ UNCHANGED <<core, nextId, cleanup, clock, served>>

Reinsert(r) ==
  /\ At(r, "reinsert")
  /\ \/ /\ ~Cached(reqs[r].token)
        /\ sessions' = [sessions EXCEPT ![reqs[r].token] = reqs[r].row]
        /\ LetIn(r)
     \/ /\ Cached(reqs[r].token)
        /\ Refuse(r, "error")
        /\ UNCHANGED sessions
  /\ UNCHANGED <<core, nextId, cleanup, clock, served>>

(* Wrong: the expired row is left in the table; the row is deleted by its  *)
(* token hash instead of its id.                                           *)
KeepExpired(r) ==
  /\ At(r, "delete")
  /\ reqs' = [reqs EXCEPT ![r].pc = "askCore", ![r].row = NoRow]
  /\ UNCHANGED <<core, sessions, nextId, cleanup, clock, served>>
DeleteByHash(r) ==
  /\ At(r, "delete")
  /\ sessions' = [sessions EXCEPT ![reqs[r].token] = NoRow]
  /\ reqs' = [reqs EXCEPT ![r].pc = "askCore", ![r].row = NoRow]
  /\ UNCHANGED <<core, nextId, cleanup, clock, served>>

DeleteExpired(r) ==
  /\ At(r, "delete")
  /\ sessions' = IF StillThere(r) THEN [sessions EXCEPT ![reqs[r].token] = NoRow] ELSE sessions
  /\ reqs' = [reqs EXCEPT ![r].pc = "askCore", ![r].row = NoRow]
  /\ UNCHANGED <<core, nextId, cleanup, clock, served>>

(* The core decides when it gets the question. Its clock need not be ours: *)
(* it may refuse or still vouch for a token that has just expired.         *)
AskCore(r) ==
  LET c == core[reqs[r].token] IN
  /\ At(r, "askCore")
  /\ \/ /\ ~c.revoked
        /\ reqs' = [reqs EXCEPT ![r].pc = "coreAnswer",
                      ![r].row = [NoRow EXCEPT !.user = c.user, !.until = c.until]]
     \/ (c.revoked \/ c.until <= clock) /\ Refuse(r, "unauthorized")
     \/ Faults /\ Refuse(r, "unavailable")
  /\ UNCHANGED <<core, sessions, nextId, cleanup, clock, served>>

CoreAnswer(r) ==
  /\ At(r, "coreAnswer")
  /\ \/ ~IsLive(reqs[r].row, clock) /\ Refuse(r, "unauthorized")
     \/ IsLive(reqs[r].row, clock) /\ Goto(r, "insert")
  /\ UNCHANGED <<core, sessions, nextId, cleanup, clock, served>>

(* A second row for the hash is refused by the unique index: the caller    *)
(* gets a 500.                                                             *)
InsertSession(r) ==
  LET h == reqs[r] IN
  /\ At(r, "insert")
  /\ \/ /\ ~Cached(h.token)
        /\ sessions' = [sessions EXCEPT ![h.token] =
                          [h.row EXCEPT !.id = nextId, !.lastUsed = h.now]]
        /\ LetIn(r)
     \/ /\ Cached(h.token)
        /\ Refuse(r, "error")
        /\ UNCHANGED sessions
  /\ nextId' = nextId + 1
  /\ UNCHANGED <<core, cleanup, clock, served>>

-------------------------------------------------------------------------------
(* TokenCleanupTask.handleTokenCleanup *)

CleanupStarts ==
  /\ cleanup.pc = "waiting"
  /\ cleanup' = [cleanup EXCEPT !.pc = "tokens"]
  /\ UNCHANGED <<core, sessions, nextId, reqs, clock, served>>

(* The blacklist comes first; when that fails the sessions have to wait.   *)
CleanExpiredTokens ==
  /\ cleanup.pc = "tokens"
  /\ \/ cleanup' = [pc |-> "sessions", cutoff |-> clock]
     \/ Faults /\ cleanup' = [pc |-> "waiting", cutoff |-> Absent]
  /\ UNCHANGED <<core, sessions, nextId, reqs, clock, served>>

(* Wrong: the comparison of the purge is turned around. *)
IsPurgedWhenFresh(row, cutoff) == row.until > cutoff
IsPurged(row, cutoff) == row.until < cutoff

PurgeExpiredSessions ==
  /\ cleanup.pc = "sessions"
  /\ sessions' = [t \in Tokens |->
       IF Cached(t) /\ IsPurged(sessions[t], cleanup.cutoff) THEN NoRow ELSE sessions[t]]
  /\ cleanup' = [pc |-> "waiting", cutoff |-> Absent]
  /\ UNCHANGED <<core, nextId, reqs, clock, served>>

(* When this delete fails, they wait for the next hour. *)
PurgeFails ==
  /\ Faults
  /\ cleanup.pc = "sessions"
  /\ cleanup' = [pc |-> "waiting", cutoff |-> Absent]
  /\ UNCHANGED <<core, sessions, nextId, reqs, clock, served>>

-------------------------------------------------------------------------------
(* The surroundings *)

(* The seller logs out at the core. *)
Revoke(t) ==
  /\ ~core[t].revoked
  /\ core' = [core EXCEPT ![t].revoked = TRUE]
  /\ UNCHANGED <<sessions, nextId, reqs, cleanup, clock, served>>

(* The core prolongs its session: a later question gets a later expiry.    *)
Prolong(t) ==
  /\ ~core[t].revoked
  /\ \E u \in core[t].until + 1 .. MaxTime : core' = [core EXCEPT ![t].until = u]
  /\ UNCHANGED <<sessions, nextId, reqs, cleanup, clock, served>>

Tick ==
  /\ clock < MaxTime
  /\ clock' = clock + 1
  /\ UNCHANGED <<core, sessions, nextId, reqs, cleanup, served>>

(* A lost connection or a restart ends the request where it is. *)
Abort(r) ==
  /\ Faults
  /\ ~At(r, "idle")
  /\ Refuse(r, "aborted")
  /\ UNCHANGED <<core, sessions, nextId, cleanup, clock, served>>

Step(r) ==
  \/ Lookup(r)
  \/ Touch(r)
  \/ UpdateLastUsed(r)
  \/ Reinsert(r)
  \/ DeleteExpired(r)
  \/ AskCore(r)
  \/ CoreAnswer(r)
  \/ InsertSession(r)

Cleanup == CleanupStarts \/ CleanExpiredTokens \/ PurgeExpiredSessions \/ PurgeFails

Next ==
  \/ \E r \in Requests : Step(r) \/ Abort(r) \/ \E t \in Tokens : Arrive(r, t)
  \/ Cleanup
  \/ \E t \in Tokens : Revoke(t) \/ Prolong(t)
  \/ Tick

Spec == Init /\ [][Next]_vars

(* The database and the core answer, time passes, and cron fires again     *)
(* every hour; neither of its two deletes fails every single time.         *)
FairSpec ==
  /\ Spec
  /\ \A r \in Requests : WF_vars(Step(r))
  /\ WF_vars(Cleanup)
  /\ SF_vars(CleanExpiredTokens /\ cleanup'.pc = "sessions") /\ SF_vars(PurgeExpiredSessions)
  /\ WF_vars(Tick)

===============================================================================
