--------------------------- MODULE SellerAuthProofs ---------------------------
(***************************************************************************)
(* Theorems about SellerAuth, for any number of tokens, sellers and slots, *)
(* whether or not requests overlap, are cut short or meet the purge.       *)
(***************************************************************************)
EXTENDS SellerAuthProperties, TLAPS

(* A request in flight may write its row at any later time, so the         *)
(* invariant speaks of the rows in flight as well as of the table.         *)
Holding == {"coreAnswer", "insert", "touch", "update", "reinsert"}

RequestOK(h) ==
  /\ h.pc # "idle" \/ h.verdict = "accepted" => h.token \in Tokens
  /\ h.now <= clock
  /\ h.pc \in Holding =>
       h.row.until <= core[h.token].until /\ h.row.user = core[h.token].user
  /\ h.pc \in Holding \ {"coreAnswer"} => h.now < h.row.until
  /\ h.verdict = "accepted" =>
       h.now < core[h.token].until /\ h.user = core[h.token].user

GateInv ==
  /\ TypeOK
  /\ SessionsWithinCore
  /\ \A r \in Requests : RequestOK(reqs[r])

LEMMA ConstantTypes ==
  /\ NoRow \in Row /\ NoRow.user = Absent
  /\ Vacant \in Request /\ Vacant.pc = "idle" /\ Vacant.verdict = "none"
  /\ Vacant.now = 0
BY DEF NoRow, Row, Vacant, Request, Absent

(* What a request makes of the core's answer. *)
LEMMA GrantedRow ==
  ASSUME NEW u \in Sellers, NEW end \in Nat
  PROVE  LET row == [NoRow EXCEPT !.user = u, !.until = end]
         IN  row \in Row /\ row.until <= end /\ row.user = u
<1>1. end <= end
  OBVIOUS
<1> DEFINE row == [NoRow EXCEPT !.user = u, !.until = end]
<1>2. row.user = u
  BY DEF NoRow
<1>3. row.until = end
  BY DEF NoRow
<1>4. row \in Row
  BY DEF NoRow, Row, Absent
<1> HIDE DEF row
<1>5. row \in Row /\ row.until <= end /\ row.user = u
  BY <1>1, <1>2, <1>3, <1>4
<1> QED
  BY <1>5 DEF row

(* One slot changes, the core and the clock do not. *)
LEMMA SlotKept ==
  ASSUME GateInv, UNCHANGED <<core, clock>>,
         NEW r \in Requests, NEW h \in Request, RequestOK(h),
         reqs' = [reqs EXCEPT ![r] = h]
  PROVE  reqs' \in [Requests -> Request] /\ \A q \in Requests : RequestOK(reqs[q])'
<1>1. reqs \in [Requests -> Request]
  BY DEF GateInv, TypeOK
<1>2. \A q \in Requests : RequestOK(reqs'[q])
  BY <1>1 DEF GateInv
<1> QED
  BY <1>1, <1>2 DEF RequestOK

(* A request that is over holds nothing; when it was let in, its row had   *)
(* not expired when it arrived.                                            *)
LEMMA AnswerKept ==
  ASSUME GateInv, UNCHANGED <<core, clock>>, NEW r \in Requests,
         NEW verdict \in {"accepted", "unauthorized", "unavailable", "error", "aborted"},
         NEW user \in Sellers \union {Absent},
         Answer(r, verdict, user), ~At(r, "idle"),
         verdict = "accepted" =>
           reqs[r].now < core[reqs[r].token].until /\ user = core[reqs[r].token].user
  PROVE  reqs' \in [Requests -> Request] /\ \A q \in Requests : RequestOK(reqs[q])'
<1> DEFINE h == [reqs[r] EXCEPT !.pc = "idle", !.row = NoRow, !.verdict = verdict, !.user = user]
<1>1. reqs[r] \in Request /\ RequestOK(reqs[r])
  BY DEF GateInv, TypeOK
<1>2. h \in Request
  BY <1>1, ConstantTypes DEF Request
<1>3. RequestOK(h)
  BY <1>1 DEF RequestOK, Request, Holding, At
<1>4. reqs' = [reqs EXCEPT ![r] = h]
  BY DEF Answer
<1> HIDE DEF h
<1> QED
  BY <1>2, <1>3, <1>4, SlotKept

(* What a request that writes or returns its row knows of it. *)
LEMMA RowHeld ==
  ASSUME GateInv, NEW r \in Requests, reqs[r].pc \in Holding
  PROVE  /\ reqs[r].token \in Tokens /\ reqs[r].row \in Row
         /\ reqs[r].row.user \in Sellers
         /\ reqs[r].row.user = core[reqs[r].token].user
         /\ reqs[r].row.until <= core[reqs[r].token].until
         /\ reqs[r].now \in Nat /\ reqs[r].row.until \in Nat
         /\ core[reqs[r].token].until \in Nat
         /\ reqs[r].pc # "coreAnswer" =>
              reqs[r].now < reqs[r].row.until /\ reqs[r].now < core[reqs[r].token].until
<1>1. reqs[r] \in Request /\ RequestOK(reqs[r])
  BY DEF GateInv, TypeOK
<1>2. reqs[r].token \in Tokens
  BY <1>1 DEF RequestOK, Holding
<1>3. core[reqs[r].token] \in CoreEntry
  BY <1>2 DEF GateInv, TypeOK
<1>4. reqs[r].row \in Row
  BY <1>1 DEF Request
<1> QED
  BY <1>1, <1>2, <1>3, <1>4 DEF RequestOK, Request, CoreEntry, Row, Holding

(* The table takes over the row of a request. *)
LEMMA TableKept ==
  ASSUME GateInv, UNCHANGED core, NEW r \in Requests, reqs[r].pc \in Holding,
         NEW row \in Row, row.until = reqs[r].row.until, row.user = reqs[r].row.user,
         sessions' = [sessions EXCEPT ![reqs[r].token] = row]
  PROVE  sessions' \in [Tokens -> Row] /\ SessionsWithinCore'
<1>1. sessions \in [Tokens -> Row] /\ SessionsWithinCore
  BY DEF GateInv, TypeOK
<1> QED
  BY <1>1, RowHeld DEF SessionsWithinCore, Cached

(* Rows are only taken away. *)
LEMMA FewerRows ==
  ASSUME GateInv, UNCHANGED core, sessions' \in [Tokens -> Row],
         \A t \in Tokens : sessions'[t] \in {sessions[t], NoRow}
  PROVE  SessionsWithinCore'
BY DEF GateInv, SessionsWithinCore, Cached

-------------------------------------------------------------------------------

LEMMA InitGate == Init => GateInv
<1> SUFFICES ASSUME Init PROVE GateInv
  OBVIOUS
<1>1. core \in [Tokens -> CoreEntry]
  <2>1. 2..MaxTime \subseteq Nat
    BY BoundsAreNatural
  <2>2. [user: Sellers, until: 2..MaxTime, revoked: {FALSE}] \subseteq CoreEntry
    BY <2>1 DEF CoreEntry
  <2> QED
    BY <2>2 DEF Init
<1>2. TypeOK
  BY <1>1, ConstantTypes DEF Init, TypeOK, Absent
<1>3. SessionsWithinCore
  BY DEF Init, SessionsWithinCore, Cached
<1>4. RequestOK(Vacant)
  BY ConstantTypes DEF Init, RequestOK, Holding
<1> QED
  BY <1>2, <1>3, <1>4 DEF Init, GateInv

LEMMA StepGate ==
  ASSUME GateInv, NEW r \in Requests, Step(r)
  PROVE  GateInv'
<1> DEFINE h == reqs[r]
<1>t. TypeOK /\ SessionsWithinCore /\ h \in Request /\ RequestOK(h)
  BY DEF GateInv, TypeOK
<1>u. UNCHANGED <<core, clock, cleanup, served>>
  BY DEF Step, Lookup, Touch, UpdateLastUsed, Reinsert, DeleteExpired, AskCore, CoreAnswer,
         InsertSession
<1>k. ASSUME nextId' \in Nat \ {Absent}, sessions' \in [Tokens -> Row], SessionsWithinCore',
             reqs' \in [Requests -> Request], \A q \in Requests : RequestOK(reqs[q])'
      PROVE  GateInv'
  BY <1>k, <1>t, <1>u DEF GateInv, TypeOK
<1>s. ASSUME UNCHANGED <<sessions, nextId>>,
             reqs' \in [Requests -> Request], \A q \in Requests : RequestOK(reqs[q])'
      PROVE  GateInv'
  <2>1. SessionsWithinCore' /\ sessions' \in [Tokens -> Row] /\ nextId' \in Nat \ {Absent}
    BY <1>s, <1>t, <1>u DEF SessionsWithinCore, Cached, TypeOK
  <2> QED
    BY <2>1, <1>s, <1>k
<1>a. ASSUME LetIn(r), h.pc \in Holding \ {"coreAnswer"}
      PROVE  reqs' \in [Requests -> Request] /\ \A q \in Requests : RequestOK(reqs[q])'
  <2>1. ~At(r, "idle") /\ h.row.user \in Sellers \union {Absent}
    BY <1>a, RowHeld DEF Holding, At
  <2>2. h.now < core[h.token].until /\ h.row.user = core[h.token].user
    BY <1>a, RowHeld
  <2> QED
    BY <1>a, <1>u, <2>1, <2>2, AnswerKept DEF LetIn
<1>r. ASSUME NEW why \in {"unauthorized", "unavailable", "error"}, Refuse(r, why), ~At(r, "idle")
      PROVE  reqs' \in [Requests -> Request] /\ \A q \in Requests : RequestOK(reqs[q])'
  BY <1>r, <1>u, AnswerKept DEF Refuse
<1>1. CASE Lookup(r)
  <2> DEFINE row == sessions[h.token]
  <2>1. At(r, "lookup") /\ h.token \in Tokens /\ UNCHANGED <<sessions, nextId>>
    BY <1>1, <1>t DEF Lookup, At, RequestOK
  <2>2. row \in Row /\ h.now \in Nat /\ core[h.token].until \in Nat
    BY <1>t, <2>1 DEF TypeOK, CoreEntry, Request
  <2>3. Cached(h.token) => row.until <= core[h.token].until /\ row.user = core[h.token].user
    BY <1>t, <2>1 DEF SessionsWithinCore
  <2>4. ASSUME Cached(h.token), IsLive(row, h.now),
               reqs' = [reqs EXCEPT ![r].pc = "touch", ![r].row = Used(row, h.now)]
        PROVE  GateInv'
    <3> DEFINE g == [h EXCEPT !.pc = "touch", !.row = Used(row, h.now)]
    <3>1. g \in Request
      BY <1>t, <2>2 DEF Request, Used, Row
    <3>2. RequestOK(g)
      BY <1>t, <2>1, <2>2, <2>3, <2>4 DEF RequestOK, Request, Used, Row, IsLive, Holding, At
    <3>3. reqs' = [reqs EXCEPT ![r] = g]
      BY <2>4, <1>t DEF TypeOK
    <3> HIDE DEF g
    <3> QED
      BY <3>1, <3>2, <3>3, <1>u, <1>s, <2>1, SlotKept
  <2>5. ASSUME Cached(h.token), IsLive(row, h.now), Answer(r, "accepted", row.user)
        PROVE  GateInv'
    <3>1. h.now < core[h.token].until
      BY <2>2, <2>3, <2>5 DEF IsLive, Row
    <3>2. row.user \in Sellers \union {Absent}
      BY <2>2 DEF Row
    <3> QED
      BY <3>1, <3>2, <2>1, <2>3, <2>5, <1>u, <1>s, AnswerKept DEF At
  <2>6. ASSUME reqs' = [reqs EXCEPT ![r].pc = "delete", ![r].row = row]
        PROVE  GateInv'
    <3> DEFINE g == [h EXCEPT !.pc = "delete", !.row = row]
    <3>1. g \in Request
      BY <1>t, <2>2 DEF Request
    <3>2. RequestOK(g)
      BY <1>t, <2>1 DEF RequestOK, Request, Holding
    <3>3. reqs' = [reqs EXCEPT ![r] = g]
      BY <2>6, <1>t DEF TypeOK
    <3> HIDE DEF g
    <3> QED
      BY <3>1, <3>2, <3>3, <1>u, <1>s, <2>1, SlotKept
  <2>7. ASSUME Goto(r, "askCore")
        PROVE  GateInv'
    <3> DEFINE g == [h EXCEPT !.pc = "askCore"]
    <3>1. g \in Request
      BY <1>t DEF Request
    <3>2. RequestOK(g)
      BY <1>t, <2>1 DEF RequestOK, Request, Holding
    <3>3. reqs' = [reqs EXCEPT ![r] = g]
      BY <2>7, <1>t DEF TypeOK, Goto
    <3> HIDE DEF g
    <3> QED
      BY <3>1, <3>2, <3>3, <1>u, <1>s, <2>1, SlotKept
  <2> QED
    BY <1>1, <2>4, <2>5, <2>6, <2>7 DEF Lookup
<1>g. ASSUME NEW pc \in {"insert", "update", "reinsert"}, Goto(r, pc), h.pc \in Holding,
             pc = "insert" => h.now < h.row.until,
             pc # "insert" => h.pc # "coreAnswer"
      PROVE  reqs' \in [Requests -> Request] /\ \A q \in Requests : RequestOK(reqs[q])'
  <2> DEFINE g == [h EXCEPT !.pc = pc]
  <2>1. g \in Request
    BY <1>t DEF Request
  <2>2. RequestOK(g)
    BY <1>t, <1>g DEF RequestOK, Request, Holding
  <2>3. reqs' = [reqs EXCEPT ![r] = g]
    BY <1>g, <1>t DEF TypeOK, Goto
  <2> HIDE DEF g
  <2> QED
    BY <2>1, <2>2, <2>3, <1>u, SlotKept
<1>2. CASE Touch(r)
  <2>1. At(r, "touch") /\ h.pc \in Holding \ {"coreAnswer"} /\ UNCHANGED <<sessions, nextId>>
    BY <1>2 DEF Touch, At, Holding
  <2>2. CASE Goto(r, "reinsert") \/ Goto(r, "update")
    BY <2>1, <2>2, <1>g, <1>s
  <2>3. CASE LetIn(r)
    BY <2>1, <2>3, <1>a, <1>s
  <2> QED
    BY <1>2, <2>2, <2>3 DEF Touch
<1>w. ASSUME h.pc \in Holding, LetIn(r), h.pc # "coreAnswer", nextId' \in Nat \ {Absent},
             NEW row \in Row, row.until = h.row.until, row.user = h.row.user,
             sessions' = [sessions EXCEPT ![h.token] = row]
      PROVE  GateInv'
  BY <1>w, <1>a, <1>k, <1>u, TableKept
<1>3. CASE UpdateLastUsed(r)
  <2>1. h.pc \in Holding \ {"coreAnswer"} /\ LetIn(r) /\ UNCHANGED nextId
    BY <1>3 DEF UpdateLastUsed, At, Holding
  <2>2. h.row \in Row /\ nextId' \in Nat \ {Absent}
    BY <1>t, <2>1, RowHeld DEF TypeOK
  <2>3. CASE StillThere(r)
    BY <1>3, <2>1, <2>2, <2>3, <1>w DEF UpdateLastUsed
  <2>4. CASE ~StillThere(r)
    BY <1>3, <2>1, <2>4, <1>a, <1>s DEF UpdateLastUsed
  <2> QED
    BY <2>3, <2>4
<1>4. CASE Reinsert(r)
  <2>1. h.pc \in Holding \ {"coreAnswer"} /\ UNCHANGED nextId
    BY <1>4 DEF Reinsert, At, Holding
  <2>2. h.row \in Row /\ nextId' \in Nat \ {Absent}
    BY <1>t, <2>1, RowHeld DEF TypeOK
  <2>3. CASE ~Cached(h.token)
    BY <1>4, <2>1, <2>2, <2>3, <1>w DEF Reinsert
  <2>4. CASE Cached(h.token)
    <3>1. ~At(r, "idle")
      BY <2>1 DEF At, Holding
    <3> QED
      BY <1>4, <3>1, <2>1, <2>4, <1>r, <1>s DEF Reinsert
  <2> QED
    BY <2>3, <2>4
<1>5. CASE DeleteExpired(r)
  <2> DEFINE g == [h EXCEPT !.pc = "askCore", !.row = NoRow]
  <2>1. h.token \in Tokens /\ h.pc = "delete" /\ nextId' \in Nat \ {Absent}
    BY <1>5, <1>t DEF DeleteExpired, At, RequestOK, TypeOK
  <2>2. g \in Request
    BY <1>t, ConstantTypes DEF Request
  <2>3. RequestOK(g)
    BY <1>t, <2>1 DEF RequestOK, Request, Holding
  <2>4. reqs' = [reqs EXCEPT ![r] = g]
    BY <1>5, <1>t DEF TypeOK, DeleteExpired
  <2> HIDE DEF g
  <2>5. reqs' \in [Requests -> Request] /\ \A q \in Requests : RequestOK(reqs[q])'
    BY <2>2, <2>3, <2>4, <1>u, SlotKept
  <2>6. sessions' \in [Tokens -> Row] /\ \A t \in Tokens : sessions'[t] \in {sessions[t], NoRow}
    BY <1>5, <1>t, ConstantTypes DEF TypeOK, DeleteExpired
  <2> QED
    BY <2>1, <2>5, <2>6, <1>k, <1>u, FewerRows
<1>6. CASE AskCore(r)
  <2>1. h.token \in Tokens /\ h.pc = "askCore" /\ ~At(r, "idle") /\ UNCHANGED <<sessions, nextId>>
    BY <1>6, <1>t DEF AskCore, At, RequestOK
  <2>2. CASE reqs' = [reqs EXCEPT ![r].pc = "coreAnswer",
                        ![r].row = [NoRow EXCEPT !.user = core[h.token].user,
                                                 !.until = core[h.token].until]]
    <3> DEFINE row == [NoRow EXCEPT !.user = core[h.token].user, !.until = core[h.token].until]
               g == [h EXCEPT !.pc = "coreAnswer", !.row = row]
    <3>1. core[h.token].user \in Sellers /\ core[h.token].until \in Nat
      BY <1>t, <2>1 DEF TypeOK, CoreEntry
    <3>2. row \in Row /\ row.until <= core[h.token].until /\ row.user = core[h.token].user
      BY <3>1, GrantedRow
    <3> HIDE DEF row
    <3>3. g \in Request
      BY <1>t, <3>2 DEF Request
    <3>4. RequestOK(g)
      BY <1>t, <2>1, <3>2 DEF RequestOK, Request, Holding
    <3>5. reqs' = [reqs EXCEPT ![r] = g]
      BY <2>2, <1>t DEF TypeOK, row
    <3> HIDE DEF g
    <3> QED
      BY <3>3, <3>4, <3>5, <1>u, <1>s, <2>1, SlotKept
  <2>3. CASE Refuse(r, "unauthorized") \/ Refuse(r, "unavailable")
    BY <2>1, <2>3, <1>r, <1>s
  <2> QED
    BY <1>6, <2>2, <2>3 DEF AskCore
<1>7. CASE CoreAnswer(r)
  <2>1. h.pc = "coreAnswer" /\ ~At(r, "idle") /\ UNCHANGED <<sessions, nextId>>
    BY <1>7 DEF CoreAnswer, At
  <2>2. CASE Refuse(r, "unauthorized")
    BY <2>1, <2>2, <1>r, <1>s
  <2>3. CASE IsLive(h.row, clock) /\ Goto(r, "insert")
    <3>1. h.now \in Nat /\ h.row.until \in Nat /\ clock \in Nat /\ h.now <= clock
      BY <1>t DEF Request, Row, TypeOK, RequestOK
    <3>2. h.now < h.row.until
      BY <3>1, <2>3 DEF IsLive
    <3> QED
      BY <2>1, <2>3, <3>2, <1>g, <1>s DEF Holding
  <2> QED
    BY <1>7, <2>2, <2>3 DEF CoreAnswer
<1>8. CASE InsertSession(r)
  <2>1. h.pc \in Holding \ {"coreAnswer"} /\ ~At(r, "idle") /\ nextId' \in Nat \ {Absent}
    BY <1>8, <1>t DEF InsertSession, At, Holding, TypeOK, Absent
  <2>2. CASE ~Cached(h.token)
    <3> DEFINE row == [h.row EXCEPT !.id = nextId, !.lastUsed = h.now]
    <3>1. row \in Row /\ row.until = h.row.until /\ row.user = h.row.user
      BY <1>t, <2>1, RowHeld DEF TypeOK, Row
    <3>2. sessions' = [sessions EXCEPT ![h.token] = row] /\ LetIn(r)
      BY <1>8, <2>2 DEF InsertSession
    <3> HIDE DEF row
    <3> QED
      BY <3>1, <3>2, <2>1, <1>w
  <2>3. CASE Cached(h.token)
    <3>1. Refuse(r, "error") /\ UNCHANGED sessions
      BY <1>8, <2>3 DEF InsertSession
    <3>2. SessionsWithinCore' /\ sessions' \in [Tokens -> Row]
      BY <3>1, <1>t, <1>u DEF SessionsWithinCore, Cached, TypeOK
    <3> QED
      BY <3>1, <3>2, <2>1, <1>r, <1>k
  <2> QED
    BY <2>2, <2>3
<1> QED
  BY <1>1, <1>2, <1>3, <1>4, <1>5, <1>6, <1>7, <1>8 DEF Step

LEMMA NextGate == GateInv /\ [Next]_vars => GateInv'
<1> SUFFICES ASSUME GateInv, [Next]_vars PROVE GateInv'
  OBVIOUS
<1>t. TypeOK /\ SessionsWithinCore /\ \A r \in Requests : RequestOK(reqs[r])
  BY DEF GateInv
<1>1. ASSUME NEW r \in Requests, Step(r)
      PROVE  GateInv'
  BY <1>1, StepGate
<1>2. ASSUME NEW r \in Requests, Abort(r)
      PROVE  GateInv'
  <2>1. UNCHANGED <<core, sessions, nextId, cleanup, clock, served>>
    BY <1>2 DEF Abort
  <2>2. reqs' \in [Requests -> Request] /\ \A q \in Requests : RequestOK(reqs[q])'
    BY <1>2, <2>1, AnswerKept DEF Abort, Refuse
  <2> QED
    BY <1>t, <2>1, <2>2 DEF GateInv, TypeOK, SessionsWithinCore, Cached
<1>3. ASSUME NEW r \in Requests, NEW t \in Tokens, Arrive(r, t)
      PROVE  GateInv'
  <2> DEFINE h == [Vacant EXCEPT !.pc = "lookup", !.token = t, !.now = clock,
                     !.verdict = "waiting", !.met = \E o \in Requests : Shows(o, t)]
             met(q) == [reqs[q] EXCEPT !.met = TRUE]
  <2>1. reqs' = [q \in Requests |-> IF q = r THEN h ELSE IF Shows(q, t) THEN met(q) ELSE reqs[q]]
        /\ served' = served + 1 /\ UNCHANGED <<core, sessions, nextId, cleanup, clock>>
    BY <1>3 DEF Arrive
  <2>2. clock \in Nat /\ served \in Nat
    BY <1>t DEF TypeOK
  <2>3. h \in Request
    <3>1. (\E o \in Requests : Shows(o, t)) \in BOOLEAN
      OBVIOUS
    <3> QED
      BY <2>2, <3>1, ConstantTypes DEF Request
  <2>4. RequestOK(h)
    BY <2>2 DEF RequestOK, Holding, Vacant
  <2>5. ASSUME NEW q \in Requests
        PROVE  met(q) \in Request /\ RequestOK(met(q)) /\ reqs[q] \in Request /\ RequestOK(reqs[q])
    BY <1>t DEF TypeOK, Request, RequestOK
  <2> HIDE DEF h, met
  <2>6. reqs' \in [Requests -> Request] /\ \A q \in Requests : RequestOK(reqs'[q])
    BY <2>1, <2>3, <2>4, <2>5
  <2>7. \A q \in Requests : RequestOK(reqs[q])'
    BY <2>1, <2>6 DEF RequestOK
  <2> QED
    BY <1>t, <2>1, <2>2, <2>6, <2>7 DEF GateInv, TypeOK, SessionsWithinCore, Cached
<1>4. CASE Cleanup
  <2>1. UNCHANGED <<core, nextId, reqs, clock, served>>
    BY <1>4 DEF Cleanup, CleanupStarts, CleanExpiredTokens, PurgeExpiredSessions, PurgeFails
  <2>2. cleanup' \in [pc: {"waiting", "tokens", "sessions"}, cutoff: Nat]
    BY <1>4, <1>t DEF Cleanup, CleanupStarts, CleanExpiredTokens, PurgeExpiredSessions, PurgeFails,
                      TypeOK, Absent
  <2>3. sessions' \in [Tokens -> Row]
        /\ \A t \in Tokens : sessions'[t] \in {sessions[t], NoRow}
    BY <1>4, <1>t, ConstantTypes
    DEF Cleanup, CleanupStarts, CleanExpiredTokens, PurgeExpiredSessions, PurgeFails, TypeOK
  <2>4. \A q \in Requests : RequestOK(reqs[q])'
    BY <1>t, <2>1 DEF RequestOK
  <2> QED
    BY <1>t, <2>1, <2>2, <2>3, <2>4, FewerRows DEF GateInv, TypeOK
(* The core may change its mind about a token in two ways only: the user   *)
(* stays and the expiry never comes nearer.                                *)
<1>c. ASSUME core' \in [Tokens -> CoreEntry],
             \A t \in Tokens : core'[t].user = core[t].user /\ core[t].until <= core'[t].until,
             UNCHANGED <<sessions, nextId, reqs, cleanup, clock, served>>
      PROVE  GateInv'
  <2>1. \A t \in Tokens : core[t].until \in Nat /\ core'[t].until \in Nat
    BY <1>t, <1>c DEF TypeOK, CoreEntry
  <2>2. SessionsWithinCore'
    <3>1. \A t \in Tokens : sessions[t].until \in Nat
      BY <1>t DEF TypeOK, Row
    <3> QED
      BY <1>t, <1>c, <2>1, <3>1 DEF SessionsWithinCore, Cached
  <2>3. ASSUME NEW q \in Requests PROVE RequestOK(reqs[q])'
    <3>1. RequestOK(reqs[q]) /\ reqs[q] \in Request
      BY <1>t DEF TypeOK
    <3>2. reqs[q].now \in Nat /\ reqs[q].row.until \in Nat
      BY <3>1 DEF Request, Row
    <3>3. reqs[q].pc \in Holding => reqs[q].token \in Tokens
      BY <3>1 DEF RequestOK, Holding
    <3> QED
      BY <1>c, <2>1, <3>1, <3>2, <3>3 DEF RequestOK
  <2> QED
    BY <1>t, <1>c, <2>2, <2>3 DEF GateInv, TypeOK
<1>5. ASSUME NEW t \in Tokens, Revoke(t)
      PROVE  GateInv'
  <2>1. \A q \in Tokens : core[q] \in CoreEntry /\ core[q].until \in Nat
    BY <1>t DEF TypeOK, CoreEntry
  <2>2. core' \in [Tokens -> CoreEntry]
        /\ \A q \in Tokens : core'[q].user = core[q].user /\ core[q].until <= core'[q].until
    <3>1. core' = [core EXCEPT ![t].revoked = TRUE]
      BY <1>5 DEF Revoke
    <3>2. [core[t] EXCEPT !.revoked = TRUE] \in CoreEntry
      BY <2>1 DEF CoreEntry
    <3>3. core \in [Tokens -> CoreEntry]
      BY <1>t DEF TypeOK
    <3>4. core' = [core EXCEPT ![t] = [core[t] EXCEPT !.revoked = TRUE]]
      BY <3>1, <3>3
    <3>5. core' \in [Tokens -> CoreEntry]
      BY <3>2, <3>3, <3>4
    <3>6. ASSUME NEW q \in Tokens
          PROVE  core'[q].user = core[q].user /\ core[q].until <= core'[q].until
      BY <2>1, <3>3, <3>4 DEF CoreEntry
    <3> QED
      BY <3>5, <3>6
  <2> QED
    BY <1>5, <2>2, <1>c DEF Revoke
<1>6. ASSUME NEW t \in Tokens, Prolong(t)
      PROVE  GateInv'
  <2>1. \A q \in Tokens : core[q] \in CoreEntry /\ core[q].until \in Nat
    BY <1>t DEF TypeOK, CoreEntry
  <2>2. PICK u \in core[t].until + 1 .. MaxTime : core' = [core EXCEPT ![t].until = u]
    BY <1>6 DEF Prolong
  <2>3. u \in Nat /\ core[t].until <= u
    BY <2>1, <2>2, BoundsAreNatural
  <2>4. core' \in [Tokens -> CoreEntry]
        /\ \A q \in Tokens : core'[q].user = core[q].user /\ core[q].until <= core'[q].until
    BY <1>t, <2>1, <2>2, <2>3 DEF TypeOK, CoreEntry
  <2> QED
    BY <1>6, <2>4, <1>c DEF Prolong
<1>7. CASE Tick
  <2>1. clock \in Nat /\ clock' = clock + 1 /\ UNCHANGED <<core, sessions, nextId, reqs, cleanup, served>>
    BY <1>7, <1>t DEF Tick, TypeOK
  <2>2. ASSUME NEW q \in Requests PROVE RequestOK(reqs[q])'
    <3>1. RequestOK(reqs[q]) /\ reqs[q].now \in Nat
      BY <1>t DEF TypeOK, Request
    <3>2. reqs[q].now <= clock'
      BY <2>1, <3>1 DEF RequestOK
    <3> QED
      BY <2>1, <3>1, <3>2 DEF RequestOK
  <2> QED
    BY <1>t, <2>1, <2>2 DEF GateInv, TypeOK, SessionsWithinCore, Cached
<1>8. CASE UNCHANGED vars
  <2>1. \A q \in Requests : RequestOK(reqs[q])'
    BY <1>8, <1>t DEF vars, RequestOK
  <2> QED
    BY <1>8, <1>t, <2>1 DEF vars, GateInv, TypeOK, SessionsWithinCore, Cached
<1> QED
  BY <1>1, <1>2, <1>3, <1>4, <1>5, <1>6, <1>7, <1>8 DEF Next

LEMMA GateInvAlways == Spec => []GateInv
<1>1. Init => GateInv
  BY InitGate
<1>2. GateInv /\ [Next]_vars => GateInv'
  BY NextGate
<1> QED
  BY <1>1, <1>2, PTL DEF Spec

-------------------------------------------------------------------------------

(* Every variable keeps its type: the table never holds half a row.        *)
THEOREM TypeCorrect == Spec => []TypeOK
<1>1. GateInv => TypeOK
  BY DEF GateInv
<1> QED
  BY <1>1, GateInvAlways, PTL

(* A cached session never runs longer than the core has said for its token *)
(* and never names another user, however lookups, late save()s, the purge, *)
(* a prolonged or a revoked token interleave.                              *)
THEOREM SessionsWithinCoreAlways == Spec => []SessionsWithinCore
<1>1. GateInv => SessionsWithinCore
  BY DEF GateInv
<1> QED
  BY <1>1, GateInvAlways, PTL

(* Nobody is let in who arrived after the expiry the core has given, or as *)
(* another user than the core knows, whatever happened between the lookup  *)
(* and the answer.                                                         *)
THEOREM AcceptedWithinCoreAlways == Spec => []AcceptedWithinCore
<1>1. GateInv => AcceptedWithinCore
  BY DEF GateInv, RequestOK, AcceptedWithinCore
<1> QED
  BY <1>1, GateInvAlways, PTL

===============================================================================
