--------------------------- MODULE SellerGateProofs ---------------------------
(***************************************************************************)
(* Further theorems about SellerAuth: what may be removed from the table,  *)
(* what a request that is alone with its token may count on, and that      *)
(* SellerAuth implements SellerGate.                                       *)
(***************************************************************************)
EXTENDS SellerAuthProofs

(* The rows of token t, in the table or as copies that requests have loaded. *)
HoldsCopy(r, t) == reqs[r].token = t /\ reqs[r].pc \in {"delete", "touch", "update", "reinsert"}
RowsOf(t) ==
  {reqs[r].row : r \in {q \in Requests : HoldsCopy(q, t)}}
    \union (IF Cached(t) THEN {sessions[t]} ELSE {})

(* An id stands for one session: its copies have the expiry and the user   *)
(* of the row, and no later row gets the id again.                         *)
SameSession(x, y) == x.id = y.id /\ x.until = y.until /\ x.user = y.user
CopiesInv ==
  /\ \A t \in Tokens : \A x, y \in RowsOf(t) : x.id = y.id => SameSession(x, y)
  /\ \A t \in Tokens : \A x \in RowsOf(t) : x.id # Absent /\ x.id < nextId
  /\ \A r \in Requests : At(r, "delete") => reqs[r].row.until <= reqs[r].now
  /\ cleanup.cutoff <= clock

(* What a request knows of the table while it has its token to itself.     *)
AloneOK(r) ==
  LET t == reqs[r].token IN
  /\ \A q \in Requests \ {r} : ~Shows(q, t)
  /\ reqs[r].pc \in {"askCore", "coreAnswer", "insert", "reinsert"} => ~Cached(t)
  /\ reqs[r].pc \in {"delete", "touch", "update"} /\ Cached(t) => sessions[t].id = reqs[r].row.id
  /\ reqs[r].pc \in {"touch", "update"} /\ Cached(t) =>
       sessions[t].lastUsed + Throttle <= reqs[r].row.lastUsed
Alone(r) == ~At(r, "idle") /\ ~reqs[r].met
AloneInv == NoErrors /\ \A r \in Requests : Alone(r) => AloneOK(r)

(* Who waits has no user yet; who does not is idle.                        *)
WaitingInv ==
  \A r \in Requests :
    /\ At(r, "idle") <=> reqs[r].verdict # "waiting"
    /\ reqs[r].verdict # "accepted" => reqs[r].user = Absent
    /\ At(r, "coreAnswer") \/ At(r, "insert") => reqs[r].row.user \in Sellers

SessionInv == GateInv /\ CopiesInv /\ AloneInv /\ WaitingInv

-------------------------------------------------------------------------------
(* What a step of a request does, part by part                             *)

Moves(r, pc, row) ==
  /\ reqs'[r].pc = pc /\ reqs'[r].row = row
  /\ reqs'[r].verdict = reqs[r].verdict /\ reqs'[r].user = reqs[r].user
Ends(r, verdict, user) ==
  reqs'[r].pc = "idle" /\ reqs'[r].verdict = verdict /\ reqs'[r].user = user

(* Only slot r and the row of its token are touched. *)
OneSlot(r) ==
  /\ \A q \in Requests \ {r} : reqs'[q] = reqs[q]
  /\ reqs'[r].token = reqs[r].token /\ reqs'[r].now = reqs[r].now /\ reqs'[r].met = reqs[r].met
OneRow(r, x) ==
  /\ sessions'[reqs[r].token] = x
  /\ \A t \in Tokens \ {reqs[r].token} : sessions'[t] = sessions[t]
Around == UNCHANGED <<core, clock, cleanup, served>>

Effect(r, t, row, copy) ==
  \/ /\ At(r, "lookup") /\ OneRow(r, row) /\ UNCHANGED nextId
     /\ \/ Cached(t) /\ IsLive(row, reqs[r].now) /\ IsDue(row, reqs[r].now)
             /\ Moves(r, "touch", Used(row, reqs[r].now))
        \/ Cached(t) /\ IsLive(row, reqs[r].now) /\ Ends(r, "accepted", row.user)
        \/ Cached(t) /\ ~IsLive(row, reqs[r].now) /\ Moves(r, "delete", row)
        \/ ~Cached(t) /\ Moves(r, "askCore", copy)
  \/ /\ At(r, "touch") /\ OneRow(r, row) /\ UNCHANGED nextId
     /\ \/ ~StillThere(r) /\ Moves(r, "reinsert", copy)
        \/ StillThere(r) /\ Moves(r, "update", copy)
        \/ Ends(r, "accepted", copy.user)
  \/ /\ At(r, "update") /\ UNCHANGED nextId /\ Ends(r, "accepted", copy.user)
     /\ OneRow(r, IF StillThere(r) THEN copy ELSE row)
  \/ /\ At(r, "reinsert") /\ UNCHANGED nextId
     /\ \/ ~Cached(t) /\ OneRow(r, copy) /\ Ends(r, "accepted", copy.user)
        \/ Cached(t) /\ OneRow(r, row) /\ Ends(r, "error", Absent)
  \/ /\ At(r, "delete") /\ UNCHANGED nextId /\ Moves(r, "askCore", NoRow)
     /\ OneRow(r, IF StillThere(r) THEN NoRow ELSE row)
  \/ /\ At(r, "askCore") /\ OneRow(r, row) /\ UNCHANGED nextId
     /\ \/ /\ ~core[t].revoked
           /\ Moves(r, "coreAnswer", [NoRow EXCEPT !.user = core[t].user, !.until = core[t].until])
        \/ Ends(r, "unauthorized", Absent)
        \/ Ends(r, "unavailable", Absent)
  \/ /\ At(r, "coreAnswer") /\ OneRow(r, row) /\ UNCHANGED nextId
     /\ Ends(r, "unauthorized", Absent) \/ Moves(r, "insert", copy)
  \/ /\ At(r, "insert") /\ nextId' = nextId + 1
     /\ \/ /\ ~Cached(t) /\ Ends(r, "accepted", copy.user)
           /\ OneRow(r, [copy EXCEPT !.id = nextId, !.lastUsed = reqs[r].now])
        \/ Cached(t) /\ OneRow(r, row) /\ Ends(r, "error", Absent)

LEMMA StepEffect ==
  ASSUME GateInv, NEW r \in Requests, Step(r)
  PROVE  /\ reqs[r].token \in Tokens /\ ~At(r, "idle") /\ OneSlot(r) /\ Around
         /\ Effect(r, reqs[r].token, sessions[reqs[r].token], reqs[r].row)
<1> DEFINE t == reqs[r].token
           row == sessions[t]
           copy == reqs[r].row
<1>t. /\ reqs \in [Requests -> Request] /\ reqs[r] \in Request /\ RequestOK(reqs[r])
      /\ sessions \in [Tokens -> Row]
  BY DEF GateInv, TypeOK
<1>1. ~At(r, "idle") /\ Around
  BY DEF Step, Lookup, Touch, UpdateLastUsed, Reinsert, DeleteExpired, AskCore, CoreAnswer,
         InsertSession, At, Around
<1>2. t \in Tokens
  BY <1>t, <1>1 DEF RequestOK, At
<1>a. ASSUME NEW verdict, NEW user, Answer(r, verdict, user)
      PROVE  Ends(r, verdict, user) /\ OneSlot(r)
  BY <1>t, <1>a DEF Answer, Ends, OneSlot, Request
<1>g. ASSUME NEW pc, Goto(r, pc)
      PROVE  Moves(r, pc, copy) /\ OneSlot(r)
  BY <1>t, <1>g DEF Goto, Moves, OneSlot, Request
<1>m. ASSUME NEW pc, NEW x, reqs' = [reqs EXCEPT ![r].pc = pc, ![r].row = x]
      PROVE  Moves(r, pc, x) /\ OneSlot(r)
  BY <1>t, <1>m DEF Moves, OneSlot, Request
<1>u. UNCHANGED sessions => OneRow(r, row)
  BY DEF OneRow
<1>w. ASSUME NEW x, sessions' = [sessions EXCEPT ![t] = x]
      PROVE  OneRow(r, x)
  BY <1>t, <1>2, <1>w DEF OneRow
<1>3. CASE Lookup(r)
  BY <1>1, <1>2, <1>3, <1>a, <1>g, <1>m, <1>u DEF Lookup, Effect
<1>4. CASE Touch(r)
  BY <1>1, <1>2, <1>4, <1>a, <1>g, <1>u DEF Touch, LetIn, Effect
<1>5. CASE UpdateLastUsed(r)
  BY <1>1, <1>2, <1>5, <1>a, <1>u, <1>w DEF UpdateLastUsed, LetIn, Effect
<1>6. CASE Reinsert(r)
  BY <1>1, <1>2, <1>6, <1>a, <1>u, <1>w DEF Reinsert, LetIn, Refuse, Effect
<1>7. CASE DeleteExpired(r)
  BY <1>1, <1>2, <1>7, <1>m, <1>u, <1>w DEF DeleteExpired, Effect
<1>8. CASE AskCore(r)
  BY <1>1, <1>2, <1>8, <1>a, <1>m, <1>u DEF AskCore, Refuse, Effect
<1>9. CASE CoreAnswer(r)
  BY <1>1, <1>2, <1>9, <1>a, <1>g, <1>u DEF CoreAnswer, Refuse, Effect
<1>10. CASE InsertSession(r)
  BY <1>1, <1>2, <1>10, <1>a, <1>u, <1>w DEF InsertSession, LetIn, Refuse, Effect
<1> QED
  BY <1>3, <1>4, <1>5, <1>6, <1>7, <1>8, <1>9, <1>10 DEF Step

-------------------------------------------------------------------------------
(* Rows and their copies                                                   *)

LEMMA InitCopies == Init => CopiesInv
<1> SUFFICES ASSUME Init PROVE CopiesInv
  OBVIOUS
<1>1. \A t \in Tokens : RowsOf(t) = {}
  BY DEF Init, RowsOf, HoldsCopy, Vacant, Cached
<1>2. \A r \in Requests : ~At(r, "delete")
  BY DEF Init, At, Vacant
<1> QED
  BY <1>1, <1>2 DEF Init, CopiesInv, Absent

LEMMA RowTypes ==
  ASSUME GateInv, NEW t \in Tokens, NEW x \in RowsOf(t)
  PROVE  x \in Row /\ x.id \in Nat
BY DEF GateInv, TypeOK, RowsOf, Request, Row

(* It is enough that each row has come from one of the same session, or is *)
(* the one just inserted with a fresh id.                                  *)
LEMMA CopiesKept ==
  ASSUME GateInv, CopiesInv, nextId' \in Nat, nextId <= nextId', cleanup'.cutoff <= clock',
         \A r \in Requests : At(r, "delete")' => reqs'[r].row.until <= reqs'[r].now,
         \A t \in Tokens : \A x \in RowsOf(t)' :
           \/ \E y \in RowsOf(t) : SameSession(x, y)
           \/ x = sessions'[t] /\ x.id = nextId /\ nextId < nextId'
  PROVE  CopiesInv'
<1>1. nextId \in Nat /\ nextId # Absent
  BY DEF GateInv, TypeOK
<1>2. ASSUME NEW t \in Tokens, NEW x \in RowsOf(t)'
      PROVE  x.id # Absent /\ x.id < nextId'
  <2>1. CASE \E y \in RowsOf(t) : SameSession(x, y)
    BY <1>1, <2>1, RowTypes DEF CopiesInv, SameSession
  <2> QED
    BY <1>1, <1>2, <2>1
<1>3. ASSUME NEW t \in Tokens, NEW x \in RowsOf(t)', NEW y \in RowsOf(t)', x.id = y.id
      PROVE  SameSession(x, y)
  <2>1. CASE \E z \in RowsOf(t) : SameSession(x, z)
    <3>1. y.id # nextId
      BY <1>1, <1>3, <2>1, RowTypes DEF CopiesInv, SameSession
    <3>2. \E z \in RowsOf(t) : SameSession(y, z)
      BY <1>3, <3>1
    <3>3. PICK z \in RowsOf(t), w \in RowsOf(t) : SameSession(x, z) /\ SameSession(y, w)
      BY <2>1, <3>2
    <3>4. z.id = w.id
      BY <1>3, <3>3 DEF SameSession
    <3>5. SameSession(z, w)
      BY <3>4 DEF CopiesInv
    <3> QED
      BY <3>3, <3>5 DEF SameSession
  <2>2. CASE \E z \in RowsOf(t) : SameSession(y, z)
    <3>1. x.id # nextId
      BY <1>1, <1>3, <2>2, RowTypes DEF CopiesInv, SameSession
    <3>2. PICK z \in RowsOf(t), w \in RowsOf(t) : SameSession(x, z) /\ SameSession(y, w)
      BY <1>3, <2>2, <3>1
    <3>3. z.id = w.id
      BY <1>3, <3>2 DEF SameSession
    <3>4. SameSession(z, w)
      BY <3>3 DEF CopiesInv
    <3> QED
      BY <3>2, <3>4 DEF SameSession
  <2> QED
    BY <1>3, <2>1, <2>2 DEF SameSession
<1> QED
  BY <1>2, <1>3 DEF CopiesInv, SameSession

LEMMA StepCopies ==
  ASSUME GateInv, GateInv', CopiesInv, NEW r \in Requests, Step(r)
  PROVE  CopiesInv'
<1> PICK t, row, copy :
      t \in Tokens /\ t = reqs[r].token /\ row = sessions[t] /\ copy = reqs[r].row
  BY StepEffect
<1>1. OneSlot(r) /\ Around /\ Effect(r, t, row, copy) /\ ~At(r, "idle")
  BY StepEffect
<1>2. nextId \in Nat /\ nextId' \in Nat /\ nextId <= nextId' /\ cleanup'.cutoff <= clock'
  BY <1>1 DEF GateInv, TypeOK, Effect, Around, CopiesInv
<1>3. /\ row \in Row /\ copy \in Row /\ reqs[r].now \in Nat
  BY DEF GateInv, TypeOK, Request
<1>4. ASSUME NEW q \in Requests, At(q, "delete")'
      PROVE  reqs'[q].row.until <= reqs'[q].now
  <2>1. CASE q # r
    BY <1>1, <1>4, <2>1 DEF OneSlot, CopiesInv, At
  <2>2. CASE q = r
    <3>1. ~IsLive(row, reqs[r].now) /\ reqs'[r].row = row
      BY <1>1, <1>4, <2>2 DEF Effect, Moves, Ends, At
    <3> QED
      BY <1>1, <1>3, <2>2, <3>1 DEF OneSlot, IsLive, Row
  <2> QED
    BY <2>1, <2>2
<1>5. ASSUME NEW u \in Tokens, u # t
      PROVE  RowsOf(u)' = RowsOf(u)
  <2>1. sessions'[u] = sessions[u]
    BY <1>1, <1>5 DEF Effect, OneRow
  <2>2. \A q \in Requests : HoldsCopy(q, u)' <=> HoldsCopy(q, u)
    BY <1>1, <1>5 DEF OneSlot, HoldsCopy
  <2>3. \A q \in Requests : HoldsCopy(q, u) => reqs'[q].row = reqs[q].row
    BY <1>1, <1>5 DEF OneSlot, HoldsCopy
  <2> QED
    BY <2>1, <2>2, <2>3 DEF RowsOf, Cached
<1>6. ASSUME NEW x \in RowsOf(t)'
      PROVE  \/ \E y \in RowsOf(t) : SameSession(x, y)
             \/ x = sessions'[t] /\ x.id = nextId /\ nextId < nextId'
  <2>1. (Cached(t)' /\ x = sessions'[t]) \/ \E q \in Requests : HoldsCopy(q, t)' /\ x = reqs'[q].row
    BY <1>6 DEF RowsOf
  <2>2. Cached(t) => row \in RowsOf(t)
    BY DEF RowsOf
  <2>3. \A q \in Requests : HoldsCopy(q, t) => reqs[q].row \in RowsOf(t)
    BY DEF RowsOf
  <2>4. ASSUME NEW q \in Requests, q # r, HoldsCopy(q, t)', x = reqs'[q].row
        PROVE  x \in RowsOf(t)
    BY <1>1, <2>3, <2>4 DEF OneSlot, HoldsCopy
  <2>5. ASSUME HoldsCopy(r, t)', x = reqs'[r].row
        PROVE  \E y \in RowsOf(t) : SameSession(x, y)
    <3>1. \/ Cached(t) /\ x \in {row, Used(row, reqs[r].now)}
          \/ HoldsCopy(r, t) /\ x = copy
      BY <1>1, <2>5 DEF Effect, Moves, Ends, HoldsCopy, At
    <3>2. SameSession(Used(row, reqs[r].now), row)
      BY <1>3 DEF SameSession, Used, Row
    <3> QED
      BY <2>2, <2>3, <3>1, <3>2 DEF SameSession
  <2>6. ASSUME Cached(t)', x = sessions'[t]
        PROVE  \/ \E y \in RowsOf(t) : SameSession(x, y)
               \/ x = sessions'[t] /\ x.id = nextId /\ nextId < nextId'
    <3>1. \/ Cached(t) /\ x = row
          \/ HoldsCopy(r, t) /\ x = copy
          \/ x = [copy EXCEPT !.id = nextId, !.lastUsed = reqs[r].now] /\ nextId' = nextId + 1
      BY <1>1, <2>6 DEF Effect, OneRow, HoldsCopy, At, Cached
    <3>2. [copy EXCEPT !.id = nextId, !.lastUsed = reqs[r].now].id = nextId
      BY <1>3 DEF Row
    <3>3. CASE Cached(t) /\ x = row
      BY <2>2, <3>3 DEF SameSession
    <3>4. CASE HoldsCopy(r, t) /\ x = copy
      BY <2>3, <3>4 DEF SameSession
    <3>5. CASE x.id = nextId /\ nextId' = nextId + 1
      BY <1>2, <2>6, <3>5
    <3> QED
      BY <3>1, <3>2, <3>3, <3>4, <3>5
  <2> QED
    BY <2>1, <2>4, <2>5, <2>6 DEF SameSession
<1>7. ASSUME NEW u \in Tokens, NEW x \in RowsOf(u)'
      PROVE  \/ \E y \in RowsOf(u) : SameSession(x, y)
             \/ x = sessions'[u] /\ x.id = nextId /\ nextId < nextId'
  BY <1>5, <1>6, <1>7 DEF SameSession
<1> QED
  BY <1>2, <1>4, <1>7, CopiesKept

LEMMA NextCopies ==
  ASSUME GateInv, GateInv', CopiesInv, [Next]_vars
  PROVE  CopiesInv'
<1>t. /\ TypeOK /\ reqs \in [Requests -> Request] /\ clock \in Nat /\ nextId \in Nat
      /\ sessions \in [Tokens -> Row]
  BY DEF GateInv, TypeOK
(* Rows may go and none is new. *)
<1>f. ASSUME UNCHANGED nextId, cleanup'.cutoff <= clock',
             \A r \in Requests : At(r, "delete")' => At(r, "delete") /\ reqs'[r].row = reqs[r].row
                                                       /\ reqs'[r].now = reqs[r].now,
             \A t \in Tokens : RowsOf(t)' \subseteq RowsOf(t)
      PROVE  CopiesInv'
  <2>1. \A t \in Tokens : \A x \in RowsOf(t)' : \E y \in RowsOf(t) : SameSession(x, y)
    BY <1>f DEF SameSession
  <2>2. \A r \in Requests : At(r, "delete")' => reqs'[r].row.until <= reqs'[r].now
    BY <1>f DEF CopiesInv
  <2> QED
    BY <1>f, <1>t, <2>1, <2>2, CopiesKept
<1>1. ASSUME NEW r \in Requests, Step(r)
      PROVE  CopiesInv'
  BY <1>1, StepCopies
<1>2. ASSUME NEW r \in Requests, Abort(r)
      PROVE  CopiesInv'
  <2>1. /\ UNCHANGED <<sessions, nextId, cleanup, clock>> /\ reqs'[r].pc = "idle"
        /\ \A q \in Requests \ {r} : reqs'[q] = reqs[q]
    BY <1>2, <1>t DEF Abort, Refuse, Answer
  <2>2. \A t \in Tokens : RowsOf(t)' \subseteq RowsOf(t)
    BY <2>1 DEF RowsOf, HoldsCopy, Cached
  <2> QED
    BY <1>f, <2>1, <2>2 DEF At, CopiesInv
<1>3. ASSUME NEW r \in Requests, NEW u \in Tokens, Arrive(r, u)
      PROVE  CopiesInv'
  <2>1. /\ UNCHANGED <<sessions, nextId, cleanup, clock>> /\ reqs'[r].pc = "lookup"
        /\ \A q \in Requests \ {r} : /\ reqs'[q].pc = reqs[q].pc /\ reqs'[q].token = reqs[q].token
                                     /\ reqs'[q].row = reqs[q].row /\ reqs'[q].now = reqs[q].now
    BY <1>3, <1>t DEF Arrive, Vacant, Request
  <2>2. \A t \in Tokens : RowsOf(t)' \subseteq RowsOf(t)
    BY <2>1 DEF RowsOf, HoldsCopy, Cached
  <2> QED
    BY <1>f, <2>1, <2>2 DEF At, CopiesInv
<1>4. CASE Cleanup
  <2>1. UNCHANGED <<nextId, reqs, clock>>
    BY <1>4 DEF Cleanup, CleanupStarts, CleanExpiredTokens, PurgeExpiredSessions, PurgeFails
  <2>2. cleanup'.cutoff <= clock'
    BY <1>4, <1>t DEF Cleanup, CleanupStarts, CleanExpiredTokens, PurgeExpiredSessions, PurgeFails,
         CopiesInv, TypeOK, Absent
  <2>3. \A t \in Tokens : sessions'[t] \in {sessions[t], NoRow}
    BY <1>4 DEF Cleanup, CleanupStarts, CleanExpiredTokens, PurgeExpiredSessions, PurgeFails
  <2>4. \A t \in Tokens : RowsOf(t)' \subseteq RowsOf(t)
    BY <2>1, <2>3 DEF RowsOf, HoldsCopy, Cached
  <2> QED
    BY <1>f, <2>1, <2>2, <2>4 DEF At
<1>5. CASE UNCHANGED <<sessions, nextId, reqs, cleanup>> /\ clock <= clock'
  <2>1. \A t \in Tokens : RowsOf(t)' \subseteq RowsOf(t)
    BY <1>5 DEF RowsOf, HoldsCopy, Cached
  <2>2. cleanup'.cutoff <= clock'
    <3>1. cleanup.cutoff \in Nat /\ clock' \in Nat /\ cleanup.cutoff <= clock
      BY DEF GateInv, TypeOK, CopiesInv
    <3> QED
      BY <1>5, <1>t, <3>1
  <2> QED
    BY <1>5, <1>f, <2>1, <2>2 DEF At
<1>6. (\E t \in Tokens : Revoke(t) \/ Prolong(t)) \/ Tick \/ UNCHANGED vars
        => UNCHANGED <<sessions, nextId, reqs, cleanup>> /\ clock <= clock'
  BY <1>t DEF Revoke, Prolong, Tick, vars
<1> QED
  BY <1>1, <1>2, <1>3, <1>4, <1>5, <1>6 DEF Next

-------------------------------------------------------------------------------
(* Requests alone with their token                                         *)

LEMMA InitAlone == Init => AloneInv /\ WaitingInv
BY ConstantTypes DEF Init, AloneInv, WaitingInv, NoErrors, Alone, At, Vacant, Absent

LEMMA StepAlone ==
  ASSUME GateInv, AloneInv, NEW r \in Requests, Step(r)
  PROVE  AloneInv'
<1> PICK t, row, copy :
      t \in Tokens /\ t = reqs[r].token /\ row = sessions[t] /\ copy = reqs[r].row
  BY StepEffect
<1>1. OneSlot(r) /\ Around /\ Effect(r, t, row, copy) /\ ~At(r, "idle")
  BY StepEffect
<1>2. /\ row \in Row /\ copy \in Row /\ reqs[r].now \in Nat
  BY DEF GateInv, TypeOK, Request
<1>3. Alone(r) => AloneOK(r)
  BY DEF AloneInv
<1>4. NoErrors'
  <2>1. ASSUME reqs'[r].verdict = "error", ~reqs'[r].met
        PROVE  FALSE
    <3>1. Alone(r)
      BY <1>1, <2>1 DEF Alone, OneSlot
    <3>2. CASE At(r, "reinsert") \/ At(r, "insert")
      BY <1>1, <1>3, <2>1, <3>1, <3>2 DEF AloneOK, Effect, Ends, At
    <3>3. CASE ~(At(r, "reinsert") \/ At(r, "insert"))
      <4>1. reqs[r].verdict = "error"
        BY <1>1, <2>1, <3>3 DEF Effect, Ends, Moves
      <4> QED
        BY <1>1, <2>1, <4>1 DEF AloneInv, NoErrors, OneSlot
    <3> QED
      BY <3>2, <3>3
  <2> QED
    BY <1>1, <2>1 DEF AloneInv, NoErrors, OneSlot
<1>5. ASSUME NEW q \in Requests, Alone(q)', q # r
      PROVE  AloneOK(q)'
  <2>1. Alone(q) /\ AloneOK(q) /\ reqs'[q] = reqs[q]
    BY <1>1, <1>5 DEF OneSlot, Alone, At, AloneInv
  <2>2. reqs[q].token # t
    BY <1>1, <1>5, <2>1 DEF AloneOK, Shows
  <2>3. reqs[q].token \in Tokens
    BY <2>1 DEF Alone, At, GateInv, RequestOK
  <2>4. sessions'[reqs[q].token] = sessions[reqs[q].token]
    BY <1>1, <2>2, <2>3 DEF Effect, OneRow
  <2>5. \A o \in Requests \ {q} : ~Shows(o, reqs[q].token)'
    BY <1>1, <2>1, <2>2 DEF AloneOK, OneSlot, Shows, At
  <2> QED
    BY <2>1, <2>4, <2>5 DEF AloneOK, Cached
<1>6. ASSUME Alone(r)'
      PROVE  AloneOK(r)'
  <2>1. Alone(r) /\ AloneOK(r) /\ reqs'[r].token = t
    BY <1>1, <1>3, <1>6 DEF OneSlot, Alone
  <2>2. \A o \in Requests \ {r} : ~Shows(o, t)'
    BY <1>1, <2>1 DEF AloneOK, OneSlot, Shows, At
  <2>3. reqs'[r].pc \in {"askCore", "coreAnswer", "insert", "reinsert"} => ~Cached(t)'
    BY <1>1, <2>1 DEF AloneOK, Effect, Moves, Ends, OneRow, Cached, StillThere, At
  <2>4. reqs'[r].pc \in {"delete", "touch", "update"} /\ Cached(t)' =>
          sessions'[t].id = reqs'[r].row.id
    <3>1. Used(row, reqs[r].now).id = row.id
      BY <1>2 DEF Used, Row
    <3> QED
      BY <1>1, <2>1, <3>1 DEF AloneOK, Effect, Moves, Ends, OneRow, Cached, At
  <2>5. reqs'[r].pc \in {"touch", "update"} /\ Cached(t)' =>
          sessions'[t].lastUsed + Throttle <= reqs'[r].row.lastUsed
    <3>1. Used(row, reqs[r].now).lastUsed = reqs[r].now
      BY <1>2 DEF Used, Row
    <3>2. IsDue(row, reqs[r].now) => row.lastUsed + Throttle <= reqs[r].now
      BY <1>2, BoundsAreNatural DEF IsDue, Row
    <3> QED
      BY <1>1, <2>1, <3>1, <3>2 DEF AloneOK, Effect, Moves, Ends, OneRow, Cached, At
  <2> QED
    BY <2>1, <2>2, <2>3, <2>4, <2>5 DEF AloneOK
<1> QED
  BY <1>4, <1>5, <1>6 DEF AloneInv

LEMMA NextAlone ==
  ASSUME GateInv, AloneInv, [Next]_vars
  PROVE  AloneInv'
<1>t. reqs \in [Requests -> Request] /\ sessions \in [Tokens -> Row]
  BY DEF GateInv, TypeOK
(* Rows may go and slots may be given up. *)
<1>f. ASSUME \A t \in Tokens : sessions'[t] \in {sessions[t], NoRow},
             \A q \in Requests : reqs'[q] = reqs[q] \/ (reqs'[q].pc = "idle" /\ reqs'[q].verdict # "error")
      PROVE  AloneInv'
  <2>1. ASSUME NEW q \in Requests, Alone(q)'
        PROVE  AloneOK(q)'
    <3>1. Alone(q) /\ AloneOK(q) /\ reqs'[q] = reqs[q] /\ reqs[q].token \in Tokens
      BY <1>f, <2>1 DEF Alone, At, AloneInv, GateInv, RequestOK
    <3>2. \A o \in Requests \ {q} : ~Shows(o, reqs[q].token)'
      BY <1>f, <3>1 DEF AloneOK, Shows, At
    <3> QED
      BY <1>f, <3>1, <3>2 DEF AloneOK, Cached
  <2> QED
    BY <1>f, <2>1 DEF AloneInv, NoErrors
<1>1. ASSUME NEW r \in Requests, Step(r)
      PROVE  AloneInv'
  BY <1>1, StepAlone
<1>2. ASSUME NEW r \in Requests, Abort(r)
      PROVE  AloneInv'
  BY <1>2, <1>f, <1>t DEF Abort, Refuse, Answer
<1>3. ASSUME NEW r \in Requests, NEW u \in Tokens, Arrive(r, u)
      PROVE  AloneInv'
  <2>1. /\ UNCHANGED sessions /\ reqs'[r].pc = "lookup" /\ reqs'[r].token = u
        /\ reqs'[r].verdict = "waiting" /\ (reqs'[r].met <=> \E o \in Requests : Shows(o, u))
        /\ \A q \in Requests \ {r} :
             /\ reqs'[q].pc = reqs[q].pc /\ reqs'[q].token = reqs[q].token
             /\ reqs'[q].row = reqs[q].row /\ reqs'[q].verdict = reqs[q].verdict
             /\ reqs'[q].met <=> reqs[q].met \/ Shows(q, u)
    <3>1. UNCHANGED sessions /\ reqs' = [q \in Requests |->
             IF q = r THEN [Vacant EXCEPT !.pc = "lookup", !.token = u, !.now = clock,
                              !.verdict = "waiting", !.met = \E o \in Requests : Shows(o, u)]
             ELSE IF Shows(q, u) THEN [reqs[q] EXCEPT !.met = TRUE] ELSE reqs[q]]
      BY <1>3 DEF Arrive
    <3>2. /\ reqs'[r].pc = "lookup" /\ reqs'[r].token = u /\ reqs'[r].verdict = "waiting"
          /\ (reqs'[r].met <=> \E o \in Requests : Shows(o, u))
      BY <3>1 DEF Vacant
    <3>3. ASSUME NEW q \in Requests \ {r}
          PROVE  /\ reqs'[q].pc = reqs[q].pc /\ reqs'[q].token = reqs[q].token
                 /\ reqs'[q].row = reqs[q].row /\ reqs'[q].verdict = reqs[q].verdict
                 /\ reqs'[q].met <=> reqs[q].met \/ Shows(q, u)
      BY <1>t, <3>1 DEF Request
    <3> QED
      BY <3>1, <3>2, <3>3
  <2>2. ASSUME NEW q \in Requests, Alone(q)', q # r
        PROVE  AloneOK(q)'
    <3>1. Alone(q) /\ AloneOK(q) /\ reqs[q].token # u
      BY <2>1, <2>2 DEF Alone, At, AloneInv, Shows
    <3>2. \A o \in Requests \ {q} : ~Shows(o, reqs[q].token)'
      BY <2>1, <2>2, <3>1 DEF AloneOK, Shows, At
    <3> QED
      BY <2>1, <2>2, <3>1, <3>2 DEF AloneOK, Cached
  <2>3. ASSUME Alone(r)'
        PROVE  AloneOK(r)'
    BY <2>1, <2>3 DEF Alone, AloneOK, Shows, At
  <2>4. NoErrors'
    BY <2>1 DEF AloneInv, NoErrors
  <2> QED
    BY <2>2, <2>3, <2>4 DEF AloneInv
<1>4. CASE Cleanup
  BY <1>4, <1>f DEF Cleanup, CleanupStarts, CleanExpiredTokens, PurgeExpiredSessions, PurgeFails
<1>5. CASE (\E t \in Tokens : Revoke(t) \/ Prolong(t)) \/ Tick \/ UNCHANGED vars
  BY <1>5, <1>f DEF Revoke, Prolong, Tick, vars
<1> QED
  BY <1>1, <1>2, <1>3, <1>4, <1>5 DEF Next

LEMMA NextWaiting ==
  ASSUME GateInv, WaitingInv, [Next]_vars
  PROVE  WaitingInv'
<1>t. /\ reqs \in [Requests -> Request] /\ sessions \in [Tokens -> Row]
      /\ core \in [Tokens -> CoreEntry]
  BY DEF GateInv, TypeOK
<1>1. ASSUME NEW r \in Requests, Step(r)
      PROVE  WaitingInv'
  <2> PICK t, row, copy :
        t \in Tokens /\ t = reqs[r].token /\ row = sessions[t] /\ copy = reqs[r].row
    BY <1>1, StepEffect
  <2>1. OneSlot(r) /\ Around /\ Effect(r, t, row, copy) /\ ~At(r, "idle")
    BY <1>1, StepEffect
  <2>2. reqs[r].verdict = "waiting" /\ reqs[r].user = Absent
    BY <2>1 DEF WaitingInv
  <2>3. At(r, "idle")' <=> reqs'[r].verdict # "waiting"
    BY <2>1, <2>2 DEF Effect, Moves, Ends, At
  <2>4. reqs'[r].verdict # "accepted" => reqs'[r].user = Absent
    BY <2>1, <2>2 DEF Effect, Moves, Ends
  <2>5. (At(r, "coreAnswer") \/ At(r, "insert"))' => reqs'[r].row.user \in Sellers
    <3>1. [NoRow EXCEPT !.user = core[t].user, !.until = core[t].until].user = core[t].user
      BY DEF NoRow
    <3>2. core[t].user \in Sellers
      BY <1>t DEF CoreEntry
    <3> QED
      BY <2>1, <3>1, <3>2 DEF Effect, Moves, Ends, At, WaitingInv
  <2> QED
    BY <2>1, <2>3, <2>4, <2>5 DEF WaitingInv, OneSlot, At
<1>2. ASSUME NEW r \in Requests, Abort(r)
      PROVE  WaitingInv'
  <2>1. /\ \A q \in Requests \ {r} : reqs'[q] = reqs[q]
        /\ reqs'[r].pc = "idle" /\ reqs'[r].verdict = "aborted" /\ reqs'[r].user = Absent
    BY <1>2, <1>t DEF Abort, Refuse, Answer, Request
  <2> QED
    BY <2>1 DEF WaitingInv, At
<1>3. ASSUME NEW r \in Requests, NEW u \in Tokens, Arrive(r, u)
      PROVE  WaitingInv'
  <2>1. /\ reqs'[r].pc = "lookup" /\ reqs'[r].verdict = "waiting" /\ reqs'[r].user = Absent
        /\ \A q \in Requests \ {r} :
             /\ reqs'[q].pc = reqs[q].pc /\ reqs'[q].row = reqs[q].row
             /\ reqs'[q].verdict = reqs[q].verdict /\ reqs'[q].user = reqs[q].user
    BY <1>3, <1>t DEF Arrive, Vacant, Request
  <2> QED
    BY <2>1 DEF WaitingInv, At
<1>4. CASE UNCHANGED reqs
  BY <1>4 DEF WaitingInv, At
<1> QED
  BY <1>1, <1>2, <1>3, <1>4 DEF Next, Cleanup, CleanupStarts, CleanExpiredTokens,
       PurgeExpiredSessions, PurgeFails, Revoke, Prolong, Tick, vars

LEMMA SessionInvAlways == Spec => []SessionInv
<1>1. Init => SessionInv
  BY InitGate, InitCopies, InitAlone DEF SessionInv
<1>2. SessionInv /\ [Next]_vars => SessionInv'
  BY NextGate, NextCopies, NextAlone, NextWaiting DEF SessionInv
<1> QED
  BY <1>1, <1>2, PTL DEF Spec

-------------------------------------------------------------------------------

(* Only a request that met another with its token ends in an error of the  *)
(* database: alone it never hits the unique index, whatever the purge, the *)
(* core and requests with other tokens do between its steps, and whatever  *)
(* was cut short before it.                                                *)
THEOREM NoErrorsAlways == Spec => []NoErrors
<1>1. SessionInv => NoErrors
  BY DEF SessionInv, AloneInv
<1> QED
  BY <1>1, SessionInvAlways, PTL

LEMMA NextRemovesExpired ==
  SessionInv /\ [Next]_vars =>
    [\A t \in Tokens : Cached(t) /\ sessions'[t].id # sessions[t].id
       => sessions[t].until <= clock]_vars
<1> DEFINE Removed(t) == Cached(t) /\ sessions'[t].id # sessions[t].id
<1> SUFFICES ASSUME SessionInv, Next, NEW u \in Tokens, Removed(u)
             PROVE  sessions[u].until <= clock
  BY DEF SessionInv
<1>t. /\ sessions[u] \in Row /\ sessions \in [Tokens -> Row] /\ clock \in Nat
      /\ GateInv /\ CopiesInv
  BY DEF SessionInv, GateInv, TypeOK
<1>1. ASSUME NEW r \in Requests, Step(r)
      PROVE  sessions[u].until <= clock
  <2> PICK t, row, copy :
        t \in Tokens /\ t = reqs[r].token /\ row = sessions[t] /\ copy = reqs[r].row
    BY <1>1, <1>t, StepEffect
  <2>1. OneSlot(r) /\ Around /\ Effect(r, t, row, copy) /\ ~At(r, "idle")
    BY <1>1, <1>t, StepEffect
  <2>2. u = t /\ At(r, "delete") /\ StillThere(r)
    BY <2>1 DEF Effect, OneRow, StillThere, Cached
  <2>3. row \in RowsOf(t) /\ copy \in RowsOf(t) /\ row.id = copy.id
    BY <2>2 DEF RowsOf, HoldsCopy, At, StillThere
  <2>4. row.until = copy.until
    <3>1. SameSession(row, copy)
      BY <1>t, <2>3 DEF CopiesInv
    <3> QED
      BY <3>1 DEF SameSession
  <2>5. copy.until <= reqs[r].now /\ reqs[r].now <= clock
    BY <1>t, <2>2 DEF CopiesInv, GateInv, RequestOK
  <2>6. copy.until \in Nat /\ reqs[r].now \in Nat
    BY <1>t, <2>2, <2>4 DEF Row, GateInv, TypeOK, Request
  <2> QED
    BY <1>t, <2>2, <2>4, <2>5, <2>6
<1>2. CASE PurgeExpiredSessions
  <2>1. sessions[u].until < cleanup.cutoff
    BY <1>2 DEF PurgeExpiredSessions, IsPurged
  <2>2. cleanup.cutoff \in Nat /\ sessions[u].until \in Nat /\ cleanup.cutoff <= clock
    BY <1>t DEF CopiesInv, GateInv, TypeOK, Row
  <2> QED
    BY <1>t, <2>1, <2>2
<1>3. CASE UNCHANGED sessions
  BY <1>3
<1> QED
  BY <1>1, <1>2, <1>3 DEF Next, Cleanup, CleanupStarts, CleanExpiredTokens, PurgeFails, Abort,
       Arrive, Revoke, Prolong, Tick

(* A live session leaves the table in no way: neither the purge, nor a     *)
(* request that has seen an older row of the token, nor a late save()      *)
(* removes or replaces it.                                                 *)
THEOREM OnlyExpiredIsRemovedAlways == Spec => OnlyExpiredIsRemoved
BY NextRemovesExpired, SessionInvAlways, PTL DEF Spec, OnlyExpiredIsRemoved

LEMMA NextThrottles ==
  SessionInv /\ [Next]_vars =>
    [\A t \in Tokens :
       Cached(t) /\ sessions'[t].id = sessions[t].id /\ sessions'[t].lastUsed # sessions[t].lastUsed
         => \/ sessions'[t].lastUsed >= sessions[t].lastUsed + Throttle
            \/ \E r \in Requests : Shows(r, t) /\ reqs[r].met]_vars
<1> DEFINE Written(t) == /\ Cached(t) /\ sessions'[t].id = sessions[t].id
                         /\ sessions'[t].lastUsed # sessions[t].lastUsed
<1> SUFFICES ASSUME SessionInv, Next, NEW u \in Tokens, Written(u),
                    ~\E r \in Requests : Shows(r, u) /\ reqs[r].met
             PROVE  sessions'[u].lastUsed >= sessions[u].lastUsed + Throttle
  BY DEF SessionInv
<1>t. /\ sessions \in [Tokens -> Row] /\ sessions[u] \in Row
      /\ GateInv /\ CopiesInv /\ AloneInv
      /\ sessions[u].id # Absent
  <2>1. sessions[u] \in RowsOf(u)
    BY DEF RowsOf
  <2> QED
    BY <2>1 DEF SessionInv, GateInv, TypeOK, CopiesInv
<1>1. ASSUME NEW r \in Requests, Step(r)
      PROVE  sessions'[u].lastUsed >= sessions[u].lastUsed + Throttle
  <2> PICK t, row, copy :
        t \in Tokens /\ t = reqs[r].token /\ row = sessions[t] /\ copy = reqs[r].row
    BY <1>1, <1>t, StepEffect
  <2>1. OneSlot(r) /\ Around /\ Effect(r, t, row, copy) /\ ~At(r, "idle")
    BY <1>1, <1>t, StepEffect
  <2>2. u = t /\ At(r, "update") /\ sessions'[t] = copy
    BY <1>t, <2>1 DEF Effect, OneRow, NoRow
  <2>3. Alone(r)
    BY <2>1, <2>2 DEF Alone, Shows
  <2>4. row.lastUsed + Throttle <= copy.lastUsed
    BY <1>t, <2>2, <2>3 DEF AloneInv, AloneOK, At
  <2>5. copy \in Row
    BY <1>t DEF GateInv, TypeOK, Request
  <2> QED
    BY <1>t, <2>2, <2>4, <2>5, BoundsAreNatural DEF Row
<1>2. CASE PurgeExpiredSessions
  BY <1>2, <1>t DEF PurgeExpiredSessions, NoRow
<1>3. CASE UNCHANGED sessions
  BY <1>3
<1> QED
  BY <1>1, <1>2, <1>3 DEF Next, Cleanup, CleanupStarts, CleanExpiredTokens, PurgeFails, Abort,
       Arrive, Revoke, Prolong, Tick

(* last_used_at of a row that stays is not written twice within the        *)
(* throttle, unless a request with the token has met another one.          *)
THEOREM WritesAreThrottledAlways == Spec => WritesAreThrottled
BY NextThrottles, SessionInvAlways, PTL DEF Spec, WritesAreThrottled

-------------------------------------------------------------------------------
(* SellerAuth implements SellerGate                                        *)

Grants == [t \in Tokens |-> Remembered(t)]
Visitors == [r \in Requests |-> Visitor(reqs[r])]
Revoked == {t \in Tokens : core[t].revoked}

LEMMA MappedState ==
  /\ Gate!vars = <<clock, Revoked, Grants, Visitors>>
  /\ Gate!vars' = <<clock', Revoked', Grants', Visitors'>>
BY DEF Gate!vars, Grants, Visitors, Revoked

LEMMA InitMaps == Init => Gate!Init
<1> SUFFICES ASSUME Init PROVE Gate!Init
  OBVIOUS
<1>1. \A t \in Tokens : Remembered(t) = {}
  BY DEF Init, Remembered, HoldsGrant, Vacant, Cached
<1>2. {t \in Tokens : core[t].revoked} = {}
  BY DEF Init
<1>3. \A r \in Requests : Visitor(reqs[r]) = Gate!NoVisitor
  BY DEF Init, Visitor, Vacant, Gate!NoVisitor, Absent
<1> QED
  BY <1>1, <1>2, <1>3 DEF Init, Gate!Init

LEMMA RememberedBy ==
  ASSUME NEW t \in Tokens, NEW g
  PROVE  /\ g \in Remembered(t) <=>
              \/ \E q \in Requests : HoldsGrant(q, t) /\ g = GrantOf(reqs[q].row)
              \/ Cached(t) /\ g = GrantOf(sessions[t])
         /\ g \in Remembered(t)' <=>
              \/ \E q \in Requests : HoldsGrant(q, t)' /\ g = GrantOf(reqs'[q].row)
              \/ Cached(t)' /\ g = GrantOf(sessions'[t])
BY DEF Remembered, GrantOf

(* What the gate sees of a step of slot r. *)
LEMMA MappedVisitors ==
  ASSUME GateInv, GateInv', WaitingInv, NEW r \in Requests, OneSlot(r), ~At(r, "idle")
  PROVE  /\ Visitors[r].verdict = "waiting"
         /\ Visitors[r].token = reqs[r].token /\ Visitors[r].since = reqs[r].now
         /\ \A pc, row : Moves(r, pc, row) => Visitors' = Visitors
         /\ \A user : Ends(r, "accepted", user) =>
              Visitors' = [Visitors EXCEPT ![r].verdict = "accepted", ![r].user = user]
         /\ \A verdict \in {"unauthorized", "unavailable", "error", "aborted"} :
              Ends(r, verdict, Absent) => Visitors' = [Visitors EXCEPT ![r].verdict = "refused"]
<1>1. /\ Visitors = [q \in Requests |-> Visitor(reqs[q])]
      /\ Visitors' = [q \in Requests |-> Visitor(reqs'[q])]
  BY DEF Visitors, Visitor
<1>2. \A q \in Requests \ {r} : Visitor(reqs'[q]) = Visitor(reqs[q])
  BY DEF OneSlot
<1>3. /\ reqs[r].verdict = "waiting" /\ reqs[r].user = Absent
      /\ Visitor(reqs[r]) = [token |-> reqs[r].token, since |-> reqs[r].now, user |-> Absent,
                             verdict |-> "waiting"]
  BY DEF WaitingInv, Visitor
<1>4. \A pc, row : Moves(r, pc, row) => Visitor(reqs'[r]) = Visitor(reqs[r])
  BY DEF OneSlot, Moves, Visitor
<1>5. ASSUME NEW user, Ends(r, "accepted", user)
      PROVE  Visitors' = [Visitors EXCEPT ![r].verdict = "accepted", ![r].user = user]
  <2>1. Visitor(reqs'[r]) = [token |-> reqs[r].token, since |-> reqs[r].now, user |-> user,
                             verdict |-> "accepted"]
    BY <1>5 DEF OneSlot, Ends, Visitor
  <2> PICK v : v = [token |-> reqs[r].token, since |-> reqs[r].now, user |-> Absent,
                    verdict |-> "waiting"]
    OBVIOUS
  <2>2. Visitor(reqs'[r]) = [[v EXCEPT !.verdict = "accepted"] EXCEPT !.user = user]
    <3> PICK w : w = [token |-> reqs[r].token, since |-> reqs[r].now, user |-> Absent,
                      verdict |-> "accepted"]
      OBVIOUS
    <3>1. [v EXCEPT !.verdict = "accepted"] = w
      OBVIOUS
    <3>2. [w EXCEPT !.user = user] = [token |-> reqs[r].token, since |-> reqs[r].now,
                                      user |-> user, verdict |-> "accepted"]
      OBVIOUS
    <3> QED
      BY <2>1, <3>1, <3>2
  <2>3. Visitors[r] = v /\ Visitors = [q \in Requests |-> Visitor(reqs[q])]
    BY <1>1, <1>3
  <2> QED
    BY <1>1, <1>2, <2>2, <2>3
<1>6. ASSUME NEW verdict \in {"unauthorized", "unavailable", "error", "aborted"},
             Ends(r, verdict, Absent)
      PROVE  Visitors' = [Visitors EXCEPT ![r].verdict = "refused"]
  <2>1. Visitor(reqs'[r]) = [Visitor(reqs[r]) EXCEPT !.verdict = "refused"]
    BY <1>3, <1>6 DEF OneSlot, Ends, Visitor
  <2> QED
    BY <1>1, <1>2, <2>1
<1>7. Visitors[r] = Visitor(reqs[r])
  BY <1>1
<1>8. (\E pc, row : Moves(r, pc, row)) => Visitors' = Visitors
  BY <1>1, <1>2, <1>4
<1> QED
  BY <1>3, <1>5, <1>6, <1>7, <1>8

(* Only an answer of the core adds a grant.                                *)
LEMMA StepGrants ==
  ASSUME GateInv, NEW r \in Requests, NEW t \in Tokens, NEW row \in Row, NEW copy \in Row,
         t = reqs[r].token, row = sessions[t], copy = reqs[r].row,
         OneSlot(r), Effect(r, t, row, copy), ~At(r, "idle")
  PROVE  /\ \A u \in Tokens \ {t} : Remembered(u)' = Remembered(u)
         /\ reqs'[r].pc # "coreAnswer" => Remembered(t)' \subseteq Remembered(t)
         /\ reqs'[r].pc = "coreAnswer" =>
              Remembered(t)' = Remembered(t) \union {GrantOf(reqs'[r].row)}
<1>1. ASSUME NEW u \in Tokens, u # t
      PROVE  Remembered(u)' = Remembered(u)
  <2>1. sessions'[u] = sessions[u]
    BY <1>1 DEF Effect, OneRow
  <2>2. \A q \in Requests : HoldsGrant(q, u)' <=> HoldsGrant(q, u)
    BY <1>1 DEF OneSlot, HoldsGrant
  <2>3. \A q \in Requests : HoldsGrant(q, u) => reqs'[q].row = reqs[q].row
    BY <1>1 DEF OneSlot, HoldsGrant
  <2> QED
    BY <2>1, <2>2, <2>3 DEF Remembered, GrantOf, Cached
<1>2. \A q \in Requests \ {r} : reqs'[q] = reqs[q] /\ (HoldsGrant(q, t)' <=> HoldsGrant(q, t))
  BY DEF OneSlot, HoldsGrant
<1>3. ASSUME reqs'[r].pc # "coreAnswer", NEW g \in Remembered(t)'
      PROVE  g \in Remembered(t)
  <2>1. ASSUME HoldsGrant(r, t)', g = GrantOf(reqs'[r].row)
        PROVE  g \in Remembered(t)
    <3>1. \/ Cached(t) /\ reqs'[r].row = Used(row, reqs[r].now)
          \/ HoldsGrant(r, t) /\ reqs'[r].row = copy
      BY <1>3, <2>1 DEF Effect, Moves, Ends, HoldsGrant, At
    <3>2. GrantOf(Used(row, reqs[r].now)) = GrantOf(row)
      BY DEF GrantOf, Used, Row
    <3> QED
      BY <2>1, <3>1, <3>2, RememberedBy
  <2>2. ASSUME Cached(t)', g = GrantOf(sessions'[t])
        PROVE  g \in Remembered(t)
    <3>1. \/ Cached(t) /\ sessions'[t] = row
          \/ HoldsGrant(r, t) /\ sessions'[t] = copy
          \/ HoldsGrant(r, t) /\ sessions'[t] = [copy EXCEPT !.id = nextId, !.lastUsed = reqs[r].now]
      BY <2>2 DEF Effect, OneRow, HoldsGrant, At, Cached
    <3>2. GrantOf([copy EXCEPT !.id = nextId, !.lastUsed = reqs[r].now]) = GrantOf(copy)
      BY DEF GrantOf, Row
    <3> QED
      BY <2>2, <3>1, <3>2, RememberedBy
  <2> QED
    BY <1>2, <1>3, <2>1, <2>2, RememberedBy
<1>4. ASSUME reqs'[r].pc = "coreAnswer", NEW g
      PROVE  g \in Remembered(t)' <=> g \in Remembered(t) \/ g = GrantOf(reqs'[r].row)
  <2>1. At(r, "askCore") /\ sessions'[t] = sessions[t]
    BY <1>4 DEF Effect, Moves, Ends, OneRow
  <2>2. ~HoldsGrant(r, t) /\ HoldsGrant(r, t)' /\ (Cached(t)' <=> Cached(t))
    BY <1>4, <2>1 DEF HoldsGrant, At, OneSlot, Cached
  <2> QED
    BY <1>2, <2>1, <2>2, RememberedBy
<1> QED
  BY <1>1, <1>3, <1>4

LEMMA NextMaps == SessionInv /\ SessionInv' /\ [Next]_vars => [Gate!Next]_(Gate!vars)
<1> SUFFICES ASSUME SessionInv, SessionInv', [Next]_vars PROVE [Gate!Next]_(Gate!vars)
  OBVIOUS
<1>t. /\ GateInv /\ GateInv' /\ WaitingInv /\ TypeOK /\ reqs \in [Requests -> Request]
      /\ sessions \in [Tokens -> Row] /\ core \in [Tokens -> CoreEntry] /\ clock \in Nat
  BY DEF SessionInv, GateInv, TypeOK
<1>g. /\ Grants = [t \in Tokens |-> Remembered(t)]
      /\ Grants' = [t \in Tokens |-> Remembered(t)']
  BY DEF Grants
(* No grant comes and no visitor is answered. *)
<1>f. ASSUME UNCHANGED <<core, clock>>, Visitors' = Visitors,
             \A t \in Tokens : Remembered(t)' \subseteq Remembered(t)
      PROVE  Gate!Next
  BY <1>f DEF Gate!Next, Gate!Forget, Gate!Forgetting, Visitors
<1>1. ASSUME NEW r \in Requests, Step(r)
      PROVE  Gate!Next
  <2> PICK t, row, copy :
        t \in Tokens /\ t = reqs[r].token /\ row = sessions[t] /\ copy = reqs[r].row
    BY <1>1, <1>t, StepEffect
  <2>1. /\ OneSlot(r) /\ Around /\ Effect(r, t, row, copy) /\ ~At(r, "idle")
        /\ row \in Row /\ copy \in Row /\ UNCHANGED <<core, clock>>
    BY <1>1, <1>t, StepEffect DEF Around, Request
  <2>2. /\ \A u \in Tokens \ {t} : Remembered(u)' = Remembered(u)
        /\ reqs'[r].pc # "coreAnswer" => Remembered(t)' \subseteq Remembered(t)
        /\ reqs'[r].pc = "coreAnswer" =>
             Remembered(t)' = Remembered(t) \union {GrantOf(reqs'[r].row)}
    BY <1>t, <2>1, StepGrants
  <2>3. /\ Visitors[r].verdict = "waiting" /\ Visitors[r].token = t
        /\ Visitors[r].since = reqs[r].now
    BY <1>t, <2>1, MappedVisitors
  <2>4. CASE \E pc, x : Moves(r, pc, x) /\ pc # "coreAnswer"
    <3>1. Visitors' = Visitors /\ reqs'[r].pc # "coreAnswer"
      BY <1>t, <2>1, <2>4, MappedVisitors DEF Moves
    <3> QED
      BY <1>f, <2>1, <2>2, <3>1
  <2>5. CASE \E verdict \in {"unauthorized", "unavailable", "error"} : Ends(r, verdict, Absent)
    <3>1. Visitors' = [Visitors EXCEPT ![r].verdict = "refused"] /\ reqs'[r].pc # "coreAnswer"
      BY <1>t, <2>1, <2>5, MappedVisitors DEF Ends
    <3>2. \A u \in Tokens : Remembered(u)' \subseteq Remembered(u)
      BY <2>2, <3>1
    <3>3. Gate!Refuse(r)
      BY <2>1, <2>3, <3>1, <3>2 DEF Gate!Refuse, Gate!Waiting, Gate!Forgetting, Visitors
    <3> QED
      BY <3>3 DEF Gate!Next
  <2>6. ASSUME NEW x \in Row, GrantOf(x) \in Remembered(t), reqs[r].now < x.until,
               Ends(r, "accepted", x.user)
        PROVE  Gate!Next
    <3>1. /\ Visitors' = [Visitors EXCEPT ![r].verdict = "accepted", ![r].user = x.user]
          /\ reqs'[r].pc # "coreAnswer"
      BY <1>t, <2>1, <2>6, MappedVisitors DEF Ends
    <3>2. \A u \in Tokens : Remembered(u)' \subseteq Remembered(u)
      BY <2>2, <3>1
    <3>3. GrantOf(x).until = x.until /\ GrantOf(x).user = x.user
      BY DEF GrantOf
    <3>4. Gate!Admit(r)
      <4>1. GrantOf(x) \in Grants[Visitors[r].token]
        BY <1>g, <2>3, <2>6
      <4>2. GrantOf(x).until > Visitors[r].since
        BY <2>3, <2>6, <3>3, <1>t DEF Row, Request
      <4> QED
        BY <2>1, <2>3, <3>1, <3>2, <3>3, <4>1, <4>2
        DEF Gate!Admit, Gate!Waiting, Gate!Forgetting, Visitors, Grants
    <3> QED
      BY <3>4 DEF Gate!Next
  <2>7. CASE At(r, "askCore") /\ ~core[t].revoked /\ Moves(r, "coreAnswer",
               [NoRow EXCEPT !.user = core[t].user, !.until = core[t].until])
    <3> PICK g : g = [user |-> core[t].user, until |-> core[t].until]
      OBVIOUS
    <3>1. GrantOf(reqs'[r].row) = g
      BY <2>7 DEF Moves, GrantOf, NoRow
    <3>2. g \in Gate!Grant
      BY <1>t DEF CoreEntry, Gate!Grant
    <3>3. Remembered(t)' = Remembered(t) \union {g}
      BY <2>2, <2>7, <3>1 DEF Moves
    <3>4. Grants' = [Grants EXCEPT ![t] = @ \union {g}] /\ g \in Grants'[t]
      BY <1>g, <2>2, <3>3
    <3>5. Visitors' = Visitors
      BY <1>t, <2>1, <2>7, MappedVisitors
    <3>6. t \notin Revoked
      BY <2>7 DEF Revoked
    <3>7. Gate!Vouch(r)
      BY <2>1, <2>3, <3>2, <3>4, <3>5, <3>6 DEF Gate!Vouch, Gate!Waiting, Visitors, Grants, Revoked
    <3> QED
      BY <3>7 DEF Gate!Next
  <2>8. Cached(t) => GrantOf(row) \in Remembered(t)
    BY RememberedBy
  <2>9. HoldsGrant(r, t) => GrantOf(copy) \in Remembered(t)
    BY RememberedBy
  <2>10. At(r, "touch") \/ At(r, "update") \/ At(r, "reinsert") \/ At(r, "insert") =>
           HoldsGrant(r, t) /\ reqs[r].now < copy.until
    BY <1>t, RowHeld DEF At, HoldsGrant, Holding
  <2>11. IsLive(row, reqs[r].now) => reqs[r].now < row.until
    BY <1>t, <2>1 DEF IsLive, Row, Request
  <2> QED
    BY <2>1, <2>4, <2>5, <2>6, <2>7, <2>8, <2>9, <2>10, <2>11 DEF Effect
<1>2. ASSUME NEW r \in Requests, Abort(r)
      PROVE  Gate!Next
  <2>1. /\ OneSlot(r) /\ Ends(r, "aborted", Absent) /\ ~At(r, "idle")
        /\ UNCHANGED <<core, sessions, clock>>
    BY <1>2, <1>t DEF Abort, Refuse, Answer, OneSlot, Ends, Request
  <2>2. /\ Visitors' = [Visitors EXCEPT ![r].verdict = "refused"]
        /\ Visitors[r].verdict = "waiting"
    BY <1>t, <2>1, MappedVisitors
  <2>3. \A t \in Tokens : Remembered(t)' \subseteq Remembered(t)
    BY <2>1 DEF OneSlot, Ends, Remembered, HoldsGrant, GrantOf, Cached
  <2>4. Gate!Refuse(r)
    BY <2>1, <2>2, <2>3 DEF Gate!Refuse, Gate!Waiting, Gate!Forgetting, Visitors
  <2> QED
    BY <2>4 DEF Gate!Next
<1>3. ASSUME NEW r \in Requests, NEW u \in Tokens, Arrive(r, u)
      PROVE  Gate!Next
  <2>1. /\ UNCHANGED <<sessions, core, clock>> /\ At(r, "idle")
        /\ reqs'[r].pc = "lookup" /\ reqs'[r].verdict = "waiting" /\ reqs'[r].user = Absent
        /\ reqs'[r].token = u /\ reqs'[r].now = clock
        /\ \A q \in Requests \ {r} :
             /\ reqs'[q].pc = reqs[q].pc /\ reqs'[q].token = reqs[q].token
             /\ reqs'[q].row = reqs[q].row /\ reqs'[q].verdict = reqs[q].verdict
             /\ reqs'[q].now = reqs[q].now /\ reqs'[q].user = reqs[q].user
    BY <1>3, <1>t DEF Arrive, Vacant, Request
  <2>2. \A t \in Tokens : Remembered(t)' = Remembered(t)
    BY <2>1 DEF Remembered, HoldsGrant, GrantOf, Cached, At
  <2>3. /\ Visitor(reqs'[r]) = [token |-> u, since |-> clock, verdict |-> "waiting", user |-> 0]
        /\ \A q \in Requests \ {r} : Visitor(reqs'[q]) = Visitor(reqs[q])
    BY <2>1 DEF Visitor, Absent
  <2>4. Visitors' = [Visitors EXCEPT ![r] =
                      [token |-> u, since |-> clock, verdict |-> "waiting", user |-> 0]]
    BY <2>3 DEF Visitors, Visitor
  <2>5. Visitors[r].verdict # "waiting"
    BY <1>t, <2>1 DEF WaitingInv, Visitors, Visitor
  <2>6. Gate!Knock(r, u)
    BY <2>1, <2>2, <2>4, <2>5 DEF Gate!Knock, Gate!Waiting, Visitors
  <2> QED
    BY <2>6 DEF Gate!Next
<1>4. CASE Cleanup
  <2>1. UNCHANGED <<core, reqs, clock>> /\ \A t \in Tokens : sessions'[t] \in {sessions[t], NoRow}
    BY <1>4 DEF Cleanup, CleanupStarts, CleanExpiredTokens, PurgeExpiredSessions, PurgeFails
  <2>2. Visitors' = Visitors /\ \A t \in Tokens : Remembered(t)' \subseteq Remembered(t)
    BY <2>1 DEF Visitors, Visitor, Remembered, HoldsGrant, GrantOf, Cached
  <2> QED
    BY <1>f, <2>1, <2>2
<1>k. ASSUME UNCHANGED <<reqs, sessions>>
      PROVE  Visitors' = Visitors /\ Grants' = Grants
  BY <1>k DEF Visitors, Visitor, Grants, Remembered, HoldsGrant, GrantOf, Cached
<1>5. ASSUME NEW t \in Tokens, Revoke(t)
      PROVE  Gate!Next
  <2>1. Revoked' = Revoked \union {t}
    BY <1>5, <1>t DEF Revoke, Revoked, CoreEntry
  <2>2. Gate!Revoke(t)
    BY <1>5, <1>k, <2>1 DEF Revoke, Gate!Revoke, Revoked, Visitors, Grants
  <2> QED
    BY <2>2 DEF Gate!Next
<1>6. ASSUME NEW t \in Tokens, Prolong(t)
      PROVE  UNCHANGED Gate!vars
  <2>1. Revoked' = Revoked
    BY <1>6, <1>t DEF Prolong, Revoked, CoreEntry
  <2> QED
    BY <1>6, <1>k, <2>1, MappedState DEF Prolong
<1>7. CASE Tick
  BY <1>7, <1>k DEF Tick, Gate!Next, Gate!Pass, Visitors, Grants
<1>8. CASE UNCHANGED vars
  BY <1>8, <1>k, MappedState DEF vars, Revoked
<1> QED
  BY <1>1, <1>2, <1>3, <1>4, <1>5, <1>6, <1>7, <1>8 DEF Next

(* SellerAuth implements SellerGate: each answer of a request rests on a   *)
(* grant of the core that is still remembered and has not expired at its   *)
(* arrival, and nothing but the core ever adds a grant; a row that a late  *)
(* save() brings back was remembered by its request all along.             *)
THEOREM ImplementsGateAlways == Spec => ImplementsGate
<1>1. Spec => Gate!Init
  BY InitMaps DEF Spec
<1>2. SessionInv /\ SessionInv' /\ [Next]_vars => [Gate!Next]_(Gate!vars)
  BY NextMaps
<1> QED
  BY <1>1, <1>2, SessionInvAlways, PTL DEF Spec, ImplementsGate, Gate!Spec

===============================================================================
