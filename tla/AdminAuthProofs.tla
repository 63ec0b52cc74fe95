---------------------------- MODULE AdminAuthProofs ----------------------------
(***************************************************************************)
(* Theorems about AdminAuth, for any admins, slots, times and bounds, with *)
(* any admins whose requests overlap, with or without failures.            *)
(***************************************************************************)
EXTENDS AdminAuthProperties, TLAPS

Issued == 1..Len(issued)
Tokens == 1..Len(logins)

(* A stored code belongs to the admin whose row holds it, and its time     *)
(* limit is the one it was generated with.                                 *)
StoredCodeOK(a) ==
  admins[a].code # None =>
    /\ admins[a].code \in Issued
    /\ issued[admins[a].code].admin = a
    /\ admins[a].until = issued[admins[a].code].at + Lifetime

(* What a request still works with once it is past its first check. *)
RequestOK(h) ==
  /\ h.pc # "idle" => h.admin \in Admins
  /\ h.pc \in {"store", "send", "clear"} =>
       h.code \in Issued /\ issued[h.code].admin = h.admin
  /\ h.pc = "store" => h.now = issued[h.code].at
  /\ h.pc = "clear" => issued[h.code].at <= h.now /\ h.now <= issued[h.code].at + Lifetime
  /\ h.pc \in {"guard", "logout"} => h.token \in Tokens

TimelyInv ==
  /\ TypeOK
  /\ LoginsAreTimely
  /\ clock # 0
  /\ \A c \in Issued : 1 <= issued[c].at /\ issued[c].at <= clock
  /\ \A i \in Tokens : logins[i].code \in Issued
  /\ \A a \in Admins : StoredCodeOK(a)
  /\ \A r \in Requests : RequestOK(reqs[r])

(* Requests of an admin in Apart come one after the other. *)
OneAtATime ==
  \A a \in Apart : \A r, q \in Requests : reqs[r].admin = a /\ reqs[q].admin = a => r = q

(* Codes that have been written to the row of their admin, and are sent or *)
(* about to be.                                                            *)
WasStored(c) == c \in sent \/ \E r \in Requests : At(r, "send") /\ reqs[r].code = c
StoredFor(a, c) == c \in Issued /\ WasStored(c) /\ issued[c].admin = a

(* otp_last_requested_at is not older than any code that was stored, and a *)
(* request that is about to store another has let the cooldown pass.       *)
SpacingOK(a) ==
  /\ \A c \in Issued : StoredFor(a, c) =>
       admins[a].requested # None /\ issued[c].at <= admins[a].requested
  /\ \A r \in Requests : At(r, "store") /\ reqs[r].admin = a =>
       /\ admins[a].requested = None \/ admins[a].requested + Cooldown <= reqs[r].now
       /\ \A c \in Issued : StoredFor(a, c) => c < reqs[r].code
  /\ \A c, d \in Issued : StoredFor(a, c) /\ StoredFor(a, d) /\ c < d =>
       issued[c].at + Cooldown <= issued[d].at

(* A code that has logged in is in no row, and on no way into one; who is  *)
(* about to clear a code finds this one.                                   *)
WasRedeemed(c) == \E i \in Tokens : logins[i].code = c
RedeemingOK(a) ==
  /\ admins[a].code # None => ~WasRedeemed(admins[a].code)
  /\ \A r \in Requests : At(r, "store") /\ reqs[r].admin = a => ~WasRedeemed(reqs[r].code)
  /\ \A r \in Requests : At(r, "clear") /\ reqs[r].admin = a => admins[a].code = reqs[r].code

ApartInv ==
  /\ OneAtATime
  /\ RedeemedOnce
  /\ \A a \in Apart : SpacingOK(a) /\ RedeemingOK(a)

CodeInv == TimelyInv /\ ApartInv

-------------------------------------------------------------------------------
(* Sequences that grow, slots that change *)

LEMMA AppendFacts ==
  ASSUME NEW S, NEW s \in Seq(S), NEW x \in S
  PROVE  /\ Append(s, x) \in Seq(S)
         /\ Len(Append(s, x)) = Len(s) + 1
         /\ \A i \in 1..Len(s) : Append(s, x)[i] = s[i]
         /\ Append(s, x)[Len(s) + 1] = x
         /\ 1..Len(Append(s, x)) = 1..Len(s) \union {Len(s) + 1}
  <1>1. Append(s, x) \in Seq(S) /\ Len(Append(s, x)) = Len(s) + 1 /\ Len(s) \in Nat
    OBVIOUS
  <1>2. \A i \in 1..Len(s) : Append(s, x)[i] = s[i]
    OBVIOUS
  <1>3. Append(s, x)[Len(s) + 1] = x
    OBVIOUS
  <1>4. 1..(Len(s) + 1) = 1..Len(s) \union {Len(s) + 1}
    BY <1>1
  <1> QED
    BY <1>1, <1>2, <1>3, <1>4

LEMMA SlotReplaced ==
  ASSUME NEW r \in Requests, NEW h, reqs \in [Requests -> Request],
         reqs' = [reqs EXCEPT ![r] = h]
  PROVE  /\ \A q \in Requests : reqs'[q] = IF q = r THEN h ELSE reqs[q]
         /\ h \in Request => reqs' \in [Requests -> Request]
  OBVIOUS

LEMMA InitTimely == Init => TimelyInv
<1> SUFFICES ASSUME Init PROVE TimelyInv
  OBVIOUS
<1>1. TypeOK
  BY DEF Init, TypeOK, AdminRow, Request, Idle, None
<1>2. Len(issued) = 0 /\ Len(logins) = 0
  BY DEF Init
<1>3. LoginsAreTimely
  BY DEF Init, LoginsAreTimely
<1>4. \A r \in Requests : RequestOK(reqs[r])
  BY DEF Init, RequestOK, Idle
<1>5. \A a \in Admins : StoredCodeOK(a)
  BY DEF Init, StoredCodeOK
<1> QED
  BY <1>1, <1>2, <1>3, <1>4, <1>5 DEF Init, TimelyInv, Issued, Tokens

(* A request is as good as before when codes and logins have come. *)
LEMMA RequestsKept ==
  ASSUME NEW h, RequestOK(h), TypeOK,
         Issued \subseteq Issued', \A c \in Issued : issued'[c] = issued[c],
         Tokens \subseteq Tokens'
  PROVE  RequestOK(h)'
  BY DEF RequestOK

(* The common case: a step of slot r, or of none, that issues no code and  *)
(* logs nobody in.                                                         *)
LEMMA QuietStep ==
  ASSUME TimelyInv, UNCHANGED <<issued, logins, clock>>,
         admins' \in [Admins -> AdminRow], \A a \in Admins : StoredCodeOK(a)',
         sent' \in SUBSET Issued, blacklist' \in SUBSET Tokens, loggedOut' \in SUBSET Tokens,
         served' \in Nat,
         reqs' \in [Requests -> Request], \A q \in Requests : RequestOK(reqs'[q])
  PROVE  TimelyInv'
<1>1. TypeOK'
  BY DEF TimelyInv, TypeOK, Issued, Tokens
<1>2. LoginsAreTimely'
  BY DEF TimelyInv, LoginsAreTimely
<1>3. \A q \in Requests : RequestOK(reqs[q])'
  BY DEF RequestOK, Issued, Tokens
<1> QED
  BY <1>1, <1>2, <1>3 DEF TimelyInv, Issued, Tokens

LEMMA NextTimely == TimelyInv /\ [Next]_vars => TimelyInv'
<1> SUFFICES ASSUME TimelyInv, [Next]_vars PROVE TimelyInv'
  OBVIOUS
<1>t. /\ TypeOK /\ LoginsAreTimely /\ clock \in Nat \ {0}
      /\ issued \in Seq(Code) /\ logins \in Seq(Login) /\ reqs \in [Requests -> Request]
      /\ \A r \in Requests : reqs[r] \in Request /\ RequestOK(reqs[r])
      /\ \A a \in Admins : admins[a] \in AdminRow /\ StoredCodeOK(a)
      /\ \A c \in Issued : issued[c] \in Code /\ 1 <= issued[c].at /\ issued[c].at <= clock
      /\ \A i \in Tokens : logins[i] \in Login /\ logins[i].code \in Issued
      /\ Lifetime \in Nat /\ TokenLife \in Nat
  BY TimesArePositive DEF TimelyInv, TypeOK, Issued, Tokens
<1>i. Idle \in Request /\ RequestOK(Idle)
  BY DEF Idle, Request, RequestOK, None
(* The steps that change nothing but slots. *)
<1>s. ASSUME NEW r \in Requests, NEW h \in Request, RequestOK(h),
             reqs' = [reqs EXCEPT ![r] = h],
             UNCHANGED <<issued, logins, clock, admins>>,
             sent' \in SUBSET Issued, blacklist' \in SUBSET Tokens, loggedOut' \in SUBSET Tokens,
         served' \in Nat
      PROVE  TimelyInv'
  <2>1. reqs' \in [Requests -> Request] /\ \A q \in Requests : RequestOK(reqs'[q])
    BY <1>s, <1>t, SlotReplaced
  <2>2. admins' \in [Admins -> AdminRow]
    BY <1>s, <1>t DEF TypeOK
  <2>3. \A a \in Admins : StoredCodeOK(a)'
    BY <1>s, <1>t DEF StoredCodeOK, Issued
  <2> QED
    BY <1>s, <2>1, <2>2, <2>3, QuietStep
<1>u. /\ sent \in SUBSET Issued /\ blacklist \in SUBSET Tokens /\ loggedOut \in SUBSET Tokens
      /\ served \in Nat /\ served + 1 \in Nat
  BY <1>t DEF TypeOK, Issued, Tokens
<1>1. ASSUME NEW r \in Requests, NEW a \in Admins, RequestOtp(r, a)
      PROVE  TimelyInv'
  <2> DEFINE code == [admin |-> a, at |-> clock]
  <2> PICK h : h = [Idle EXCEPT !.pc = "store", !.admin = a, !.code = Len(issued) + 1, !.now = clock]
    OBVIOUS
  <2>1. /\ issued' = Append(issued, code) /\ reqs' = [reqs EXCEPT ![r] = h]
        /\ served' = served + 1 /\ UNCHANGED <<admins, sent, logins, blacklist, loggedOut, clock>>
    BY <1>1 DEF RequestOtp, Accept, Start
  <2>2. code \in Code
    BY <1>t DEF Code
  <2>3. /\ issued' \in Seq(Code) /\ Issued' = Issued \union {Len(issued) + 1}
        /\ \A c \in Issued : issued'[c] = issued[c]
        /\ issued'[Len(issued) + 1] = code
    BY <1>t, <2>1, <2>2, AppendFacts DEF Issued
  <2>4. h \in Request /\ RequestOK(h)'
    <3>1. Len(issued) + 1 \in Nat
      BY <1>t
    <3>2. h \in Request
      BY <1>t, <3>1 DEF Idle, Request, None
    <3>3. /\ h.pc = "store" /\ h.admin = a /\ h.code = Len(issued) + 1 /\ h.now = clock
      BY DEF Idle
    <3>4. h.code \in Issued' /\ issued'[h.code] = code
      BY <2>3, <3>3
    <3> QED
      BY <3>2, <3>3, <3>4 DEF RequestOK
  <2>5. \A q \in Requests : RequestOK(reqs[q])'
    <3>1. Tokens \subseteq Tokens'
      BY <2>1 DEF Tokens
    <3>2. \A q \in Requests : (reqs[q] \in Request /\ RequestOK(reqs[q])) => RequestOK(reqs[q])'
      <4>1. ASSUME NEW x, RequestOK(x) PROVE RequestOK(x)'
        BY <1>t, <2>3, <3>1, <4>1, RequestsKept
      <4>2. \A q \in Requests : reqs'[q] = IF q = r THEN h ELSE reqs[q]
        BY <1>t, <2>1, SlotReplaced
      <4>3. ASSUME NEW q \in Requests, RequestOK(reqs[q]) PROVE RequestOK(reqs[q])'
        <5>1. reqs'[q] = reqs[q] => RequestOK(reqs[q])'
          BY <4>1, <4>3 DEF RequestOK
        <5>2. reqs'[q] = h => RequestOK(reqs[q])'
          BY <2>4 DEF RequestOK
        <5> QED
          BY <4>2, <5>1, <5>2
      <4> QED
        BY <4>3
    <3> QED
      BY <1>t, <3>2
  <2>6. \A b \in Admins : StoredCodeOK(b)'
    BY <1>t, <2>1, <2>3 DEF StoredCodeOK
  <2>7. TypeOK'
    <3>1. reqs' \in [Requests -> Request]
      BY <1>t, <2>1, <2>4, SlotReplaced
    <3> QED
      BY <1>u, <1>t, <2>1, <2>3, <3>1 DEF TypeOK, Issued, Tokens
  <2>8. LoginsAreTimely'
    BY <1>t, <2>1, <2>3 DEF LoginsAreTimely, Issued, Tokens
  <2>9. \A c \in Issued' : 1 <= issued'[c].at /\ issued'[c].at <= clock'
    <3>1. 1 <= code.at /\ code.at <= clock
      BY <1>t
    <3> QED
      BY <1>t, <2>1, <2>3, <3>1
  <2>10. \A i \in Tokens' : logins'[i].code \in Issued'
    BY <1>t, <2>1, <2>3 DEF Tokens
  <2> HIDE DEF code
  <2> QED
    BY <1>t, <2>1, <2>5, <2>6, <2>7, <2>8, <2>9, <2>10 DEF TimelyInv
<1>2. ASSUME NEW r \in Requests, NEW a \in Admins, NEW c \in sent, VerifyOtp(r, a, c)
      PROVE  TimelyInv'
  <2> DEFINE h == [Idle EXCEPT !.pc = "clear", !.admin = a, !.code = c, !.now = clock]
  <2>1. /\ reqs' = [reqs EXCEPT ![r] = h] /\ served' = served + 1
        /\ UNCHANGED <<issued, logins, clock, admins, sent, blacklist, loggedOut>>
        /\ admins[a].code = c /\ ~(admins[a].until < clock)
    BY <1>2 DEF VerifyOtp, Accept, Start, IsExpired
  <2>2. c \in Issued /\ c # None /\ c \in Nat
    BY <1>u DEF Issued, None
  <2>3. admins[a].until \in Nat /\ issued[c].at \in Nat
    BY <1>t, <2>2 DEF AdminRow, Code
  <2>4. h \in Request
    BY <1>t, <2>2 DEF Idle, Request, None
  <2>5. RequestOK(h)
    BY <1>t, <2>1, <2>2, <2>3 DEF Idle, RequestOK, None, StoredCodeOK
  <2> QED
    BY <1>s, <1>u, <2>1, <2>4, <2>5
<1>3. ASSUME NEW r \in Requests, StoreCode(r)
      PROVE  TimelyInv'
  <2> DEFINE h == [reqs[r] EXCEPT !.pc = "send"]
             a == reqs[r].admin
             row == [admins[a] EXCEPT !.code = reqs[r].code, !.until = ExpiresAt(reqs[r].now),
                                      !.requested = reqs[r].now]
  <2>1. /\ At(r, "store") /\ reqs' = [reqs EXCEPT ![r] = h]
        /\ admins' = [admins EXCEPT ![a] = row]
        /\ UNCHANGED <<issued, sent, logins, blacklist, loggedOut, clock, served>>
    BY <1>3, <1>t DEF StoreCode, Goto, Request
  <2>2. a \in Admins /\ reqs[r].code \in Issued /\ issued[reqs[r].code].admin = a
        /\ reqs[r].now = issued[reqs[r].code].at /\ reqs[r].now \in Nat /\ reqs[r].code \in Nat
    BY <1>t, <2>1 DEF RequestOK, At, Request
  <2>3. h \in Request /\ RequestOK(h)
    BY <1>t, <2>1, <2>2 DEF RequestOK, At, Request
  <2>4. row \in AdminRow
    <3>1. reqs[r].now + Lifetime \in Nat /\ admins[a] \in AdminRow
      BY <1>t, <2>2
    <3> QED
      BY <2>2, <3>1 DEF AdminRow, ExpiresAt
  <2>5. admins' \in [Admins -> AdminRow]
    BY <1>t, <2>1, <2>2, <2>4 DEF TypeOK
  <2>6. \A b \in Admins : StoredCodeOK(b)'
    <3>1. \A b \in Admins : admins'[b] = IF b = a THEN row ELSE admins[b]
      BY <1>t, <2>1, <2>2 DEF TypeOK
    <3>2. row.code = reqs[r].code /\ row.until = reqs[r].now + Lifetime
      BY <1>t, <2>2 DEF AdminRow, ExpiresAt
    <3> HIDE DEF row, a
    <3> QED
      BY <1>t, <2>1, <2>2, <3>1, <3>2 DEF StoredCodeOK, Issued
  <2>7. reqs' \in [Requests -> Request] /\ \A q \in Requests : RequestOK(reqs'[q])
    BY <1>t, <2>1, <2>3, SlotReplaced
  <2> QED
    BY <1>u, <2>1, <2>5, <2>6, <2>7, QuietStep
<1>4. ASSUME NEW r \in Requests, SendSms(r)
      PROVE  TimelyInv'
  <2>1. reqs[r].code \in Issued
    BY <1>4, <1>t DEF SendSms, At, RequestOK
  <2> QED
    BY <1>4, <1>i, <1>s, <1>u, <2>1 DEF SendSms, Finish
<1>5. ASSUME NEW r \in Requests, ClearCode(r)
      PROVE  TimelyInv'
  <2> DEFINE a == reqs[r].admin
             row == [admins[a] EXCEPT !.code = None, !.until = None]
             login == [admin |-> a, code |-> reqs[r].code, at |-> reqs[r].now,
                       exp |-> clock + TokenLife]
  <2>1. /\ At(r, "clear") /\ reqs' = [reqs EXCEPT ![r] = Idle]
        /\ admins' = [admins EXCEPT ![a] = row]
        /\ logins' = Append(logins, login) \/ UNCHANGED logins
        /\ UNCHANGED <<issued, sent, blacklist, loggedOut, clock, served>>
    BY <1>5 DEF ClearCode, Finish
  <2>2. /\ a \in Admins /\ reqs[r].code \in Issued /\ issued[reqs[r].code].admin = a
        /\ issued[reqs[r].code].at <= reqs[r].now
        /\ reqs[r].now <= issued[reqs[r].code].at + Lifetime
        /\ reqs[r].now \in Nat
    BY <1>t, <2>1 DEF RequestOK, At, Request
  <2>3. reqs' \in [Requests -> Request] /\ \A q \in Requests : RequestOK(reqs'[q])
    BY <1>i, <1>t, <2>1, SlotReplaced
  <2>4. row \in AdminRow
    BY <1>t, <2>2 DEF AdminRow, None
  <2>5. admins' \in [Admins -> AdminRow]
    BY <1>t, <2>1, <2>2, <2>4 DEF TypeOK
  <2>6. \A b \in Admins : StoredCodeOK(b)'
    <3>1. \A b \in Admins : admins'[b] = IF b = a THEN row ELSE admins[b]
      BY <1>t, <2>1, <2>2 DEF TypeOK
    <3>2. row.code = None
      BY <1>t, <2>2 DEF AdminRow
    <3> HIDE DEF row, a
    <3> QED
      BY <1>t, <2>1, <3>1, <3>2 DEF StoredCodeOK, Issued
  <2>7. CASE UNCHANGED logins
    BY <1>u, <2>1, <2>3, <2>5, <2>6, <2>7, QuietStep
  <2>8. CASE logins' = Append(logins, login)
    <3>1. login \in Login
      BY <1>t, <2>2 DEF Login, Issued, None
    <3>2. /\ logins' \in Seq(Login) /\ Tokens' = Tokens \union {Len(logins) + 1}
          /\ \A i \in Tokens : logins'[i] = logins[i]
          /\ logins'[Len(logins) + 1] = login
      BY <1>t, <2>8, <3>1, AppendFacts DEF Tokens
    <3>3. TypeOK'
      BY <1>u, <1>t, <2>1, <2>3, <2>5, <3>2 DEF TypeOK, Issued, Tokens
    <3>4. \A i \in Tokens' :
            /\ logins'[i].code \in Issued
            /\ issued[logins'[i].code].admin = logins'[i].admin
            /\ issued[logins'[i].code].at <= logins'[i].at
            /\ logins'[i].at <= issued[logins'[i].code].at + Lifetime
      <4>1. ASSUME NEW i \in Tokens
            PROVE  /\ logins'[i] = logins[i] /\ logins[i].code \in Issued
                   /\ issued[logins[i].code].admin = logins[i].admin
                   /\ issued[logins[i].code].at <= logins[i].at
                   /\ logins[i].at <= issued[logins[i].code].at + Lifetime
        BY <1>t, <3>2 DEF LoginsAreTimely, Tokens
      <4>2. /\ login.code = reqs[r].code /\ login.admin = reqs[r].admin /\ login.at = reqs[r].now
        OBVIOUS
      <4> HIDE DEF login, row, a
      <4>3. /\ logins'[Len(logins) + 1] = login
            /\ login.code \in Issued /\ issued[login.code].admin = login.admin
            /\ issued[login.code].at <= login.at
            /\ login.at <= issued[login.code].at + Lifetime
        BY <2>2, <3>2, <4>2 DEF a
      <4> QED
        BY <3>2, <4>1, <4>3
    <3>5. LoginsAreTimely'
      BY <2>1, <3>2, <3>4 DEF LoginsAreTimely, Tokens
    <3>6. \A q \in Requests : RequestOK(reqs[q])'
      <4>1. Issued' = Issued
        BY <2>1 DEF Issued
      <4>2. ASSUME NEW x, RequestOK(x) PROVE RequestOK(x)'
        BY <1>t, <2>1, <3>2, <4>1, <4>2, RequestsKept
      <4> QED
        BY <2>3, <4>2 DEF RequestOK
    <3> HIDE DEF login, row, a
    <3> QED
      BY <1>t, <2>1, <2>6, <3>3, <3>4, <3>5, <3>6 DEF TimelyInv, Issued
  <2> QED
    BY <2>1, <2>7, <2>8
<1>6. ASSUME NEW r \in Requests, NEW n \in DOMAIN logins, Authenticate(r, n)
      PROVE  TimelyInv'
  <2> DEFINE h == [Idle EXCEPT !.pc = "guard", !.admin = logins[n].admin, !.token = n]
  <2>1. /\ reqs' = [reqs EXCEPT ![r] = h] /\ served' = served + 1
        /\ UNCHANGED <<admins, issued, sent, logins, blacklist, loggedOut, clock>>
    BY <1>6 DEF Authenticate, Accept, Start
  <2>2. n \in Tokens /\ n \in Nat /\ logins[n].admin \in Admins
    BY <1>t DEF Tokens, Login
  <2>3. h \in Request /\ RequestOK(h)
    BY <2>2 DEF Idle, Request, RequestOK, None
  <2> QED
    BY <1>s, <1>u, <2>1, <2>3
<1>7. ASSUME NEW r \in Requests, CheckBlacklist(r)
      PROVE  TimelyInv'
  <2>1. At(r, "guard") /\ UNCHANGED <<admins, issued, sent, logins, blacklist, loggedOut, clock, served>>
    BY <1>7 DEF CheckBlacklist
  <2>2. [reqs[r] EXCEPT !.pc = "logout"] \in Request /\ RequestOK([reqs[r] EXCEPT !.pc = "logout"])
    BY <1>t, <2>1 DEF At, Request, RequestOK
  <2>3. \/ reqs' = [reqs EXCEPT ![r] = Idle]
        \/ reqs' = [reqs EXCEPT ![r] = [reqs[r] EXCEPT !.pc = "logout"]]
    BY <1>7, <1>t DEF CheckBlacklist, Finish, Goto, Request
  <2> QED
    BY <1>i, <1>s, <1>u, <2>1, <2>2, <2>3
<1>8. ASSUME NEW r \in Requests, Logout(r)
      PROVE  TimelyInv'
  <2>1. reqs[r].token \in Tokens
    BY <1>8, <1>t DEF Logout, At, RequestOK
  <2> QED
    BY <1>8, <1>i, <1>s, <1>u, <2>1 DEF Logout, Finish
<1>9. ASSUME NEW r \in Requests, Abort(r)
      PROVE  TimelyInv'
  BY <1>9, <1>i, <1>s, <1>u DEF Abort, Finish
<1>10. ASSUME NEW a \in Admins, ToggleActive(a)
       PROVE  TimelyInv'
  <2>1. /\ admins' = [admins EXCEPT ![a] = [admins[a] EXCEPT !.active = ~@]]
        /\ served' = served + 1 /\ UNCHANGED <<issued, sent, logins, blacklist, loggedOut, reqs, clock>>
    BY <1>10, <1>t DEF ToggleActive, AdminRow
  <2>2. [admins[a] EXCEPT !.active = ~@] \in AdminRow
    BY <1>t DEF AdminRow
  <2>3. admins' \in [Admins -> AdminRow]
    BY <1>t, <2>1, <2>2 DEF TypeOK
  <2>4. \A b \in Admins : admins'[b].code = admins[b].code /\ admins'[b].until = admins[b].until
    BY <1>t, <2>1 DEF TypeOK, AdminRow
  <2>5. \A b \in Admins : StoredCodeOK(b)'
    BY <1>t, <2>1, <2>4 DEF StoredCodeOK, Issued
  <2> QED
    BY <1>t, <1>u, <2>1, <2>3, <2>5, QuietStep
<1>11. CASE CleanExpiredTokens
  <2>1. /\ blacklist' \in SUBSET Tokens
        /\ UNCHANGED <<admins, issued, sent, logins, loggedOut, reqs, clock, served>>
    BY <1>11, <1>u DEF CleanExpiredTokens
  <2>2. \A b \in Admins : StoredCodeOK(b)'
    BY <1>t, <2>1 DEF StoredCodeOK, Issued
  <2> QED
    BY <1>t, <1>u, <2>1, <2>2, QuietStep DEF TypeOK
<1>12. CASE Tick
  <2>1. clock' = clock + 1 /\ UNCHANGED <<admins, issued, sent, logins, blacklist, loggedOut, reqs, served>>
    BY <1>12 DEF Tick
  <2>2. TypeOK' /\ LoginsAreTimely'
    BY <1>t, <2>1 DEF TypeOK, LoginsAreTimely
  <2>3. \A c \in Issued : issued[c].at <= clock'
    BY <1>t, <2>1 DEF Code
  <2>4. \A b \in Admins : StoredCodeOK(b)'
    BY <1>t, <2>1 DEF StoredCodeOK, Issued
  <2>5. \A q \in Requests : RequestOK(reqs[q])'
    BY <1>t, <2>1 DEF RequestOK, Issued, Tokens
  <2> QED
    BY <1>t, <2>1, <2>2, <2>3, <2>4, <2>5 DEF TimelyInv, Issued, Tokens
<1>13. CASE UNCHANGED vars
  <2>1. \A b \in Admins : StoredCodeOK(b)'
    BY <1>13, <1>t DEF vars, StoredCodeOK, Issued
  <2> QED
    BY <1>13, <1>t, <1>u, <2>1, QuietStep DEF vars, TypeOK
<1> QED
  BY <1>1, <1>2, <1>3, <1>4, <1>5, <1>6, <1>7, <1>8, <1>9, <1>10, <1>11, <1>12, <1>13
  DEF Next, Step, AtRest

LEMMA TimelyInvAlways == Spec => []TimelyInv
  BY InitTimely, NextTimely, PTL DEF Spec

-------------------------------------------------------------------------------
(* Admins whose requests do not overlap *)

LEMMA InitApart == Init => ApartInv
<1> SUFFICES ASSUME Init PROVE ApartInv
  OBVIOUS
<1>1. /\ Issued = {} /\ Tokens = {} /\ logins = << >>
      /\ \A a \in Admins : admins[a].code = None
      /\ \A r \in Requests : reqs[r].pc = "idle" /\ reqs[r].admin = None
  BY DEF Init, Issued, Tokens, Idle
<1>2. \A a \in Apart : a \in Admins /\ a # None
  BY NoAdminIsAbsent DEF Apart, None
<1>3. OneAtATime
  BY <1>1, <1>2 DEF OneAtATime
<1>4. RedeemedOnce
  BY <1>1 DEF RedeemedOnce
<1>5. \A a \in Apart : SpacingOK(a) /\ RedeemingOK(a)
  BY <1>1, <1>2 DEF SpacingOK, RedeemingOK, At
<1> QED
  BY <1>3, <1>4, <1>5 DEF ApartInv

(* What all other steps have in common: no code is made, stored, typed in  *)
(* or redeemed, and none is sent that was not on its way.                  *)
OtherStep ==
  /\ UNCHANGED <<issued, logins>>
  /\ \A a \in Admins : admins'[a].code = admins[a].code /\ admins'[a].requested = admins[a].requested
  /\ \A c \in sent' : WasStored(c)
  /\ \A q \in Requests : reqs'[q] = reqs[q] \/ reqs'[q].pc \notin {"store", "send", "clear"}
  /\ \A q \in Requests : reqs'[q].admin = reqs[q].admin \/ reqs'[q].admin = None
       \/ \A a \in Apart : reqs'[q].admin = a => \A o \in Requests : reqs[o].admin # a

LEMMA StepKinds ==
  ASSUME TypeOK, [Next]_vars
  PROVE  \/ \E r \in Requests, a \in Admins : RequestOtp(r, a)
         \/ \E r \in Requests, a \in Admins, c \in sent : VerifyOtp(r, a, c)
         \/ \E r \in Requests : StoreCode(r)
         \/ \E r \in Requests : ClearCode(r)
         \/ OtherStep /\ \/ UNCHANGED reqs
                         \/ \E r \in Requests : \A q \in Requests \ {r} : reqs'[q] = reqs[q]
<1>t. /\ reqs \in [Requests -> Request] /\ \A q \in Requests : reqs[q] \in Request
      /\ admins \in [Admins -> AdminRow] /\ \A a \in Admins : admins[a] \in AdminRow
      /\ \A c \in sent : WasStored(c)
  BY DEF TypeOK, WasStored
<1>s. ASSUME NEW r \in Requests, NEW h, reqs' = [reqs EXCEPT ![r] = h],
             h.pc \notin {"store", "send", "clear"},
             \/ h.admin \in {None, reqs[r].admin}
             \/ \A a \in Apart : h.admin = a => \A o \in Requests : reqs[o].admin # a,
             UNCHANGED <<admins, issued, logins>>, \A c \in sent' : WasStored(c)
      PROVE  OtherStep /\ \E x \in Requests : \A q \in Requests \ {x} : reqs'[q] = reqs[q]
  <2>1. \A q \in Requests : reqs'[q] = IF q = r THEN h ELSE reqs[q]
    BY <1>s, <1>t
  <2> QED
    BY <1>s, <2>1 DEF OtherStep
<1>i. Idle.pc \notin {"store", "send", "clear"} /\ Idle.admin = None
  BY DEF Idle
<1>1. ASSUME NEW r \in Requests, SendSms(r)
      PROVE  OtherStep /\ \E x \in Requests : \A q \in Requests \ {x} : reqs'[q] = reqs[q]
  <2>1. \A c \in sent' : WasStored(c)
    BY <1>1, <1>t DEF SendSms, WasStored
  <2> QED
    BY <1>1, <1>i, <1>s, <2>1 DEF SendSms, Finish
<1>2. ASSUME NEW r \in Requests, NEW n \in DOMAIN logins, Authenticate(r, n)
      PROVE  OtherStep /\ \E x \in Requests : \A q \in Requests \ {x} : reqs'[q] = reqs[q]
  <2> PICK h : h = [Idle EXCEPT !.pc = "guard", !.admin = logins[n].admin, !.token = n]
    OBVIOUS
  <2>1. h.pc = "guard" /\ h.admin = logins[n].admin
    BY DEF Idle
  <2>2. \A a \in Apart : h.admin = a => \A o \in Requests : reqs[o].admin # a
    BY <1>2, <2>1 DEF Authenticate, Accept, Apart
  <2> QED
    BY <1>2, <1>s, <1>t, <2>1, <2>2 DEF Authenticate, Start
<1>3. ASSUME NEW r \in Requests, CheckBlacklist(r)
      PROVE  OtherStep /\ \E x \in Requests : \A q \in Requests \ {x} : reqs'[q] = reqs[q]
  <2>1. \/ reqs' = [reqs EXCEPT ![r] = Idle]
        \/ reqs' = [reqs EXCEPT ![r] = [reqs[r] EXCEPT !.pc = "logout"]]
    BY <1>3, <1>t DEF CheckBlacklist, Finish, Goto, Request
  <2>2. /\ [reqs[r] EXCEPT !.pc = "logout"].pc = "logout"
        /\ [reqs[r] EXCEPT !.pc = "logout"].admin = reqs[r].admin
    BY <1>t DEF Request
  <2>3. UNCHANGED <<admins, issued, logins, sent>>
    BY <1>3 DEF CheckBlacklist
  <2>4. CASE reqs' = [reqs EXCEPT ![r] = Idle]
    BY <1>i, <1>s, <1>t, <2>3, <2>4
  <2>5. CASE reqs' = [reqs EXCEPT ![r] = [reqs[r] EXCEPT !.pc = "logout"]]
    BY <1>s, <1>t, <2>2, <2>3, <2>5
  <2> QED
    BY <2>1, <2>4, <2>5
<1>4. ASSUME NEW r \in Requests, Logout(r) \/ Abort(r)
      PROVE  OtherStep /\ \E x \in Requests : \A q \in Requests \ {x} : reqs'[q] = reqs[q]
  BY <1>4, <1>i, <1>s, <1>t DEF Logout, Abort, Finish
<1>5. ASSUME NEW a \in Admins, ToggleActive(a)
      PROVE  OtherStep /\ UNCHANGED reqs
  BY <1>5, <1>t DEF ToggleActive, OtherStep, AdminRow
<1>6. CASE CleanExpiredTokens \/ Tick \/ UNCHANGED vars
  BY <1>6, <1>t DEF CleanExpiredTokens, Tick, vars, OtherStep
<1> QED
  BY <1>1, <1>2, <1>3, <1>4, <1>5, <1>6 DEF Next, Step, AtRest

LEMMA NextOneAtATime == TimelyInv /\ OneAtATime /\ [Next]_vars => OneAtATime'
<1> SUFFICES ASSUME TimelyInv, OneAtATime, [Next]_vars PROVE OneAtATime'
  OBVIOUS
<1>t. TypeOK /\ reqs \in [Requests -> Request] /\ \A a \in Apart : a # None /\ a \in Admins
  BY NoAdminIsAbsent DEF TimelyInv, TypeOK, Apart, None
<1>s. ASSUME NEW r \in Requests, \A q \in Requests \ {r} : reqs'[q] = reqs[q],
             \/ reqs'[r].admin \in {None, reqs[r].admin}
             \/ \A a \in Apart : reqs'[r].admin = a => \A o \in Requests : reqs[o].admin # a
      PROVE  OneAtATime'
  BY <1>s, <1>t DEF OneAtATime, Apart
<1>1. ASSUME NEW r \in Requests, NEW a \in Admins,
             RequestOtp(r, a) \/ \E c \in sent : VerifyOtp(r, a, c)
      PROVE  OneAtATime'
  <2>1. Accept(r, a)
    BY <1>1 DEF RequestOtp, VerifyOtp
  <2>2. \E h : h.admin = a /\ reqs' = [reqs EXCEPT ![r] = h]
    BY <1>1 DEF RequestOtp, VerifyOtp, Start, Idle
  <2>3. \A b \in Apart : a = b => \A o \in Requests : reqs[o].admin # b
    BY <2>1 DEF Accept, Apart
  <2> QED
    BY <1>s, <1>t, <2>2, <2>3
<1>2. ASSUME NEW r \in Requests, StoreCode(r) \/ ClearCode(r)
      PROVE  OneAtATime'
  <2>1. \/ reqs' = [reqs EXCEPT ![r].pc = "send"]
        \/ reqs' = [reqs EXCEPT ![r] = Idle]
    BY <1>2 DEF StoreCode, ClearCode, Goto, Finish
  <2>2. reqs'[r].admin \in {None, reqs[r].admin} /\ \A q \in Requests \ {r} : reqs'[q] = reqs[q]
    BY <1>t, <2>1 DEF Idle, Request
  <2> QED
    BY <1>s, <2>2
<1>3. CASE OtherStep /\ UNCHANGED reqs
  BY <1>3 DEF OneAtATime, Apart
<1>4. ASSUME OtherStep, NEW r \in Requests, \A q \in Requests \ {r} : reqs'[q] = reqs[q]
      PROVE  OneAtATime'
  BY <1>4, <1>s DEF OtherStep
<1> QED
  BY <1>t, <1>1, <1>2, <1>3, <1>4, StepKinds

(* The cooldown of an admin in Apart is not disturbed by a step that       *)
(* stores no code of this admin and begins no request for one.             *)
LEMMA SpacingKept ==
  ASSUME TimelyInv, NEW a \in Apart, SpacingOK(a),
         admins'[a].requested = admins[a].requested,
         \A c \in Issued : issued'[c] = issued[c],
         \A c \in Issued' : StoredFor(a, c)' => StoredFor(a, c),
         \A q \in Requests : reqs'[q].pc = "store" /\ reqs'[q].admin = a => reqs'[q] = reqs[q]
  PROVE  SpacingOK(a)'
<1>1. \A c \in Issued' : StoredFor(a, c)' => c \in Issued /\ StoredFor(a, c) /\ issued'[c] = issued[c]
  BY DEF StoredFor
<1>2. \A c \in Issued' : StoredFor(a, c)' =>
        admins'[a].requested # None /\ issued'[c].at <= admins'[a].requested
  BY <1>1 DEF SpacingOK
<1>3. ASSUME NEW r \in Requests, At(r, "store")', reqs'[r].admin = a
      PROVE  /\ admins'[a].requested = None \/ admins'[a].requested + Cooldown <= reqs'[r].now
             /\ \A c \in Issued' : StoredFor(a, c)' => c < reqs'[r].code
  BY <1>1, <1>3 DEF SpacingOK, At
<1>4. \A c, d \in Issued' : StoredFor(a, c)' /\ StoredFor(a, d)' /\ c < d =>
        issued'[c].at + Cooldown <= issued'[d].at
  BY <1>1 DEF SpacingOK
<1> QED
  BY <1>2, <1>3, <1>4 DEF SpacingOK

LEMMA NextSpacing ==
  ASSUME TimelyInv, OneAtATime, [Next]_vars, NEW a \in Apart, SpacingOK(a)
  PROVE  SpacingOK(a)'
<1>t. /\ TypeOK /\ reqs \in [Requests -> Request] /\ issued \in Seq(Code)
      /\ admins \in [Admins -> AdminRow] /\ a \in Admins /\ sent \in SUBSET Issued
      /\ \A q \in Requests : reqs[q] \in Request /\ RequestOK(reqs[q])
      /\ clock \in Nat \ {0} /\ Cooldown \in Nat \ {0}
      /\ \A c \in Issued : issued[c].at \in Nat /\ c \in Nat
      /\ \A b \in Admins : admins[b] \in AdminRow
  <2>1. issued \in Seq(Code) /\ \A c \in Issued : issued[c] \in Code
    BY DEF TimelyInv, TypeOK, Issued
  <2>2. \A c \in Issued : issued[c].at \in Nat /\ c \in Nat
    BY <2>1 DEF Issued, Code
  <2> QED
    BY <2>1, <2>2, TimesArePositive DEF TimelyInv, TypeOK, Apart, Issued
<1>1. ASSUME NEW r \in Requests, NEW b \in Admins, RequestOtp(r, b)
      PROVE  SpacingOK(a)'
  <2> PICK h : h = [Idle EXCEPT !.pc = "store", !.admin = b, !.code = Len(issued) + 1, !.now = clock]
    OBVIOUS
  <2>1. /\ issued' = Append(issued, [admin |-> b, at |-> clock])
        /\ UNCHANGED <<admins, sent, logins, clock>>
        /\ \A q \in Requests : reqs'[q] = IF q = r THEN h ELSE reqs[q]
    BY <1>1, <1>t DEF RequestOtp, Start
  <2>2. /\ h.pc = "store" /\ h.admin = b /\ h.code = Len(issued) + 1 /\ h.now = clock
    BY DEF Idle
  <2>3. /\ Issued' = Issued \union {Len(issued) + 1} /\ Len(issued) + 1 \notin Issued
        /\ \A c \in Issued : issued'[c] = issued[c] /\ c < Len(issued) + 1
    <3>1. [admin |-> b, at |-> clock] \in Code
      BY <1>t DEF Code
    <3> QED
      BY <1>t, <2>1, <3>1, AppendFacts DEF Issued
  <2>4. ASSUME NEW c \in Issued', StoredFor(a, c)' PROVE StoredFor(a, c)
    <3>1. WasStored(c)
      BY <2>1, <2>2, <2>4 DEF StoredFor, WasStored, At
    <3>2. c \in Issued
      BY <1>t, <2>3, <3>1 DEF WasStored, At, RequestOK
    <3> QED
      BY <2>3, <2>4, <3>1, <3>2 DEF StoredFor
  <2>5. CASE b # a
    <3>1. \A q \in Requests : reqs'[q].pc = "store" /\ reqs'[q].admin = a => reqs'[q] = reqs[q]
      BY <2>1, <2>2, <2>5
    <3> QED
      BY <2>1, <2>3, <2>4, <3>1, SpacingKept
  <2>6. CASE b = a
    <3>1. admins[a].requested = None \/ admins[a].requested + Cooldown <= clock
      <4>1. admins[a].requested = None \/ clock - admins[a].requested >= Cooldown
        BY <1>1, <2>6 DEF RequestOtp, CanResend
      <4>2. admins[a].requested \in Nat /\ clock \in Nat /\ Cooldown \in Nat
        BY <1>t DEF AdminRow
      <4> QED
        BY <4>1, <4>2
    <3>2. \A q \in Requests : reqs[q].admin # a
      BY <1>1, <2>6 DEF RequestOtp, Accept, Apart
    <3>3. \A c \in Issued' : StoredFor(a, c)' => c \in Issued /\ StoredFor(a, c) /\ issued'[c] = issued[c]
      BY <2>3, <2>4 DEF StoredFor
    <3>4. \A c \in Issued' : StoredFor(a, c)' =>
            admins'[a].requested # None /\ issued'[c].at <= admins'[a].requested
      BY <2>1, <3>3 DEF SpacingOK
    <3>5. ASSUME NEW q \in Requests, At(q, "store")', reqs'[q].admin = a
          PROVE  /\ admins'[a].requested = None \/ admins'[a].requested + Cooldown <= reqs'[q].now
                 /\ \A c \in Issued' : StoredFor(a, c)' => c < reqs'[q].code
      <4>1. reqs'[q] = h
        BY <2>1, <3>2, <3>5
      <4> QED
        BY <2>1, <2>2, <2>3, <3>1, <3>3, <4>1
    <3>6. \A c, d \in Issued' : StoredFor(a, c)' /\ StoredFor(a, d)' /\ c < d =>
            issued'[c].at + Cooldown <= issued'[d].at
      BY <3>3 DEF SpacingOK
    <3> QED
      BY <3>4, <3>5, <3>6 DEF SpacingOK
  <2> QED
    BY <2>5, <2>6
<1>2. ASSUME NEW r \in Requests, StoreCode(r)
      PROVE  SpacingOK(a)'
  <2>1. /\ At(r, "store") /\ UNCHANGED <<issued, sent, logins, clock>>
        /\ \A q \in Requests : reqs'[q] = IF q = r THEN [reqs[r] EXCEPT !.pc = "send"] ELSE reqs[q]
        /\ \A b \in Admins : admins'[b].requested =
             IF b = reqs[r].admin THEN reqs[r].now ELSE admins[b].requested
    BY <1>2, <1>t DEF StoreCode, Goto, Request, AdminRow
  <2>2. /\ reqs'[r].pc = "send" /\ reqs'[r].code = reqs[r].code /\ reqs[r].code \in Issued
        /\ issued[reqs[r].code].admin = reqs[r].admin /\ reqs[r].admin \in Admins
        /\ reqs[r].now = issued[reqs[r].code].at
    BY <1>t, <2>1 DEF Request, RequestOK, At
  <2>3. \A c : WasStored(c)' => WasStored(c) \/ c = reqs[r].code
    BY <2>1, <2>2 DEF WasStored, At
  <2>4. Issued' = Issued
    BY <2>1 DEF Issued
  <2>5. CASE reqs[r].admin # a
    <3>1. \A c \in Issued' : StoredFor(a, c)' => StoredFor(a, c)
      BY <2>1, <2>2, <2>3, <2>5 DEF StoredFor, Issued
    <3>2. \A q \in Requests : reqs'[q].pc = "store" /\ reqs'[q].admin = a => reqs'[q] = reqs[q]
      BY <2>1, <2>2
    <3> QED
      BY <1>t, <2>1, <2>5, <3>1, <3>2, SpacingKept
  <2>6. CASE reqs[r].admin = a
    <3>1. \A c \in Issued : StoredFor(a, c)' => StoredFor(a, c) \/ c = reqs[r].code
      BY <2>1, <2>3 DEF StoredFor, Issued
    <3>2. \A c \in Issued : StoredFor(a, c) =>
            c < reqs[r].code /\ issued[c].at + Cooldown <= issued[reqs[r].code].at
      <4>1. ASSUME NEW c \in Issued, StoredFor(a, c)
            PROVE  c < reqs[r].code /\ issued[c].at + Cooldown <= issued[reqs[r].code].at
        <5>1. /\ admins[a].requested # None /\ issued[c].at <= admins[a].requested
              /\ c < reqs[r].code
              /\ admins[a].requested = None \/ admins[a].requested + Cooldown <= reqs[r].now
          BY <2>1, <2>6, <4>1 DEF SpacingOK
        <5>2. /\ admins[a].requested \in Nat /\ issued[c].at \in Nat /\ reqs[r].now \in Nat
              /\ Cooldown \in Nat
          BY <1>t, <4>1 DEF AdminRow, Request
        <5> QED
          BY <2>2, <5>1, <5>2
      <4> QED
        BY <4>1
    <3>3. \A c \in Issued : StoredFor(a, c)' =>
            admins'[a].requested # None /\ issued[c].at <= admins'[a].requested
      <4>1. admins'[a].requested = issued[reqs[r].code].at
        BY <1>t, <2>1, <2>2, <2>6
      <4>2. 1 <= issued[reqs[r].code].at
        BY <2>2 DEF TimelyInv
      <4> QED
        BY <1>t, <2>2, <3>1, <3>2, <4>1, <4>2 DEF None
    <3>4. \A q \in Requests : ~(At(q, "store")' /\ reqs'[q].admin = a)
      <4>1. \A q \in Requests : reqs[q].admin = a => q = r
        BY <2>6 DEF OneAtATime
      <4> QED
        BY <2>1, <2>2, <4>1 DEF At
    <3>5. \A c, d \in Issued : StoredFor(a, c)' /\ StoredFor(a, d)' /\ c < d =>
            issued[c].at + Cooldown <= issued[d].at
      BY <1>t, <2>2, <3>1, <3>2 DEF SpacingOK
    <3> QED
      BY <2>1, <2>4, <3>3, <3>4, <3>5 DEF SpacingOK
  <2> QED
    BY <2>5, <2>6
<1>3. ASSUME NEW r \in Requests, NEW b \in Admins, NEW n \in sent, VerifyOtp(r, b, n)
      PROVE  SpacingOK(a)'
  <2>1. /\ UNCHANGED <<admins, issued, sent, logins, clock>>
        /\ \A q \in Requests \ {r} : reqs'[q] = reqs[q]
        /\ reqs'[r].pc = "clear"
    BY <1>3, <1>t DEF VerifyOtp, Start, Idle
  <2>2. \A c \in Issued' : StoredFor(a, c)' => StoredFor(a, c)
    BY <2>1 DEF StoredFor, WasStored, At, Issued
  <2>3. \A q \in Requests : reqs'[q].pc = "store" /\ reqs'[q].admin = a => reqs'[q] = reqs[q]
    BY <2>1
  <2> QED
    BY <2>1, <2>2, <2>3, SpacingKept
<1>4. ASSUME NEW r \in Requests, ClearCode(r)
      PROVE  SpacingOK(a)'
  <2>1. /\ UNCHANGED <<issued, sent, clock>>
        /\ \A q \in Requests \ {r} : reqs'[q] = reqs[q]
        /\ reqs'[r].pc = "idle"
        /\ \A b \in Admins : admins'[b].requested = admins[b].requested
    BY <1>4, <1>t DEF ClearCode, Finish, Idle, AdminRow
  <2>2. \A c \in Issued' : StoredFor(a, c)' => StoredFor(a, c)
    BY <2>1 DEF StoredFor, WasStored, At, Issued
  <2>3. \A q \in Requests : reqs'[q].pc = "store" /\ reqs'[q].admin = a => reqs'[q] = reqs[q]
    BY <2>1
  <2> QED
    BY <1>t, <2>1, <2>2, <2>3, SpacingKept
<1>5. CASE OtherStep
  <2>1. \A c \in Issued' : StoredFor(a, c)' => StoredFor(a, c)
    <3>1. \A c : WasStored(c)' => WasStored(c)
      BY <1>5 DEF OtherStep, WasStored, At
    <3> QED
      BY <1>5, <3>1 DEF OtherStep, StoredFor, Issued
  <2> QED
    BY <1>5, <1>t, <2>1, SpacingKept DEF OtherStep
<1> QED
  BY <1>t, <1>1, <1>2, <1>3, <1>4, <1>5, StepKinds

(* Nor are the codes of an admin in Apart disturbed by a step that writes  *)
(* none of them and redeems none.                                          *)
LEMMA RedeemingKept ==
  ASSUME TimelyInv, NEW a \in Apart, RedeemingOK(a),
         admins'[a].code = admins[a].code,
         \A c \in Issued : issued[c].admin = a /\ WasRedeemed(c)' => WasRedeemed(c),
         \A q \in Requests : reqs'[q].pc \in {"store", "clear"} /\ reqs'[q].admin = a
           => reqs'[q] = reqs[q]
  PROVE  RedeemingOK(a)'
<1>1. admins[a].code # None => admins[a].code \in Issued /\ issued[admins[a].code].admin = a
  BY DEF TimelyInv, StoredCodeOK, Apart
<1>2. \A q \in Requests : At(q, "store") /\ reqs[q].admin = a =>
        reqs[q].code \in Issued /\ issued[reqs[q].code].admin = a
  BY DEF TimelyInv, RequestOK, At
<1> QED
  BY <1>1, <1>2 DEF RedeemingOK, At

LEMMA NextRedeeming ==
  ASSUME TimelyInv, OneAtATime, [Next]_vars, NEW a \in Apart, RedeemingOK(a)
  PROVE  RedeemingOK(a)'
<1>t. /\ TypeOK /\ reqs \in [Requests -> Request] /\ issued \in Seq(Code) /\ logins \in Seq(Login)
      /\ a \in Admins /\ a # None
      /\ \A q \in Requests : reqs[q] \in Request /\ RequestOK(reqs[q])
      /\ admins \in [Admins -> AdminRow] /\ \A b \in Admins : admins[b] \in AdminRow
      /\ \A i \in Tokens : logins[i].code \in Issued
  BY NoAdminIsAbsent DEF TimelyInv, TypeOK, Apart, None
<1>1. ASSUME NEW r \in Requests, NEW b \in Admins, RequestOtp(r, b)
      PROVE  RedeemingOK(a)'
  <2> PICK h : h = [Idle EXCEPT !.pc = "store", !.admin = b, !.code = Len(issued) + 1, !.now = clock]
    OBVIOUS
  <2>1. /\ UNCHANGED <<admins, sent, logins, clock>>
        /\ \A q \in Requests : reqs'[q] = IF q = r THEN h ELSE reqs[q]
    BY <1>1, <1>t DEF RequestOtp, Start
  <2>2. h.pc = "store" /\ h.admin = b /\ h.code = Len(issued) + 1
    BY DEF Idle
  <2>3. \A c : WasRedeemed(c)' => WasRedeemed(c)
    BY <2>1 DEF WasRedeemed, Tokens
  <2>4. CASE b # a
    BY <2>1, <2>2, <2>3, <2>4, RedeemingKept
  <2>5. CASE b = a
    <3>1. ~WasRedeemed(h.code)'
      <4>1. h.code \notin Issued
        BY <1>t, <2>2 DEF Issued
      <4>2. ~WasRedeemed(h.code)
        BY <1>t, <4>1 DEF WasRedeemed
      <4> QED
        BY <2>3, <4>2
    <3>2. \A q \in Requests : reqs[q].admin # a
      BY <1>1, <2>5 DEF RequestOtp, Accept, Apart
    <3>3. \A q \in Requests : reqs'[q].admin = a => reqs'[q] = h
      BY <2>1, <3>2
    <3>4. admins'[a].code # None => \A c : c = admins'[a].code => ~WasRedeemed(c)'
      BY <2>1, <2>3 DEF RedeemingOK
    <3>5. \A q \in Requests : reqs'[q].admin = a => \A c : c = reqs'[q].code => ~WasRedeemed(c)'
      BY <3>1, <3>3
    <3>6. \A q \in Requests : ~(At(q, "clear")' /\ reqs'[q].admin = a)
      BY <2>2, <3>3 DEF At
    <3> QED
      BY <3>4, <3>5, <3>6 DEF RedeemingOK, WasRedeemed
  <2> QED
    BY <2>4, <2>5
<1>2. ASSUME NEW r \in Requests, StoreCode(r)
      PROVE  RedeemingOK(a)'
  <2>a. reqs[r].admin \in Admins
    BY <1>2, <1>t DEF StoreCode, At, RequestOK
  <2>1. /\ At(r, "store") /\ UNCHANGED <<issued, sent, logins, clock>>
        /\ \A q \in Requests \ {r} : reqs'[q] = reqs[q]
        /\ reqs'[r].pc = "send"
        /\ \A b \in Admins : admins'[b].code = IF b = reqs[r].admin THEN reqs[r].code ELSE admins[b].code
    BY <1>2, <1>t, <2>a DEF StoreCode, Goto, Request, AdminRow
  <2>2. \A c : WasRedeemed(c)' => WasRedeemed(c)
    BY <2>1 DEF WasRedeemed, Tokens
  <2>3. CASE reqs[r].admin # a
    BY <1>t, <2>1, <2>2, <2>3, RedeemingKept
  <2>4. CASE reqs[r].admin = a
    <3>1. ~WasRedeemed(reqs[r].code)
      BY <2>1, <2>4 DEF RedeemingOK
    <3>2. \A q \in Requests : reqs'[q].admin = a => reqs'[q].pc = "send"
      BY <2>1, <2>4 DEF OneAtATime
    <3> QED
      BY <1>t, <2>1, <2>2, <2>4, <3>1, <3>2 DEF RedeemingOK, At
  <2> QED
    BY <2>3, <2>4
<1>3. ASSUME NEW r \in Requests, NEW b \in Admins, NEW n \in sent, VerifyOtp(r, b, n)
      PROVE  RedeemingOK(a)'
  <2>1. /\ UNCHANGED <<admins, issued, sent, logins, clock>> /\ admins[b].code = n
        /\ \A q \in Requests \ {r} : reqs'[q] = reqs[q]
        /\ reqs'[r].pc = "clear" /\ reqs'[r].admin = b /\ reqs'[r].code = n
    BY <1>3, <1>t DEF VerifyOtp, Start, Idle
  <2>2. \A c : WasRedeemed(c)' => WasRedeemed(c)
    BY <2>1 DEF WasRedeemed, Tokens
  <2> QED
    BY <2>1, <2>2 DEF RedeemingOK, At
<1>4. ASSUME NEW r \in Requests, ClearCode(r)
      PROVE  RedeemingOK(a)'
  <2> PICK login : login = [admin |-> reqs[r].admin, code |-> reqs[r].code, at |-> reqs[r].now,
                            exp |-> clock + TokenLife]
    OBVIOUS
  <2>a. reqs[r].admin \in Admins
    BY <1>4, <1>t DEF ClearCode, At, RequestOK
  <2>1. /\ At(r, "clear") /\ UNCHANGED <<issued, sent, clock>>
        /\ \A q \in Requests \ {r} : reqs'[q] = reqs[q]
        /\ reqs'[r].pc = "idle" /\ reqs'[r].admin = None
        /\ \A b \in Admins : admins'[b].code = IF b = reqs[r].admin THEN None ELSE admins[b].code
        /\ logins' = Append(logins, login) \/ UNCHANGED logins
    BY <1>4, <1>t, <2>a DEF ClearCode, Finish, Idle, AdminRow
  <2>2. reqs[r].code \in Issued /\ issued[reqs[r].code].admin = reqs[r].admin
    BY <1>t, <2>1 DEF RequestOK, At
  <2>3. \A c : WasRedeemed(c)' => WasRedeemed(c) \/ c = reqs[r].code
    <3>1. CASE UNCHANGED logins
      BY <3>1 DEF WasRedeemed, Tokens
    <3>2. CASE logins' = Append(logins, login)
      <4>1. /\ Tokens' = Tokens \union {Len(logins) + 1}
            /\ \A i \in Tokens : logins'[i] = logins[i]
            /\ logins'[Len(logins) + 1] = login
        BY <1>t, <3>2 DEF Tokens
      <4>2. login.code = reqs[r].code
        OBVIOUS
      <4> QED
        BY <4>1, <4>2 DEF WasRedeemed
    <3> QED
      BY <2>1, <3>1, <3>2
  <2>4. CASE reqs[r].admin # a
    BY <1>t, <2>1, <2>2, <2>3, <2>4, RedeemingKept
  <2>5. CASE reqs[r].admin = a
    <3>1. \A q \in Requests : reqs'[q].admin # a
      BY <1>t, <2>1, <2>5 DEF OneAtATime
    <3> QED
      BY <1>t, <2>1, <2>5, <3>1 DEF RedeemingOK
  <2> QED
    BY <2>4, <2>5
<1>5. CASE OtherStep
  <2>1. \A c : WasRedeemed(c)' => WasRedeemed(c)
    BY <1>5 DEF OtherStep, WasRedeemed, Tokens
  <2> QED
    BY <1>5, <1>t, <2>1, RedeemingKept DEF OtherStep
<1> QED
  BY <1>t, <1>1, <1>2, <1>3, <1>4, <1>5, StepKinds

(* A login with the code of an admin in Apart is the first one with it.    *)
LEMMA NextRedeemedOnce ==
  ASSUME TimelyInv, ApartInv, [Next]_vars
  PROVE  RedeemedOnce'
<1>t. /\ TypeOK /\ reqs \in [Requests -> Request] /\ logins \in Seq(Login) /\ LoginsAreTimely
      /\ \A q \in Requests : reqs[q] \in Request /\ RequestOK(reqs[q])
  BY DEF TimelyInv, TypeOK
<1>1. CASE UNCHANGED logins
  BY <1>1 DEF ApartInv, RedeemedOnce
<1>2. ASSUME NEW r \in Requests, ClearCode(r), ~UNCHANGED logins
      PROVE  RedeemedOnce'
  <2> PICK login : login = [admin |-> reqs[r].admin, code |-> reqs[r].code, at |-> reqs[r].now,
                            exp |-> clock + TokenLife]
    OBVIOUS
  <2>1. At(r, "clear") /\ logins' = Append(logins, login)
    BY <1>2 DEF ClearCode
  <2>2. /\ login.admin = reqs[r].admin /\ login.code = reqs[r].code
        /\ issued[login.code].admin = login.admin /\ login.admin \in Admins
        /\ login.code # None
    BY <1>t, <2>1 DEF RequestOK, At, Issued, None
  <2>3. /\ DOMAIN logins' = Tokens \union {Len(logins) + 1} /\ \A i \in Tokens : logins'[i] = logins[i]
        /\ logins'[Len(logins) + 1] = login /\ Tokens = DOMAIN logins
    BY <1>t, <2>1 DEF Tokens
  <2>4. login.admin \in Apart => ~WasRedeemed(login.code)
    BY <2>1, <2>2 DEF ApartInv, RedeemingOK
  <2>5. \A i \in Tokens : logins[i].code = login.code => logins[i].admin = login.admin
    BY <1>t, <2>2, <2>3 DEF LoginsAreTimely
  <2>6. \A i, j \in Tokens : logins[i].code = logins[j].code /\ logins[i].admin \in Apart => i = j
    BY <2>3 DEF ApartInv, RedeemedOnce
  <2>7. \A i \in Tokens : logins[i].code = login.code => login.admin \notin Apart
    BY <2>4 DEF WasRedeemed
  <2> QED
    BY <2>3, <2>5, <2>6, <2>7 DEF RedeemedOnce, Apart
<1> QED
  BY <1>t, <1>1, <1>2, StepKinds DEF RequestOtp, VerifyOtp, StoreCode, OtherStep

LEMMA CodeInvAlways == Spec => []CodeInv
<1>1. Init => CodeInv
  BY InitTimely, InitApart DEF CodeInv
<1>2. CodeInv /\ [Next]_vars => CodeInv'
  <2> SUFFICES ASSUME CodeInv, [Next]_vars PROVE CodeInv'
    OBVIOUS
  <2>1. TimelyInv' /\ OneAtATime' /\ RedeemedOnce'
    BY NextTimely, NextOneAtATime, NextRedeemedOnce DEF CodeInv, ApartInv
  <2>2. \A a \in Apart : SpacingOK(a)' /\ RedeemingOK(a)'
    BY NextSpacing, NextRedeeming DEF CodeInv, ApartInv
  <2>3. ApartInv'
    BY <2>1, <2>2 DEF ApartInv, Apart
  <2> QED
    BY <2>1, <2>3 DEF CodeInv
<1> QED
  BY <1>1, <1>2, PTL DEF Spec

-------------------------------------------------------------------------------

(* Every variable keeps its type: the rows fit their columns, and a code   *)
(* that was sent or redeemed is one that was generated.                    *)
THEOREM TypeCorrect == Spec => []TypeOK
<1>1. TimelyInv => TypeOK
  BY DEF TimelyInv
<1> QED
  BY <1>1, TimelyInvAlways, PTL

(* Nobody logs in with another admin's code or outside its lifetime,       *)
(* however the requests of all admins overlap and wherever they are cut    *)
(* short: code and time limit are never mixed up with another's.           *)
THEOREM LoginsAreTimelyAlways == Spec => []LoginsAreTimely
<1>1. TimelyInv => LoginsAreTimely
  BY DEF TimelyInv
<1> QED
  BY <1>1, TimelyInvAlways, PTL

(* A token that was logged out is on the list until it has expired. *)
ListedOrExpired == \A n \in loggedOut : n \in blacklist \/ logins[n].exp < clock

LEMMA ListedOrExpiredAlways == Spec => [](TimelyInv /\ ListedOrExpired)
<1>1. Init => ListedOrExpired
  BY DEF Init, ListedOrExpired
<1>2. TimelyInv /\ ListedOrExpired /\ [Next]_vars => ListedOrExpired'
  <2> SUFFICES ASSUME TimelyInv, ListedOrExpired, [Next]_vars PROVE ListedOrExpired'
    OBVIOUS
  <2>t. /\ loggedOut \in SUBSET Tokens /\ clock \in Nat
        /\ \A n \in Tokens : logins[n] \in Login
    BY DEF TimelyInv, TypeOK, Tokens
  <2>1. CASE UNCHANGED <<blacklist, loggedOut, logins, clock>>
    BY <2>1 DEF ListedOrExpired
  <2>2. ASSUME NEW r \in Requests, ClearCode(r)
        PROVE  ListedOrExpired'
    <3>1. \A n \in Tokens : logins'[n] = logins[n]
      <4> PICK login : login = [admin |-> reqs[r].admin, code |-> reqs[r].code, at |-> reqs[r].now,
                                exp |-> clock + TokenLife]
        OBVIOUS
      <4>1. logins' = Append(logins, login) \/ UNCHANGED logins
        BY <2>2 DEF ClearCode
      <4> QED
        BY <4>1 DEF TimelyInv, TypeOK, Tokens
    <3>2. UNCHANGED <<blacklist, loggedOut, clock>>
      BY <2>2 DEF ClearCode
    <3> QED
      BY <2>t, <3>1, <3>2 DEF ListedOrExpired
  <2>3. ASSUME NEW r \in Requests, Logout(r)
        PROVE  ListedOrExpired'
    BY <2>3 DEF Logout, ListedOrExpired
  <2>4. CASE CleanExpiredTokens
    BY <2>4 DEF CleanExpiredTokens, IsCleaned, ListedOrExpired
  <2>5. CASE Tick
    <3>1. clock' = clock + 1 /\ UNCHANGED <<blacklist, loggedOut, logins>>
      BY <2>5 DEF Tick
    <3> QED
      BY <2>t, <3>1 DEF ListedOrExpired, Login
  <2> QED
    BY <2>1, <2>2, <2>3, <2>4, <2>5
    DEF Next, Step, RequestOtp, VerifyOtp, Authenticate, StoreCode, SendSms, CheckBlacklist, Abort,
        ToggleActive, AtRest, vars
<1> QED
  BY <1>1, <1>2, InitTimely, NextTimely, PTL DEF Spec

(* A token that was logged out is refused by BlacklistGuard for as long as *)
(* JwtStrategy accepts it.                                                 *)
THEOREM LoggedOutIsRefusedAlways == Spec => LoggedOutIsRefused
<1> DEFINE Refused ==
      \A r \in Requests :
        At(r, "guard") /\ reqs'[r].pc = "logout" /\ reqs[r].token \in loggedOut
          => ~IsAlive(logins[reqs[r].token].exp, clock)
<1>1. TimelyInv /\ ListedOrExpired /\ [Next]_vars => [Refused]_vars
  <2> SUFFICES ASSUME TimelyInv, ListedOrExpired, Next, NEW r \in Requests,
                      At(r, "guard"), reqs'[r].pc = "logout", reqs[r].token \in loggedOut
               PROVE  ~IsAlive(logins[reqs[r].token].exp, clock)
    BY DEF Refused
  <2>t. /\ reqs \in [Requests -> Request] /\ clock \in Nat /\ loggedOut \in SUBSET Tokens
        /\ \A n \in Tokens : logins[n] \in Login
    BY DEF TimelyInv, TypeOK, Tokens
  <2>1. reqs[r].token \notin blacklist
    <3>1. Idle.pc # "logout"
      BY DEF Idle
    <3>2. ASSUME NEW q \in Requests, CheckBlacklist(q)
          PROVE  reqs[r].token \notin blacklist
      BY <2>t, <3>1, <3>2 DEF CheckBlacklist, Finish, Goto, At
    <3>3. ASSUME NEW q \in Requests, NEW h, reqs' = [reqs EXCEPT ![q] = h], h.pc # "logout"
          PROVE  FALSE
      BY <2>t, <3>3 DEF At
    <3>4. ASSUME NEW q \in Requests, NEW a \in Admins, RequestOtp(q, a)
          PROVE  FALSE
      <4> PICK h : h = [Idle EXCEPT !.pc = "store", !.admin = a, !.code = Len(issued) + 1, !.now = clock]
        OBVIOUS
      <4>1. h.pc # "logout" /\ reqs' = [reqs EXCEPT ![q] = h]
        BY <3>4 DEF RequestOtp, Start, Idle
      <4> QED
        BY <3>3, <4>1
    <3>5. ASSUME NEW q \in Requests, NEW a \in Admins, NEW c \in sent, VerifyOtp(q, a, c)
          PROVE  FALSE
      <4> PICK h : h = [Idle EXCEPT !.pc = "clear", !.admin = a, !.code = c, !.now = clock]
        OBVIOUS
      <4>1. h.pc # "logout" /\ reqs' = [reqs EXCEPT ![q] = h]
        BY <3>5 DEF VerifyOtp, Start, Idle
      <4> QED
        BY <3>3, <4>1
    <3>6. ASSUME NEW q \in Requests, NEW n \in DOMAIN logins, Authenticate(q, n)
          PROVE  FALSE
      <4> PICK h : h = [Idle EXCEPT !.pc = "guard", !.admin = logins[n].admin, !.token = n]
        OBVIOUS
      <4>1. h.pc # "logout" /\ reqs' = [reqs EXCEPT ![q] = h]
        BY <3>6 DEF Authenticate, Start, Idle
      <4> QED
        BY <3>3, <4>1
    <3>7. ASSUME NEW q \in Requests, StoreCode(q)
          PROVE  FALSE
      BY <2>t, <3>7 DEF StoreCode, Goto, At
    <3>8. ASSUME NEW q \in Requests, SendSms(q) \/ ClearCode(q) \/ Logout(q) \/ Abort(q)
          PROVE  FALSE
      BY <3>1, <3>3, <3>8 DEF SendSms, ClearCode, Logout, Abort, Finish
    <3>9. ~UNCHANGED reqs
      BY DEF At
    <3> QED
      BY <3>2, <3>4, <3>5, <3>6, <3>7, <3>8, <3>9
      DEF Next, Step, ToggleActive, CleanExpiredTokens, Tick, AtRest, vars
  <2>2. logins[reqs[r].token].exp < clock
    BY <2>1 DEF ListedOrExpired
  <2> QED
    BY <2>t, <2>2 DEF IsAlive, Login
<1> QED
  BY <1>1, ListedOrExpiredAlways, PTL DEF Spec, LoggedOutIsRefused

(* To an admin whose requests do not overlap two codes are sent no closer  *)
(* than the cooldown, codes that were redeemed or lost included.           *)
THEOREM CodesAreSpacedAlways == Spec => []CodesAreSpaced
<1>1. CodeInv => CodesAreSpaced
  <2> SUFFICES ASSUME CodeInv, NEW c \in sent, NEW d \in sent, c < d,
                      issued[c].admin = issued[d].admin, issued[c].admin \in Apart
               PROVE  issued[c].at + Cooldown <= issued[d].at
    BY DEF CodesAreSpaced
  <2>1. c \in Issued /\ d \in Issued
    BY DEF CodeInv, TimelyInv, TypeOK, Issued
  <2> QED
    BY <2>1 DEF CodeInv, ApartInv, SpacingOK, StoredFor, WasStored
<1> QED
  BY <1>1, CodeInvAlways, PTL

(* No code logs such an admin in twice.                                    *)
THEOREM RedeemedOnceAlways == Spec => []RedeemedOnce
<1>1. CodeInv => RedeemedOnce
  BY DEF CodeInv, ApartInv
<1> QED
  BY <1>1, CodeInvAlways, PTL

-------------------------------------------------------------------------------
(* AdminAuth implements OneTimeCode                                        *)

ValidCodes == [a \in Apart |-> admins[a].code]
RedeemedCodes ==
  {<<logins[i].admin, logins[i].code>> : i \in {j \in DOMAIN logins : logins[j].admin \in Apart}}

LEMMA InitCodes == Init => Codes!Init
<1> SUFFICES ASSUME Init PROVE Codes!Init
  OBVIOUS
<1>1. \A a \in Apart : admins[a].code = 0
  BY DEF Init, Apart, None
<1>2. DOMAIN logins = {}
  BY DEF Init
<1> QED
  BY <1>1, <1>2 DEF Codes!Init, Codes!None

(* What the mapping makes of a step, told by the rows of Apart. *)
LEMMA MappedRows ==
  ASSUME TypeOK, TypeOK'
  PROVE  /\ (\A a \in Apart : admins'[a].code = admins[a].code) => ValidCodes' = ValidCodes
         /\ \A a \in Apart, c \in Nat :
              /\ admins'[a].code = c
              /\ \A b \in Apart \ {a} : admins'[b].code = admins[b].code
              => ValidCodes' = [ValidCodes EXCEPT ![a] = c] /\ ValidCodes'[a] = c
<1>1. ValidCodes' = [a \in Apart |-> admins'[a].code]
  BY DEF ValidCodes, Apart
<1> QED
  BY <1>1 DEF ValidCodes

LEMMA MappedLogins ==
  ASSUME TypeOK, NEW login \in Login, logins' = Append(logins, login)
  PROVE  RedeemedCodes' = RedeemedCodes \union
           (IF login.admin \in Apart THEN {<<login.admin, login.code>>} ELSE {})
<1>1. /\ DOMAIN logins' = DOMAIN logins \union {Len(logins) + 1}
      /\ \A i \in DOMAIN logins : logins'[i] = logins[i]
      /\ logins'[Len(logins) + 1] = login
  BY DEF TypeOK
<1>2. RedeemedCodes' = {<<logins'[i].admin, logins'[i].code>> :
                          i \in {j \in DOMAIN logins' : logins'[j].admin \in Apart}}
  BY DEF RedeemedCodes, Apart
<1> QED
  BY <1>1, <1>2 DEF RedeemedCodes

LEMMA NextCodes == CodeInv /\ CodeInv' /\ [Next]_vars => [Codes!Next]_(Codes!vars)
<1> SUFFICES ASSUME CodeInv, CodeInv', [Next]_vars PROVE [Codes!Next]_(Codes!vars)
  OBVIOUS
<1>t. /\ TypeOK /\ TypeOK' /\ reqs \in [Requests -> Request] /\ admins \in [Admins -> AdminRow]
      /\ \A q \in Requests : reqs[q] \in Request /\ RequestOK(reqs[q])
      /\ \A b \in Admins : admins[b] \in AdminRow
      /\ Apart \subseteq Admins
  BY DEF CodeInv, TimelyInv, TypeOK, Apart
(* Neither a row of Apart nor a login changes. *)
<1>s. ASSUME \A a \in Apart : admins'[a].code = admins[a].code, RedeemedCodes' = RedeemedCodes
      PROVE  UNCHANGED Codes!vars
  BY <1>t, <1>s, MappedRows DEF Codes!vars, ValidCodes, RedeemedCodes
<1>1. ASSUME NEW r \in Requests, StoreCode(r)
      PROVE  [Codes!Next]_(Codes!vars)
  <2> PICK a \in Admins, c \in Nat : a = reqs[r].admin /\ c = reqs[r].code
    BY <1>1, <1>t DEF StoreCode, At, RequestOK, Request
  <2>1. /\ At(r, "store") /\ UNCHANGED logins
        /\ \A b \in Admins : admins'[b].code = IF b = a THEN c ELSE admins[b].code
    BY <1>1, <1>t DEF StoreCode, AdminRow
  <2>2. RedeemedCodes' = RedeemedCodes
    BY <2>1 DEF RedeemedCodes
  <2>3. CASE a \notin Apart
    BY <1>s, <1>t, <2>1, <2>2, <2>3
  <2>4. CASE a \in Apart
    <3>1. c # None /\ ~WasRedeemed(c)
      BY <1>t, <2>1, <2>4 DEF CodeInv, ApartInv, RedeemingOK, RequestOK, At, Issued, None
    <3>2. ValidCodes' = [ValidCodes EXCEPT ![a] = c] /\ ValidCodes'[a] = c
      BY <1>t, <2>1, <2>4, MappedRows
    <3>3. <<a, c>> \notin RedeemedCodes
      BY <1>t, <3>1 DEF RedeemedCodes, WasRedeemed, TypeOK, Tokens
    <3>4. Codes!Issue(a)
      BY <2>2, <3>1, <3>2, <3>3 DEF Codes!Issue, Codes!None, None, ValidCodes, RedeemedCodes
    <3> QED
      BY <2>4, <3>4 DEF Codes!Next
  <2> QED
    BY <2>3, <2>4
<1>2. ASSUME NEW r \in Requests, ClearCode(r)
      PROVE  [Codes!Next]_(Codes!vars)
  <2> PICK a \in Admins, c \in Nat : a = reqs[r].admin /\ c = reqs[r].code
    BY <1>2, <1>t DEF ClearCode, At, RequestOK, Request
  <2> PICK login : login = [admin |-> a, code |-> c, at |-> reqs[r].now, exp |-> clock + TokenLife]
    OBVIOUS
  <2>1. /\ At(r, "clear")
        /\ \A b \in Admins : admins'[b].code = IF b = a THEN None ELSE admins[b].code
        /\ logins' = Append(logins, login) \/ UNCHANGED logins
    BY <1>2, <1>t DEF ClearCode, AdminRow
  <2>2. c # None /\ login \in Login /\ login.admin = a /\ login.code = c
    <3>1. c # None
      BY <1>t, <2>1 DEF RequestOK, At, Issued, None
    <3>2. clock + TokenLife \in Nat
      BY <1>t, TimesArePositive DEF TypeOK
    <3> QED
      BY <1>t, <3>1, <3>2 DEF Login, Request
  <2>3. CASE a \notin Apart
    <3>1. RedeemedCodes' = RedeemedCodes
      BY <1>t, <2>1, <2>2, <2>3, MappedLogins DEF RedeemedCodes
    <3> QED
      BY <1>s, <1>t, <2>1, <2>3, <3>1
  <2>4. CASE a \in Apart
    <3>1. admins[a].code = c
      BY <2>1, <2>4 DEF CodeInv, ApartInv, RedeemingOK
    <3>2. ValidCodes' = [ValidCodes EXCEPT ![a] = 0] /\ ValidCodes[a] = c
      BY <1>t, <2>1, <2>4, <3>1, MappedRows DEF None, ValidCodes
    <3>3. CASE UNCHANGED logins
      <4>1. RedeemedCodes' = RedeemedCodes
        BY <3>3 DEF RedeemedCodes
      <4>2. Codes!Void(a)
        BY <3>2, <4>1 DEF Codes!Void, Codes!None, ValidCodes, RedeemedCodes
      <4> QED
        BY <2>4, <4>2 DEF Codes!Next
    <3>4. CASE logins' = Append(logins, login)
      <4>1. RedeemedCodes' = RedeemedCodes \union {<<a, ValidCodes[a]>>}
        BY <1>t, <2>2, <2>4, <3>2, <3>4, MappedLogins
      <4>2. Codes!Redeem(a)
        BY <2>2, <3>2, <4>1 DEF Codes!Redeem, Codes!None, None, ValidCodes, RedeemedCodes
      <4> QED
        BY <2>4, <4>2 DEF Codes!Next
    <3> QED
      BY <2>1, <3>3, <3>4
  <2> QED
    BY <2>3, <2>4
<1>3. ASSUME NEW r \in Requests, NEW b \in Admins, RequestOtp(r, b)
      PROVE  [Codes!Next]_(Codes!vars)
  BY <1>3, <1>s DEF RequestOtp, RedeemedCodes
<1>4. ASSUME NEW r \in Requests, NEW b \in Admins, NEW n \in sent, VerifyOtp(r, b, n)
      PROVE  [Codes!Next]_(Codes!vars)
  BY <1>4, <1>s DEF VerifyOtp, RedeemedCodes
<1>5. CASE OtherStep
  BY <1>5, <1>s, <1>t DEF OtherStep, RedeemedCodes
<1> QED
  BY <1>1, <1>2, <1>3, <1>4, <1>5, StepKinds, <1>t

(* The stored code of an admin in Apart behaves as a one-time code: every  *)
(* write of the row issues, redeems or gives up a code as OneTimeCode      *)
(* allows, and every other step leaves both alone.                         *)
THEOREM ImplementsOneTimeCodeAlways == Spec => ImplementsOneTimeCode
<1>1. Spec => Codes!Init
  BY InitCodes DEF Spec
<1>2. CodeInv /\ CodeInv' /\ [Next]_vars => [Codes!Next]_(Codes!vars)
  BY NextCodes
<1> QED
  BY <1>1, <1>2, CodeInvAlways, PTL DEF Spec, ImplementsOneTimeCode, Codes!Spec

===============================================================================
