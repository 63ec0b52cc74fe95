------------------------------- MODULE MediaProofs -------------------------------
(***************************************************************************)
(* Theorems about Media, for any admins, files and slots, with failures    *)
(* and restarts.                                                           *)
(***************************************************************************)
EXTENDS MediaProperties, TLAPS

(* What holds of a request whose file may still land: nobody else has its  *)
(* path. What it sent is in the store once it has landed.                  *)
SentOf(h) == [path |-> h.path, mime |-> h.mime, file |-> h.file]
MayLand(h) == h.pc # "idle" \/ h.verdict = "failed"

RequestOK(h) ==
  /\ MayLand(h) =>
       /\ h.via \in Providers /\ h.mime \in AllowedMimes
       /\ h.path \in Path /\ h.path.name <= uuids
       /\ \A o \in store[h.via] : o.path = h.path => o = SentOf(h)
  /\ h.pc # "idle" =>
       /\ h.admin \in Admins
       /\ h.op \in {"upload", "avatar"}
       /\ h.op = "avatar" => h.mime \in Images
       /\ h.pc # "put" => SentOf(h) \in store[h.via]
       /\ h.pc \in {"find", "write"} => h.op = "avatar"

PathsDiffer ==
  \A r, q \in Requests :
    r # q /\ MayLand(reqs[r]) /\ MayLand(reqs[q]) => reqs[r].path.name # reqs[q].path.name

MediaInv ==
  /\ TypeOK
  /\ AnswersAreStored
  /\ AvatarShowsUpload
  /\ PathsDiffer
  /\ \A p \in Providers : \A o \in store[p] : o.path.name <= uuids
  /\ \A r \in Requests : RequestOK(reqs[r])

-------------------------------------------------------------------------------

LEMMA InitMedia == Init => MediaInv
<1> SUFFICES ASSUME Init PROVE MediaInv
  OBVIOUS
<1>1. TypeOK
  BY DEF Init, TypeOK, Avatar, NoUpload, Request, Idle, None
<1>2. AnswersAreStored /\ AvatarShowsUpload
  BY DEF Init, AnswersAreStored, AvatarShowsUpload, NoUpload, None
<1>3. PathsDiffer
  BY DEF Init, PathsDiffer, MayLand, Idle, None
<1>4. \A r \in Requests : RequestOK(reqs[r])
  BY DEF Init, RequestOK, MayLand, Idle, None
<1> QED
  BY <1>1, <1>2, <1>3, <1>4 DEF Init, MediaInv

(* A path that is built is new: it has the folder of its type and the next *)
(* number.                                                                 *)
LEMMA PathBuilt ==
  ASSUME NEW mime \in AllowedMimes, NEW n \in Nat
  PROVE  BuildStoragePath(mime, n) \in Path /\ BuildStoragePath(mime, n).name = n
BY DEF BuildStoragePath, Path, Folders

(* One slot changes, and nothing that the others rely on. *)
LEMMA SlotKept ==
  ASSUME MediaInv, UNCHANGED <<provider, store, uuids>>, NEW r \in Requests,
         NEW h \in Request, RequestOK(h),
         MayLand(h) => MayLand(reqs[r]) /\ h.path = reqs[r].path,
         reqs' = [reqs EXCEPT ![r] = h]
  PROVE  /\ reqs' \in [Requests -> Request]
         /\ PathsDiffer'
         /\ \A q \in Requests : RequestOK(reqs[q])'
<1>1. reqs \in [Requests -> Request]
  BY DEF MediaInv, TypeOK
<1>2. \A q \in Requests : RequestOK(reqs'[q])
  BY <1>1 DEF MediaInv
<1>3. PathsDiffer'
  BY <1>1 DEF MediaInv, PathsDiffer
<1> QED
  BY <1>1, <1>2, <1>3 DEF RequestOK

(* A request ends. *)
LEMMA FinishKept ==
  ASSUME MediaInv, UNCHANGED <<provider, store, uuids>>, NEW r \in Requests,
         NEW verdict \in {"ok", "failed"}, Finish(r, verdict), ~At(r, "idle")
  PROVE  /\ reqs' \in [Requests -> Request]
         /\ PathsDiffer'
         /\ \A q \in Requests : RequestOK(reqs[q])'
<1> DEFINE h == [reqs[r] EXCEPT !.pc = "idle", !.verdict = verdict]
<1>0. reqs[r] \in Request /\ RequestOK(reqs[r]) /\ MayLand(reqs[r])
  BY DEF MediaInv, TypeOK, MayLand, At
<1>1. h \in Request
  BY <1>0 DEF Request
<1>2. RequestOK(h) /\ h.path = reqs[r].path
  BY <1>0, <1>1 DEF RequestOK, MayLand, Request, SentOf
<1>3. reqs' = [reqs EXCEPT ![r] = h]
  BY DEF Finish
<1> HIDE DEF h
<1> QED
  BY <1>0, <1>1, <1>2, <1>3, SlotKept

(* A request goes on. *)
LEMMA GotoKept ==
  ASSUME MediaInv, UNCHANGED <<provider, store, uuids>>, NEW r \in Requests,
         NEW pc \in {"find", "write"}, Goto(r, pc), reqs[r].pc \notin {"idle", "put"},
         reqs[r].op = "avatar"
  PROVE  /\ reqs' \in [Requests -> Request]
         /\ PathsDiffer'
         /\ \A q \in Requests : RequestOK(reqs[q])'
<1> DEFINE h == [reqs[r] EXCEPT !.pc = pc]
<1>0. reqs[r] \in Request /\ RequestOK(reqs[r])
  BY DEF MediaInv, TypeOK
<1>1. h \in Request
  BY <1>0 DEF Request
<1>2. RequestOK(h) /\ h.path = reqs[r].path /\ MayLand(reqs[r])
  BY <1>0, <1>1 DEF RequestOK, MayLand, Request, SentOf
<1>3. reqs' = [reqs EXCEPT ![r] = h]
  BY DEF Goto
<1> HIDE DEF h
<1> QED
  BY <1>1, <1>2, <1>3, SlotKept

(* What a request answers or writes once its file has landed is stored. *)
LEMMA SentIsStored ==
  ASSUME MediaInv, NEW r \in Requests, reqs[r].pc \notin {"idle", "put"}
  PROVE  /\ SentVia(r) \in Upload /\ IsStored(SentVia(r))
         /\ reqs[r].admin \in Admins
         /\ reqs[r].op = "avatar" => SentVia(r).mime \in Images
         /\ SentVia(r).via # None
<1>1. reqs[r] \in Request /\ RequestOK(reqs[r]) /\ provider \in Providers
  BY DEF MediaInv, TypeOK
<1>2. reqs[r].via \in Providers /\ SentOf(reqs[r]) \in store[reqs[r].via]
  BY <1>1 DEF RequestOK, MayLand
<1> QED
  BY <1>1, <1>2
  DEF RequestOK, MayLand, Request, SentVia, SentOf, Upload, IsStored, ObjectOf, Providers, None

-------------------------------------------------------------------------------

LEMMA UploadKept ==
  ASSUME MediaInv, NEW r \in Requests, NEW a \in Admins, NEW op \in {"upload", "avatar"},
         NEW f \in Files, UploadFile(r, a, op, f)
  PROVE  MediaInv'
<1>t. TypeOK /\ served \in Nat /\ uuids \in Nat /\ provider \in Providers
      /\ reqs \in [Requests -> Request]
  BY DEF MediaInv, TypeOK
<1>u. UNCHANGED <<provider, store, avatars, answered>> /\ At(r, "idle") /\ served' = served + 1
  BY DEF UploadFile, Accept
<1>s. AnswersAreStored' /\ AvatarShowsUpload'
  BY <1>u DEF MediaInv, AnswersAreStored, AvatarShowsUpload, IsStored, ObjectOf
<1>1. CASE IsAcceptable(op, f)
  <2> DEFINE h == [pc |-> "put", op |-> op, admin |-> a, mime |-> f.mime, file |-> served + 1,
                   path |-> BuildStoragePath(f.mime, uuids + 1), verdict |-> "waiting",
                   via |-> provider]
  <2>1. reqs' = [reqs EXCEPT ![r] = h] /\ uuids' = uuids + 1
    BY <1>1 DEF UploadFile
  <2>2. f.mime \in AllowedMimes /\ (op = "avatar" => f.mime \in Images)
    BY <1>1 DEF IsAcceptable
  <2>3. h.path \in Path /\ h.path.name = uuids + 1
    BY <1>t, <2>2, PathBuilt
  <2>4. h \in Request
    <3>1. served + 1 \in Nat /\ op \in {None, "upload", "avatar", "read"}
      BY <1>t
    <3> QED
      BY <1>t, <2>2, <2>3, <3>1 DEF Request
  <2>5. h.pc = "put" /\ h.via \in Providers /\ h.mime \in AllowedMimes /\ h.admin \in Admins
        /\ h.op \in {"upload", "avatar"} /\ (h.op = "avatar" => h.mime \in Images)
    BY <1>t, <2>2
  <2> HIDE DEF h
  <2>6. \A p \in Providers : \A o \in store[p] : o.path.name <= uuids /\ o.path.name \in Nat
    BY DEF MediaInv, TypeOK, Object, Path
  <2>7. \A p \in Providers : \A o \in store'[p] : o.path.name <= uuids'
    BY <1>t, <1>u, <2>1, <2>6
  <2>8. ASSUME NEW q \in Requests PROVE RequestOK(reqs[q])'
    <3>1. CASE q = r
      <4>1. \A o \in store[h.via] : o.path # h.path
        BY <1>t, <2>3, <2>5, <2>6
      <4>2. reqs'[q] = h
        BY <1>t, <2>1, <3>1
      <4> QED
        BY <1>t, <1>u, <2>1, <2>3, <2>5, <4>1, <4>2 DEF RequestOK, MayLand
    <3>2. CASE q # r
      <4>1. reqs'[q] = reqs[q] /\ RequestOK(reqs[q]) /\ reqs[q] \in Request
        BY <1>t, <2>1, <3>2 DEF MediaInv
      <4>2. MayLand(reqs[q]) => reqs[q].path.name \in Nat
        BY <4>1 DEF RequestOK, Path
      <4> QED
        BY <1>t, <1>u, <2>1, <4>1, <4>2 DEF RequestOK
    <3> QED
      BY <3>1, <3>2
  <2>9. PathsDiffer'
    <3>1. ASSUME NEW q \in Requests, MayLand(reqs[q])
          PROVE  reqs[q].path.name # uuids + 1
      BY <1>t, <3>1 DEF MediaInv, RequestOK, Path
    <3> QED
      BY <1>t, <2>1, <2>3, <3>1 DEF MediaInv, PathsDiffer
  <2>10. reqs' \in [Requests -> Request] /\ uuids' \in Nat /\ served' \in Nat
    BY <1>t, <1>u, <2>1, <2>4
  <2> QED
    BY <1>t, <1>u, <1>s, <2>7, <2>8, <2>9, <2>10 DEF MediaInv, TypeOK
<1>2. CASE ~IsAcceptable(op, f)
  <2> DEFINE h == [Idle EXCEPT !.op = op, !.verdict = "refused"]
  <2>1. reqs' = [reqs EXCEPT ![r] = h] /\ UNCHANGED uuids
    BY <1>2 DEF UploadFile
  <2>2. h \in Request /\ ~MayLand(h) /\ RequestOK(h)
    BY DEF Request, Idle, RequestOK, MayLand, None
  <2> HIDE DEF h
  <2>3. reqs' \in [Requests -> Request] /\ PathsDiffer' /\ \A q \in Requests : RequestOK(reqs[q])'
    BY <1>u, <2>1, <2>2, SlotKept
  <2> QED
    BY <1>t, <1>u, <1>s, <2>1, <2>3 DEF MediaInv, TypeOK
<1> QED
  BY <1>1, <1>2

(* The store takes the file of a request, in time or late. *)
LEMMA LandsKept ==
  ASSUME MediaInv, NEW r \in Requests, PutLands(r) \/ LandsLate(r)
  PROVE  MediaInv'
<1> DEFINE p == reqs[r].via
           h == reqs'[r]
<1>t. TypeOK /\ reqs \in [Requests -> Request] /\ reqs[r] \in Request /\ RequestOK(reqs[r])
      /\ uuids \in Nat /\ store \in [Providers -> SUBSET Object]
  BY DEF MediaInv, TypeOK
<1>u. UNCHANGED <<provider, avatars, answered, uuids, served>> /\ MayLand(reqs[r])
  BY DEF PutLands, LandsLate, MayLand, At
<1>1. p \in Providers /\ \A o \in store[p] : o.path = reqs[r].path => o = SentOf(reqs[r])
  BY <1>t, <1>u DEF RequestOK
<1>3. Sent(r) \in Object /\ Sent(r).path = reqs[r].path /\ Sent(r) = SentOf(reqs[r])
  BY <1>t, <1>u DEF Sent, SentOf, RequestOK, Object, Request
<1>2. store' = [store EXCEPT ![p] = @ \union {Sent(r)}]
  BY <1>t, <1>1, <1>3 DEF PutLands, LandsLate, Takes
<1>4. store' \in [Providers -> SUBSET Object]
  BY <1>t, <1>1, <1>2, <1>3
<1>5. \A q \in Providers : store[q] \subseteq store'[q]
  BY <1>t, <1>2
<1>6. AnswersAreStored'
  BY <1>5, <1>u DEF MediaInv, TypeOK, AnswersAreStored, IsStored, ObjectOf, Upload
<1>7. AvatarShowsUpload'
  <2>1. ASSUME NEW a \in Admins, avatars[a].via # None PROVE avatars[a].via \in Providers
    BY <1>t, <2>1 DEF TypeOK, Avatar
  <2> QED
    BY <1>5, <1>u, <2>1 DEF MediaInv, AvatarShowsUpload, IsStored, ObjectOf
<1>8. /\ reqs' \in [Requests -> Request] /\ \A q \in Requests \ {r} : reqs'[q] = reqs[q]
      /\ reqs'[r] = reqs[r] \/ reqs'[r] = [reqs[r] EXCEPT !.pc = "landed"]
      /\ reqs'[r].pc = "idle" \/ (reqs'[r].pc = "landed" /\ reqs[r].pc = "put")
  <2> DEFINE g == [reqs[r] EXCEPT !.pc = "landed"]
  <2>1. g \in Request /\ g.pc = "landed"
    BY <1>t DEF Request
  <2>2. CASE PutLands(r)
    <3>1. reqs' = [reqs EXCEPT ![r] = g] /\ reqs[r].pc = "put"
      BY <2>2 DEF PutLands, Goto, At
    <3> HIDE DEF g
    <3>2. reqs'[r] = g
      BY <1>t, <3>1
    <3> QED
      BY <1>t, <2>1, <3>1, <3>2 DEF g
  <2>3. CASE LandsLate(r)
    BY <1>t, <2>3 DEF LandsLate, At
  <2> QED
    BY <2>2, <2>3
<1>9. /\ h \in Request /\ MayLand(h) /\ h.path = reqs[r].path /\ h.via = p
      /\ h.mime = reqs[r].mime /\ h.admin = reqs[r].admin /\ h.op = reqs[r].op
      /\ h.file = reqs[r].file
      /\ h.pc = "idle" \/ (h.pc = "landed" /\ reqs[r].pc = "put")
  BY <1>t, <1>u, <1>8 DEF Request, MayLand
<1> HIDE DEF h, p
<1>10. \A q \in Providers : \A o \in store'[q] : o.path.name <= uuids'
  <2>1. Sent(r).path.name <= uuids
    BY <1>t, <1>u, <1>3 DEF RequestOK
  <2> QED
    BY <1>t, <1>u, <1>2, <2>1 DEF MediaInv
<1>11. PathsDiffer'
  BY <1>t, <1>u, <1>8, <1>9 DEF MediaInv, PathsDiffer, h
<1>12. ASSUME NEW q \in Requests PROVE RequestOK(reqs[q])'
  <2>s. \A o \in store'[p] : o \in store[p] \/ o = Sent(r)
    BY <1>t, <1>1, <1>2
  <2>1. CASE q = r
    <3>1. reqs'[q] = h
      BY <2>1 DEF h
    <3>2. SentOf(h) = Sent(r) /\ SentOf(h) \in store'[p]
      BY <1>t, <1>1, <1>2, <1>3, <1>9 DEF SentOf
    <3>3. \A o \in store'[p] : o.path = h.path => o = SentOf(h)
      BY <1>1, <1>3, <1>9, <2>s, <3>2
    <3> QED
      BY <1>t, <1>u, <1>1, <1>9, <3>1, <3>2, <3>3 DEF RequestOK
  <2>2. CASE q # r
    <3>1. reqs'[q] = reqs[q] /\ RequestOK(reqs[q])
      BY <1>t, <1>8, <2>2 DEF MediaInv
    <3>2. MayLand(reqs[q]) => reqs[q].path # Sent(r).path
      BY <1>u, <1>3, <2>2 DEF MediaInv, PathsDiffer
    <3>3. \A x \in Providers : \A o \in store'[x] : o \in store[x] \/ o = Sent(r)
      BY <1>t, <1>2
    <3>4. \A x \in Providers : \A o \in store[x] : o \in store'[x]
      BY <1>5
    <3>5. reqs[q].pc # "idle" => MayLand(reqs[q])
      BY DEF MayLand
    <3> QED
      BY <1>t, <1>u, <3>1, <3>2, <3>3, <3>4, <3>5 DEF RequestOK
  <2> QED
    BY <2>1, <2>2
<1> QED
  BY <1>t, <1>u, <1>4, <1>6, <1>7, <1>8, <1>10, <1>11, <1>12 DEF MediaInv, TypeOK

(* The other steps leave the stores and the numbers alone. *)
LEMMA RestKept ==
  ASSUME MediaInv, UNCHANGED <<provider, store, uuids>>, served' \in Nat,
         reqs' \in [Requests -> Request], PathsDiffer', \A q \in Requests : RequestOK(reqs[q])',
         avatars' \in [Admins -> Avatar], answered' \in SUBSET Upload,
         \A a \in Admins : avatars'[a].via # None =>
           IsStored(avatars'[a]) /\ avatars'[a].mime \in Images,
         \A u \in answered' : IsStored(u)
  PROVE  MediaInv'
<1>1. AnswersAreStored' /\ AvatarShowsUpload'
  BY DEF AnswersAreStored, AvatarShowsUpload, IsStored, ObjectOf
<1> QED
  BY <1>1 DEF MediaInv, TypeOK

LEMMA NextMedia == MediaInv /\ [Next]_vars => MediaInv'
<1> SUFFICES ASSUME MediaInv, [Next]_vars PROVE MediaInv'
  OBVIOUS
<1>t. TypeOK /\ reqs \in [Requests -> Request] /\ served \in Nat /\ avatars \in [Admins -> Avatar]
      /\ answered \in SUBSET Upload /\ provider \in Providers
  BY DEF MediaInv, TypeOK
<1>s. /\ \A a \in Admins : avatars[a].via # None => IsStored(avatars[a]) /\ avatars[a].mime \in Images
      /\ \A u \in answered : IsStored(u)
  BY DEF MediaInv, AnswersAreStored, AvatarShowsUpload
<1>1. ASSUME NEW r \in Requests, NEW a \in Admins, NEW op \in {"upload", "avatar"},
             NEW f \in Files, UploadFile(r, a, op, f)
      PROVE  MediaInv'
  BY <1>1, UploadKept
<1>2. ASSUME NEW r \in Requests, NEW u \in answered, GetFile(r, u) PROVE MediaInv'
  <2> DEFINE verdict == IF Holds(provider, WithoutRoute(UrlOf(u.path))) THEN "ok" ELSE "not found"
             h == [Idle EXCEPT !.op = "read", !.path = u.path, !.via = provider,
                               !.verdict = verdict]
  <2>1. reqs' = [reqs EXCEPT ![r] = h] /\ served' = served + 1
        /\ UNCHANGED <<provider, store, avatars, answered, uuids>>
    BY <1>2 DEF GetFile, Accept
  <2>2. u.path \in Path /\ verdict \in {"ok", "not found"}
    BY <1>t DEF Upload
  <2> HIDE DEF verdict
  <2>3. h \in Request /\ ~MayLand(h) /\ RequestOK(h)
    BY <1>t, <2>2 DEF Request, Idle, RequestOK, MayLand, None
  <2> HIDE DEF h
  <2>4. reqs' \in [Requests -> Request] /\ PathsDiffer' /\ \A q \in Requests : RequestOK(reqs[q])'
    BY <2>1, <2>3, SlotKept
  <2> QED
    BY <1>t, <1>s, <2>1, <2>4, RestKept
<1>3. ASSUME NEW r \in Requests, PutLands(r) \/ LandsLate(r) PROVE MediaInv'
  BY <1>3, LandsKept
<1>4. ASSUME NEW r \in Requests, PutAnswered(r) PROVE MediaInv'
  <2>1. /\ reqs[r].pc \notin {"idle", "put"} /\ ~At(r, "idle")
        /\ UNCHANGED <<provider, store, avatars, uuids, served>>
    BY <1>4 DEF PutAnswered, At
  <2>2. reqs' \in [Requests -> Request] /\ PathsDiffer' /\ \A q \in Requests : RequestOK(reqs[q])'
    BY <1>4, <2>1, FinishKept, GotoKept DEF PutAnswered
  <2>3. answered' \in SUBSET (answered \union {SentVia(r)})
    BY <1>4 DEF PutAnswered
  <2>4. answered' \in SUBSET Upload /\ \A u \in answered' : IsStored(u)
    BY <1>t, <1>s, <2>1, <2>3, SentIsStored
  <2> QED
    BY <1>t, <1>s, <2>1, <2>2, <2>4, RestKept
<1>5. ASSUME NEW r \in Requests, FindAdmin(r) PROVE MediaInv'
  <2>1. reqs[r].pc = "find" /\ Goto(r, "write")
        /\ UNCHANGED <<provider, store, avatars, answered, uuids, served>>
    BY <1>5 DEF FindAdmin, At
  <2>0. reqs[r].pc \notin {"idle", "put"} /\ reqs[r].op = "avatar"
    BY <2>1 DEF MediaInv, RequestOK
  <2>2. reqs' \in [Requests -> Request] /\ PathsDiffer' /\ \A q \in Requests : RequestOK(reqs[q])'
    BY <2>0, <2>1, GotoKept
  <2> QED
    BY <1>t, <1>s, <2>1, <2>2, RestKept
<1>6. ASSUME NEW r \in Requests, WriteAvatar(r) PROVE MediaInv'
  <2>1. /\ reqs[r].pc \notin {"idle", "put"} /\ reqs[r].op = "avatar" /\ Finish(r, "ok")
        /\ ~At(r, "idle")
        /\ UNCHANGED <<provider, store, uuids, served>>
        /\ avatars' = [avatars EXCEPT ![reqs[r].admin] = SentVia(r)]
        /\ answered' = answered \union {SentVia(r)}
    BY <1>6, <1>t DEF WriteAvatar, At, MediaInv, RequestOK
  <2>2. reqs' \in [Requests -> Request] /\ PathsDiffer' /\ \A q \in Requests : RequestOK(reqs[q])'
    BY <2>1, FinishKept
  <2>3. SentVia(r) \in Upload /\ SentVia(r) \in Avatar /\ IsStored(SentVia(r))
        /\ SentVia(r).mime \in Images
    BY <2>1, SentIsStored DEF Upload, Avatar
  <2>4. avatars' \in [Admins -> Avatar] /\ answered' \in SUBSET Upload
        /\ \A b \in Admins : avatars'[b] \in {avatars[b], SentVia(r)}
    BY <1>t, <2>1, <2>3
  <2>5. \A b \in Admins : avatars'[b].via # None =>
           IsStored(avatars'[b]) /\ avatars'[b].mime \in Images
    BY <1>s, <2>3, <2>4
  <2>6. \A u \in answered' : IsStored(u)
    BY <1>s, <2>1, <2>3
  <2> QED
    BY <1>t, <2>1, <2>2, <2>4, <2>5, <2>6, RestKept
<1>7. ASSUME NEW r \in Requests, Fail(r) PROVE MediaInv'
  <2>1. /\ Finish(r, "failed") /\ ~At(r, "idle")
        /\ UNCHANGED <<provider, store, avatars, answered, uuids, served>>
    BY <1>7 DEF Fail
  <2>2. reqs' \in [Requests -> Request] /\ PathsDiffer' /\ \A q \in Requests : RequestOK(reqs[q])'
    BY <2>1, FinishKept
  <2> QED
    BY <1>t, <1>s, <2>1, <2>2, RestKept
<1>8. ASSUME NEW a \in Admins, EditAvatar(a) PROVE MediaInv'
  <2>1. PICK path \in {Nowhere} \union {u.path : u \in answered} :
          avatars' = [avatars EXCEPT ![a] = [NoUpload EXCEPT !.path = path]]
    BY <1>8 DEF EditAvatar
  <2>2. UNCHANGED <<provider, store, reqs, answered, uuids>> /\ served' = served + 1
    BY <1>8 DEF EditAvatar
  <2>3. [NoUpload EXCEPT !.path = path] \in Avatar /\ [NoUpload EXCEPT !.path = path].via = None
    BY <1>t DEF NoUpload, Avatar, Upload
  <2>4. avatars' \in [Admins -> Avatar]
        /\ \A b \in Admins : avatars'[b].via # None => avatars'[b] = avatars[b]
    BY <1>t, <2>1, <2>3
  <2>5. PathsDiffer' /\ \A q \in Requests : RequestOK(reqs[q])'
    BY <2>2 DEF MediaInv, PathsDiffer, RequestOK
  <2> QED
    BY <1>t, <1>s, <2>2, <2>4, <2>5, RestKept
<1>9. ASSUME NEW p \in Providers, Restart(p) PROVE MediaInv'
  <2>1. UNCHANGED <<store, avatars, answered, uuids>> /\ provider' = p /\ served' = served + 1
    BY <1>9 DEF Restart
  <2>2. ASSUME NEW q \in Requests
        PROVE  /\ reqs'[q] \in Request /\ reqs'[q].pc = "idle"
               /\ reqs'[q].path = reqs[q].path /\ reqs'[q].via = reqs[q].via
               /\ SentOf(reqs'[q]) = SentOf(reqs[q]) /\ reqs'[q].mime = reqs[q].mime
               /\ MayLand(reqs'[q]) <=> MayLand(reqs[q])
    <3>1. reqs[q] \in Request
      BY <1>t
    <3>2. CASE At(q, "idle")
      BY <1>9, <3>1, <3>2 DEF Restart, At
    <3>3. CASE ~At(q, "idle")
      <4>1. reqs'[q] = [reqs[q] EXCEPT !.pc = "idle", !.verdict = "failed"]
        BY <1>9, <3>3 DEF Restart
      <4> QED
        BY <3>1, <3>3, <4>1 DEF Request, SentOf, MayLand, At
    <3> QED
      BY <3>2, <3>3
  <2>3. reqs' \in [Requests -> Request]
    BY <1>9, <2>2 DEF Restart
  <2>4. PathsDiffer' /\ \A q \in Requests : RequestOK(reqs[q])'
    BY <2>1, <2>2 DEF MediaInv, PathsDiffer, RequestOK
  <2>5. AnswersAreStored' /\ AvatarShowsUpload'
    BY <2>1 DEF MediaInv, AnswersAreStored, AvatarShowsUpload, IsStored, ObjectOf
  <2> QED
    BY <1>t, <2>1, <2>3, <2>4, <2>5 DEF MediaInv, TypeOK
<1>10. CASE UNCHANGED vars
  <2>1. PathsDiffer' /\ \A q \in Requests : RequestOK(reqs[q])'
    BY <1>10 DEF vars, MediaInv, PathsDiffer, RequestOK
  <2> QED
    BY <1>10, <1>t, <1>s, <2>1, RestKept DEF vars
<1> QED
  BY <1>1, <1>2, <1>3, <1>4, <1>5, <1>6, <1>7, <1>8, <1>9, <1>10 DEF Next, Step, AtRest

LEMMA MediaInvAlways == Spec => []MediaInv
<1> QED
  BY InitMedia, NextMedia, PTL DEF Spec

-------------------------------------------------------------------------------

(* Every variable keeps its type. *)
THEOREM TypeCorrect == Spec => []TypeOK
<1>1. MediaInv => TypeOK
  BY DEF MediaInv
<1> QED
  BY <1>1, MediaInvAlways, PTL

(* Whatever fails, restarts or overlaps, the avatar of an admin who        *)
(* uploaded it is the very image that this admin sent, in the store.       *)
THEOREM AvatarShowsUploadAlways == Spec => []AvatarShowsUpload
<1>1. MediaInv => AvatarShowsUpload
  BY DEF MediaInv
<1> QED
  BY <1>1, MediaInvAlways, PTL

(* A path is answered only after its file is in the store, where it stays. *)
THEOREM AnswersAreStoredAlways == Spec => []AnswersAreStored
<1>1. MediaInv => AnswersAreStored
  BY DEF MediaInv
<1> QED
  BY <1>1, MediaInvAlways, PTL

===============================================================================
