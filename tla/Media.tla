---------------------------------- MODULE Media ----------------------------------
(***************************************************************************)
(* Uploaded files (src/storage, and the avatar handlers of src/admins): a  *)
(* file is put into the object store of the active provider under a fresh  *)
(* path, and the path is answered or written to the admin's row. Rows and  *)
(* objects live in different systems, and nothing ever deletes an object.  *)
(* One action per await, as in Ticketing; the store takes a file at some   *)
(* moment between the request to it and its answer.                        *)
(*                                                                         *)
(* Left out: bytes, dates and extensions in paths (a file is a number, a   *)
(* path a folder and a number for the UUID), absolute URLs, and the JWT    *)
(* guard of the handlers.                                                  *)
(***************************************************************************)
EXTENDS Naturals, Sequences

CONSTANTS
  Admins,       \* ids of admins
  Requests,     \* slots for requests in flight
  Files,        \* what a request may bring along
  MaxRequests,  \* bound: requests and restarts in a behaviour
  Faults        \* may the store or the database answer with an error?

(* A type is one of a class that the code treats alike. *)
AllowedMimes == {"image/png", "application/pdf"}
Images == {"image/png", "image/svg+xml"}
Sizes == {"missing", "empty", "fits", "too large"}

ASSUME FilesAreFiles == \A f \in Files : f.size \in Sizes
ASSUME BoundIsNatural == MaxRequests \in Nat
ASSUME FlagIsBoolean == Faults \in BOOLEAN

VARIABLES
  provider,   \* the media storage provider the process was started with
  store,      \* the objects that each provider's store holds
  avatars,    \* admins.avatar, and (history) whose file it was set to name
  reqs,       \* the request running in each slot, or its last answer
  answered,   \* the uploads answered with a path (history)
  uuids,      \* UUIDs drawn so far
  served      \* number of requests so far

vars == <<provider, store, avatars, reqs, answered, uuids, served>>

Providers == {"gcs", "static"}
None == "none"
Folders == {"images", "documents"}

Path == [dir: {<<f>> : f \in Folders}, name: Nat]
Nowhere == [dir |-> << >>, name |-> 0]   \* NULL, or an address of another site

Object == [path: Path, mime: AllowedMimes, file: Nat]

(* What is known of an upload: its object, and the store it went to. An    *)
(* avatar that was not uploaded is a path alone.                           *)
Upload == [path: Path, mime: AllowedMimes, file: Nat, via: Providers]
Avatar == [path: Path \union {Nowhere}, mime: AllowedMimes \union {None}, file: Nat,
           via: Providers \union {None}]
NoUpload == [path |-> Nowhere, mime |-> None, file |-> 0, via |-> None]

Request ==
  [pc: {"idle", "put", "landed", "find", "write"}, op: {None, "upload", "avatar", "read"},
   admin: Admins \union {None}, path: Path \union {Nowhere}, mime: AllowedMimes \union {None},
   file: Nat, verdict: {None, "waiting", "ok", "refused", "failed", "not found"},
   via: Providers \union {None}]

Idle == [pc |-> "idle", op |-> None, admin |-> None, path |-> Nowhere, mime |-> None,
         file |-> 0, verdict |-> None, via |-> None]

Init ==
  /\ provider \in Providers
  /\ store = [p \in Providers |-> {}]
  /\ avatars = [a \in Admins |-> NoUpload]
  /\ reqs = [r \in Requests |-> Idle]
  /\ answered = {}
  /\ uuids = 0
  /\ served = 0

-------------------------------------------------------------------------------
(* Helpers *)

At(r, pc) == reqs[r].pc = pc
Goto(r, pc) == reqs' = [reqs EXCEPT ![r].pc = pc]
Finish(r, verdict) == reqs' = [reqs EXCEPT ![r] = [@ EXCEPT !.pc = "idle", !.verdict = verdict]]

Accept(r) ==
  /\ At(r, "idle")
  /\ served < MaxRequests
  /\ served' = served + 1

Sent(r) == [path |-> reqs[r].path, mime |-> reqs[r].mime, file |-> reqs[r].file]
SentVia(r) == [path |-> reqs[r].path, mime |-> reqs[r].mime, file |-> reqs[r].file,
               via |-> reqs[r].via]

(* Wrong: the form field alone names the object; the route is put in its   *)
(* path.                                                                   *)
NamedByField(mime, n) == [dir |-> <<IF mime \in Images THEN "images" ELSE "documents">>, name |-> 0]
WithRoute(mime, n) ==
  [dir |-> <<"files", IF mime \in Images THEN "images" ELSE "documents">>, name |-> n]

BuildStoragePath(mime, n) ==
  [dir |-> <<IF mime \in Images THEN "images" ELSE "documents">>, name |-> n]

(* A missing or empty file, one that is too large, a type that is not      *)
(* allowed, an avatar that is no image: 400, 413 or 415.                   *)
IsAcceptable(op, f) ==
  /\ f.size = "fits"
  /\ f.mime \in AllowedMimes
  /\ op = "avatar" => f.mime \in Images

-------------------------------------------------------------------------------
(* POST /upload and POST /admins/avatar *)

UploadFile(r, a, op, f) ==
  /\ Accept(r)
  /\ IF IsAcceptable(op, f)
       THEN /\ uuids' = uuids + 1
            /\ reqs' = [reqs EXCEPT ![r] =
                 [pc |-> "put", op |-> op, admin |-> a, mime |-> f.mime, file |-> served + 1,
                  path |-> BuildStoragePath(f.mime, uuids + 1), verdict |-> "waiting",
                  via |-> provider]]
       ELSE /\ reqs' = [reqs EXCEPT ![r] = [Idle EXCEPT !.op = op, !.verdict = "refused"]]
            /\ UNCHANGED uuids
  /\ UNCHANGED <<provider, store, avatars, answered>>

(* An object that had the path is replaced. *)
Takes(p, o) == store' = [store EXCEPT ![p] = {x \in @ : x.path # o.path} \union {o}]

PutLands(r) ==
  /\ At(r, "put")
  /\ Takes(reqs[r].via, Sent(r))
  /\ Goto(r, "landed")
  /\ UNCHANGED <<provider, avatars, answered, uuids, served>>

(* Wrong: an error of the store is not noticed. *)
AnsweredAnyway(r) ==
  /\ reqs[r].pc \in {"put", "landed"}
  /\ \/ /\ reqs[r].op = "upload"
        /\ answered' = answered \union {SentVia(r)}
        /\ Finish(r, "ok")
     \/ reqs[r].op = "avatar" /\ Goto(r, "find") /\ UNCHANGED answered
  /\ UNCHANGED <<provider, store, avatars, uuids, served>>

PutAnswered(r) ==
  /\ At(r, "landed")
  /\ \/ /\ reqs[r].op = "upload"
        /\ answered' = answered \union {SentVia(r)}
        /\ Finish(r, "ok")
     \/ reqs[r].op = "avatar" /\ Goto(r, "find") /\ UNCHANGED answered
  /\ UNCHANGED <<provider, store, avatars, uuids, served>>

(* updateAvatar looks for the admin, who is there: rows are never deleted. *)
FindAdmin(r) ==
  /\ At(r, "find")
  /\ Goto(r, "write")
  /\ UNCHANGED <<provider, store, avatars, answered, uuids, served>>

WriteAvatar(r) ==
  /\ At(r, "write")
  /\ avatars' = [avatars EXCEPT ![reqs[r].admin] = SentVia(r)]
  /\ answered' = answered \union {SentVia(r)}
  /\ Finish(r, "ok")
  /\ UNCHANGED <<provider, store, uuids, served>>

(* The store answers with an error or not in time (400), or the database   *)
(* does (500): a file that has landed stays where it is.                   *)
Fail(r) ==
  /\ Faults
  /\ ~At(r, "idle")
  /\ Finish(r, "failed")
  /\ UNCHANGED <<provider, store, avatars, answered, uuids, served>>

(* The store takes a file after the request for it has failed, or after    *)
(* the process that sent it has stopped.                                   *)
LandsLate(r) ==
  /\ At(r, "idle") /\ reqs[r].verdict = "failed"
  /\ Sent(r) \notin store[reqs[r].via]
  /\ Takes(reqs[r].via, Sent(r))
  /\ UNCHANGED <<provider, avatars, reqs, answered, uuids, served>>

-------------------------------------------------------------------------------
(* GET /files/... *)

GlobalPrefix == <<"api-admin">>   \* app.setGlobalPrefix

UrlOf(path) == [path EXCEPT !.dir = GlobalPrefix \o <<"files">> \o @]

(* req.path without a leading /files. *)
WithoutRoute(url) == IF Head(url.dir) = "files" THEN [url EXCEPT !.dir = Tail(@)] ELSE url

Holds(p, path) == \E o \in store[p] : o.path = path

(* A client asks for a path that it was answered. *)
GetFile(r, u) ==
  /\ Accept(r)
  /\ reqs' = [reqs EXCEPT ![r] =
       [Idle EXCEPT !.op = "read", !.path = u.path, !.via = provider,
          !.verdict = IF Holds(provider, WithoutRoute(UrlOf(u.path))) THEN "ok" ELSE "not found"]]
  /\ UNCHANGED <<provider, store, avatars, answered, uuids>>

-------------------------------------------------------------------------------
(* The surroundings *)

(* PUT /admins/:id writes whatever text the request gives. *)
EditAvatar(a) ==
  /\ served < MaxRequests
  /\ served' = served + 1
  /\ \E path \in {Nowhere} \union {u.path : u \in answered} :
       avatars' = [avatars EXCEPT ![a] = [NoUpload EXCEPT !.path = path]]
  /\ UNCHANGED <<provider, store, reqs, answered, uuids>>

(* The process stops, with all its requests, and starts with the provider  *)
(* that its configuration names by now.                                    *)
Restart(p) ==
  /\ served < MaxRequests
  /\ served' = served + 1
  /\ provider' = p
  /\ reqs' = [r \in Requests |->
       IF At(r, "idle") THEN reqs[r] ELSE [reqs[r] EXCEPT !.pc = "idle", !.verdict = "failed"]]
  /\ UNCHANGED <<store, avatars, answered, uuids>>

Step(r) == PutLands(r) \/ PutAnswered(r) \/ FindAdmin(r) \/ WriteAvatar(r)

AtRest ==
  /\ served = MaxRequests
  /\ \A r \in Requests : At(r, "idle")
  /\ UNCHANGED vars

Next ==
  \/ \E r \in Requests :
       \/ \E a \in Admins, op \in {"upload", "avatar"}, f \in Files : UploadFile(r, a, op, f)
       \/ \E u \in answered : GetFile(r, u)
       \/ Step(r)
       \/ Fail(r)
       \/ LandsLate(r)
  \/ \E a \in Admins : EditAvatar(a)
  \/ \E p \in Providers : Restart(p)
  \/ AtRest

Spec == Init /\ [][Next]_vars

===============================================================================
