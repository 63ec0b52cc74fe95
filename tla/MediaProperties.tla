----------------------------- MODULE MediaProperties -----------------------------
(***************************************************************************)
(* The correctness properties of Media.                                    *)
(***************************************************************************)
EXTENDS Media

(* Every variable has its type; every path is a folder and a name. *)
TypeOK ==
  /\ provider \in Providers
  /\ store \in [Providers -> SUBSET Object]
  /\ avatars \in [Admins -> Avatar]
  /\ reqs \in [Requests -> Request]
  /\ answered \in SUBSET Upload
  /\ uuids \in Nat
  /\ served \in Nat

ObjectOf(u) == [path |-> u.path, mime |-> u.mime, file |-> u.file]
IsStored(u) == ObjectOf(u) \in store[u.via]

(* An avatar set by POST /admins/avatar names an object that is in the     *)
(* store, is an image and holds the very file that this admin sent, not    *)
(* one of a later upload: whatever fails after the store has taken a file  *)
(* or before, whoever uploads or edits meanwhile, and however often the    *)
(* process restarts with another provider.                                 *)
AvatarShowsUpload ==
  \A a \in Admins : avatars[a].via # None =>
    IsStored(avatars[a]) /\ avatars[a].mime \in Images

(* No upload is answered with a path before its file is there, and it      *)
(* stays there.                                                            *)
AnswersAreStored == \A u \in answered : IsStored(u)

(* "GET /files/* (JWT) -> streams object bytes" (storage/README.md): who   *)
(* asks for a path that an upload was answered with is not told that there *)
(* is no such file, as long as the active provider holds it.               *)
UploadsAreReadable ==
  \A r \in Requests :
    reqs[r].op = "read" /\ reqs[r].verdict = "not found" => ~Holds(reqs[r].via, reqs[r].path)

===============================================================================
