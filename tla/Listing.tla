--------------------------------- MODULE Listing ---------------------------------
(***************************************************************************)
(* The lists that are read page by page: tickets of a seller and of the    *)
(* staff, logs, admins, roles, permissions. A page is a slice of the list  *)
(* by position, and its answer holds a total counted by a second query. A  *)
(* client asks for one page after the other until it has seen the total;   *)
(* rows come, go and change places between any two of the queries.         *)
(*                                                                         *)
(* Left out: filters and searches (a list is what the filter lets          *)
(* through), the columns of a row, and a limit of 0, which TypeORM takes   *)
(* for none, where the code does not clamp it.                             *)
(***************************************************************************)
EXTENDS Naturals, Integers, Sequences, FiniteSets

CONSTANTS
  MaxRows,      \* bound: rows that ever exist
  MaxSize,      \* the most rows of a ticket list in a page (100 in the code)
  Pages,        \* first pages that a client asks for
  Limits,       \* page sizes that a client asks for
  Tied,         \* early tickets with equal time stamps
  MaxChanges    \* bound: changes to the list

Ids == 1..MaxRows

ASSUME BoundsArePositive == MaxRows \in Nat /\ MaxSize \in Nat \ {0} /\ MaxChanges \in Nat
ASSUME ReadersStartInFront == Pages \subseteq {n \in Int : n <= 1} /\ Limits \subseteq Int
ASSUME TiedAreRows == Tied \subseteq Ids

VARIABLES
  kind,      \* which list
  list,      \* ids of its rows in the order of the query
  tied,      \* tickets that the order of the query leaves to the database
  known,     \* rows so far
  changes,   \* changes so far
  reader     \* the client and the request that it waits for

vars == <<kind, list, tied, known, changes, reader>>

Clamped == {"seller tickets", "staff tickets"}
Kinds == Clamped \union {"logs", "admins", "roles", "permissions"}

(* seen: how often each row was delivered. The rest is history: the rows   *)
(* at the first query, and what happened to the list since.                *)
Reader ==
  [pc: {"idle", "rows", "count", "done", "failed"}, page: Int, size: Int, seen: [Ids -> Nat],
   start: SUBSET Ids, lost: SUBSET Ids, moved: SUBSET Ids, moves: Nat, inserts: Nat]

Unread ==
  [pc |-> "idle", page |-> 1, size |-> 1, seen |-> [x \in Ids |-> 0], start |-> {},
   lost |-> {}, moved |-> {}, moves |-> 0, inserts |-> 0]

RowsOf(s) == {s[i] : i \in DOMAIN s}

Init ==
  /\ kind \in Kinds
  /\ known \in 0..MaxRows
  /\ list = [i \in 1..known |-> i]
  /\ tied = IF kind \in Clamped THEN Tied \intersect RowsOf(list) ELSE {}
  /\ changes = 0
  /\ reader = Unread

-------------------------------------------------------------------------------
(* The window of a page *)

AtLeastOne(n) == IF n < 1 THEN 1 ELSE n
AtMost(most, n) == IF n > most THEN most ELSE n

(* Wrong: page 1 is the second; pages are taken for rows; what was asked   *)
(* for is used as it is.                                                   *)
SkipFromZero == reader.page * reader.size
SkipPages == reader.page - 1
PageAsked(page) == page
SizeAsked(limit) == limit

PageUsed(page) == IF kind \in Clamped THEN AtLeastOne(page) ELSE page
SizeUsed(limit) == IF kind \in Clamped THEN AtMost(MaxSize, AtLeastOne(limit)) ELSE limit
Skip == (reader.page - 1) * reader.size

(* The rows of the page; a negative OFFSET is an error (500). *)
InWindow == {list[i] : i \in {j \in DOMAIN list : Skip < j /\ j <= Skip + reader.size}}

-------------------------------------------------------------------------------
(* The client and the two queries of a request *)

Begin(page, limit) ==
  /\ reader.pc = "idle"
  /\ kind \notin Clamped => limit >= 1
  /\ reader' = [Unread EXCEPT !.pc = "rows", !.page = PageUsed(page), !.size = SizeUsed(limit),
                              !.start = RowsOf(list)]
  /\ UNCHANGED <<kind, list, tied, known, changes>>

FindRows ==
  /\ reader.pc = "rows"
  /\ reader' = IF Skip < 0
       THEN [reader EXCEPT !.pc = "failed"]
       ELSE [reader EXCEPT !.pc = "count",
               !.seen = [x \in Ids |-> IF x \in InWindow THEN @[x] + 1 ELSE @[x]]]
  /\ UNCHANGED <<kind, list, tied, known, changes>>

(* The answer says page, size and total: the client asks for the next one  *)
(* unless it is past the total.                                            *)
Count ==
  /\ reader.pc = "count"
  /\ reader.page <= MaxRows
  /\ reader' = IF reader.page * reader.size < Len(list)
       THEN [reader EXCEPT !.pc = "rows", !.page = @ + 1]
       ELSE [reader EXCEPT !.pc = "done"]
  /\ UNCHANGED <<kind, list, tied, known, changes>>

-------------------------------------------------------------------------------
(* Changes to the list *)

Reading == reader.pc \in {"rows", "count"}

(* A change is noted while the client reads. *)
Change(lost, moved, inserts) ==
  /\ changes < MaxChanges
  /\ changes' = changes + 1
  /\ reader' = IF ~Reading THEN reader
       ELSE [reader EXCEPT !.lost = @ \union lost, !.moved = @ \union moved,
               !.moves = IF moved = {} THEN @ ELSE @ + 1, !.inserts = @ + inserts]
  /\ UNCHANGED kind

Without(i) == SubSeq(list, 1, i - 1) \o SubSeq(list, i + 1, Len(list))
Inserted(s, i, x) == SubSeq(s, 1, i - 1) \o <<x>> \o SubSeq(s, i, Len(s))

(* A ticket, an admin or a role comes first; a permission comes where its  *)
(* category and name belong. Nothing in the code writes logs.              *)
Insert(i) ==
  /\ kind # "logs"
  /\ kind # "permissions" => i = 1
  /\ known < MaxRows
  /\ known' = known + 1
  /\ list' = Inserted(list, i, known + 1)
  /\ Change({}, {}, 1)
  /\ UNCHANGED tied

(* Every save of a ticket moves it to the head of the staff's list. *)
Touch(i) ==
  /\ kind = "staff tickets"
  /\ list' = <<list[i]>> \o Without(i)
  /\ tied' = tied \ {list[i]}
  /\ Change({}, {list[i]}, 0)
  /\ UNCHANGED known

(* PUT /permissions/:id sets the category and the name it is sorted by. *)
Rename(i, j) ==
  /\ kind = "permissions"
  /\ list' = Inserted(Without(i), j, list[i])
  /\ Change({}, {list[i]}, 0)
  /\ UNCHANGED <<tied, known>>

(* An admin is marked deleted, a role or a permission is deleted. *)
Remove(i) ==
  /\ kind \in {"admins", "roles", "permissions"}
  /\ list' = Without(i)
  /\ Change({list[i]}, {}, 0)
  /\ UNCHANGED <<tied, known>>

(* What is older than the cutoff is deleted, with a negative number of     *)
(* days everything.                                                        *)
DeleteOlderThan(n) ==
  /\ kind = "logs"
  /\ list' = SubSeq(list, 1, n)
  /\ Change({list[i] : i \in (n + 1)..Len(list)}, {}, 0)
  /\ UNCHANGED <<tied, known>>

(* The database returns tickets with one time stamp in another order. The  *)
(* other queries join tables, and for those TypeORM adds the id to the     *)
(* order.                                                                  *)
Swap(i) ==
  /\ {list[i], list[i + 1]} \subseteq tied
  /\ list' = [list EXCEPT ![i] = list[i + 1], ![i + 1] = list[i]]
  /\ Change({}, {list[i], list[i + 1]}, 0)
  /\ UNCHANGED <<tied, known>>

-------------------------------------------------------------------------------

AtRest ==
  /\ ~Reading \/ reader.page > MaxRows
  /\ UNCHANGED vars

Next ==
  \/ \E page \in Pages, limit \in Limits : Begin(page, limit)
  \/ FindRows
  \/ Count
  \/ \E i \in 1..(Len(list) + 1) : Insert(i)
  \/ \E i \in DOMAIN list : Touch(i) \/ Remove(i)
  \/ \E i, j \in DOMAIN list : Rename(i, j)
  \/ \E n \in 0..(Len(list) - 1) : DeleteOlderThan(n)
  \/ \E i \in 1..(Len(list) - 1) : Swap(i)
  \/ AtRest

(* A client that waits is answered, and it goes on. *)
Fairness == WF_vars(FindRows) /\ WF_vars(Count)

Spec == Init /\ [][Next]_vars /\ Fairness

===============================================================================
