--------------------------- MODULE ListingProperties ----------------------------
(***************************************************************************)
(* The correctness properties of Listing.                                  *)
(***************************************************************************)
EXTENDS Listing

(* Every variable has its type; a list holds no row twice; a page of a     *)
(* ticket list has at least one row and at most MaxSize.                   *)
TypeOK ==
  /\ kind \in Kinds
  /\ list \in Seq(1..known) /\ known <= MaxRows
  /\ \A i, j \in DOMAIN list : list[i] = list[j] => i = j
  /\ tied \in SUBSET Ids
  /\ known \in Nat /\ changes \in Nat
  /\ reader \in Reader
  /\ kind \in Clamped => reader.size \in 1..MaxSize

Seen == {x \in Ids : reader.seen[x] > 0}

Sinking == {"seller tickets", "staff tickets", "logs"}

(* Where rows leave a list only for its head or from its end (tickets and  *)
(* logs), whoever reads it to the end misses no row but those that were    *)
(* deleted or changed places meanwhile: no other row slips over the edge   *)
(* of a page.                                                              *)
OthersAreNotMissed ==
  kind \in Sinking /\ reader.pc = "done" =>
    reader.start \subseteq Seen \union reader.lost \union reader.moved

(* In any list a reader misses at most one row for each row deleted and    *)
(* each change of place while it reads. Tickets with one time stamp have   *)
(* no order, and the database may change it between two pages.             *)
MissedAtMostChanged ==
  reader.pc = "done" =>
    Cardinality(reader.start \ Seen) <= Cardinality(reader.lost) + reader.moves

(* The second and every further time that a row is delivered. *)
Again == UNION {{x} \X (2..reader.seen[x]) : x \in Ids}

(* A reader is given a row again at most once for each row that came and   *)
(* each change of place while it reads.                                    *)
RepeatedAtMostCame == Cardinality(Again) <= reader.inserts + reader.moves

(* Whatever page and size a client asks of a ticket list, no request fails *)
(* and it comes to the end of the list.                                    *)
ReadingEnds == reader.pc = "rows" ~> (reader.pc = "done" \/ kind \notin Clamped)

===============================================================================
