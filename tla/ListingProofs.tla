------------------------------ MODULE ListingProofs ------------------------------
(***************************************************************************)
(* What is proved of Listing, for lists and page sizes of any length: in a *)
(* list whose rows only sink, a reader misses none but those that were     *)
(* deleted or changed places; in any list it misses, and is given again,   *)
(* at most one for each change. The invariants behind it are about where   *)
(* the rows stand that are still to be read, that may still be missed, and *)
(* that may still come again.                                              *)
(***************************************************************************)
EXTENDS ListingProperties, FiniteSetTheorems, TLAPS

Typed ==
  /\ known \in 0..MaxRows
  /\ list \in Seq(1..known)
  /\ reader \in Reader
  /\ reader.start \subseteq 1..known

(* The reader has passed the rows above this position. *)
Passed == IF reader.pc = "rows" THEN (reader.page - 1) * reader.size
                                ELSE reader.page * reader.size

Due == reader.start \ (Seen \union reader.moved)

NoneVanished == Reading => reader.start \subseteq RowsOf(list) \union reader.lost
DueAreBelow == Reading => \A i \in DOMAIN list : list[i] \in Due => i > Passed

IInv ==
  /\ Typed
  /\ kind \in Sinking => NoneVanished /\ DueAreBelow /\ OthersAreNotMissed

-------------------------------------------------------------------------------
(* Lists *)

(* Two lists are joined. *)
LEMMA Join ==
  ASSUME NEW S, NEW a \in Seq(S), NEW b \in Seq(S)
  PROVE  /\ a \o b \in Seq(S)
         /\ Len(a \o b) = Len(a) + Len(b)
         /\ \A j \in 1..Len(a) : (a \o b)[j] = a[j]
         /\ \A j \in (Len(a) + 1)..(Len(a) + Len(b)) : (a \o b)[j] = b[j - Len(a)]
  OBVIOUS

(* t is s without its i-th row: those below it rise by one. *)
LacksOne(t, s, i) ==
  /\ Len(t) = Len(s) - 1
  /\ \A j \in 1..(i - 1) : t[j] = s[j]
  /\ \A j \in i..(Len(s) - 1) : t[j] = s[j + 1]

(* t is s with x put before its rows. *)
HasFirst(t, s, x) ==
  /\ Len(t) = Len(s) + 1
  /\ t[1] = x
  /\ \A i \in 1..Len(s) : t[i + 1] = s[i]

IsAbove(a, s, i) == Len(a) = i - 1 /\ \A j \in 1..(i - 1) : a[j] = s[j]
IsBelow(b, s, i) == Len(b) = Len(s) - i /\ \A j \in 1..(Len(s) - i) : b[j] = s[i + j]

LEMMA Prepend ==
  ASSUME NEW S, NEW s \in Seq(S), NEW x \in S
  PROVE  <<x>> \o s \in Seq(S) /\ HasFirst(<<x>> \o s, s, x)
  BY DEF HasFirst

LEMMA Close ==
  ASSUME NEW S, NEW s \in Seq(S), NEW i \in 1..Len(s),
         NEW a \in Seq(S), IsAbove(a, s, i), NEW b \in Seq(S), IsBelow(b, s, i)
  PROVE  a \o b \in Seq(S) /\ LacksOne(a \o b, s, i)
  <1>1. a \o b \in Seq(S) /\ Len(a \o b) = Len(s) - 1
    <2>1. a \o b \in Seq(S) /\ Len(a \o b) = Len(a) + Len(b)
      BY Join, Zenon
    <2>2. Len(s) \in Nat /\ i \in Int
      OBVIOUS
    <2> QED
      BY <2>1, <2>2 DEF IsAbove, IsBelow
  <1>2. \A j \in 1..(i - 1) : (a \o b)[j] = s[j]
    BY DEF IsAbove
  <1>3. ASSUME NEW j \in i..(Len(s) - 1) PROVE (a \o b)[j] = s[j + 1]
    <2>1. (a \o b)[j] = b[j - (i - 1)]
      BY DEF IsAbove, IsBelow
    <2>2. j - (i - 1) \in 1..(Len(s) - i) /\ i + (j - (i - 1)) = j + 1
      OBVIOUS
    <2> QED
      BY <2>1, <2>2 DEF IsBelow
  <1> QED
    BY <1>1, <1>2, <1>3 DEF LacksOne

LEMMA TakeOut ==
  ASSUME NEW S, NEW s \in Seq(S), NEW i \in 1..Len(s)
  PROVE  /\ SubSeq(s, 1, i - 1) \o SubSeq(s, i + 1, Len(s)) \in Seq(S)
         /\ LacksOne(SubSeq(s, 1, i - 1) \o SubSeq(s, i + 1, Len(s)), s, i)
  <1> DEFINE above == SubSeq(s, 1, i - 1)
             below == SubSeq(s, i + 1, Len(s))
  <1>1. above \in Seq(S) /\ IsAbove(above, s, i)
    BY DEF IsAbove
  <1>2. below \in Seq(S) /\ IsBelow(below, s, i)
    BY DEF IsBelow
  <1> HIDE DEF above, below
  <1>3. above \o below \in Seq(S) /\ LacksOne(above \o below, s, i)
    BY <1>1, <1>2, Close, Zenon
  <1> QED
    BY <1>3, Zenon DEF above, below

(* A row is put somewhere. *)
LEMMA PutIn ==
  ASSUME NEW S, NEW s \in Seq(S), NEW i \in 1..(Len(s) + 1), NEW x \in S
  PROVE  /\ Inserted(s, i, x) \in Seq(S)
         /\ i = 1 => Inserted(s, i, x) = <<x>> \o s
  <1>1. SubSeq(s, 1, i - 1) \in Seq(S) /\ SubSeq(s, i, Len(s)) \in Seq(S) /\ <<x>> \in Seq(S)
    OBVIOUS
  <1>2. Inserted(s, i, x) \in Seq(S)
    <2>1. SubSeq(s, 1, i - 1) \o <<x>> \in Seq(S)
      BY <1>1, Join
    <2> QED
      BY <1>1, <2>1, Join DEF Inserted
  <1>3. ASSUME i = 1 PROVE Inserted(s, i, x) = <<x>> \o s
    <2>1. SubSeq(s, 1, i - 1) = << >> /\ SubSeq(s, i, Len(s)) = s
      BY <1>3
    <2>2. << >> \o <<x>> = <<x>>
      OBVIOUS
    <2> QED
      BY <2>1, <2>2 DEF Inserted
  <1> QED
    BY <1>2, <1>3

LEMMA NotAbove ==
  ASSUME NEW p \in Int, p <= 0, NEW n \in Nat
  PROVE  p * n <= 0
  OBVIOUS

LEMMA NextPage ==
  ASSUME NEW p \in Int, NEW n \in Int
  PROVE  p * n = (p - 1) * n + n
  OBVIOUS

-------------------------------------------------------------------------------
(* The client *)

LEMMA InitKeeps == Init => IInv
  <1> SUFFICES ASSUME Init PROVE IInv
    OBVIOUS
  <1>1. reader = Unread /\ ~Reading /\ reader.pc = "idle"
    BY DEF Init, Unread, Reading
  <1>2. Unread \in Reader
    BY DEF Unread, Reader
  <1>3. Typed
    BY <1>1, <1>2, BoundsArePositive DEF Init, Typed, Unread
  <1> QED
    BY <1>1, <1>3 DEF IInv, NoneVanished, DueAreBelow, OthersAreNotMissed

(* The first page is asked for: the reader has passed nothing. *)
LEMMA Begins ==
  ASSUME IInv, NEW page \in Pages, NEW limit \in Limits, Begin(page, limit)
  PROVE  /\ kind' = kind /\ list' = list /\ known' = known /\ tied' = tied /\ changes' = changes
         /\ reader' \in Reader /\ reader'.pc = "rows" /\ reader'.start = RowsOf(list)
         /\ reader'.seen = Unread.seen /\ reader'.lost = {} /\ reader'.moves = 0
         /\ reader'.inserts = 0 /\ reader'.size \in Nat
         /\ kind \in Clamped => reader'.size \in 1..MaxSize
         /\ RowsOf(list) \subseteq 1..known
         /\ Passed' \in Int /\ Passed' <= 0
  <1> DEFINE p == PageUsed(page)
             n == SizeUsed(limit)
  <1>1. page \in Int /\ page <= 1 /\ limit \in Int
    BY ReadersStartInFront
  <1>2. p \in Int /\ p <= 1 /\ n \in Int
    BY <1>1, BoundsArePositive DEF PageUsed, SizeUsed, AtLeastOne, AtMost
  <1>3. n >= 1 /\ (kind \in Clamped => n \in 1..MaxSize)
    BY <1>1, BoundsArePositive DEF Begin, SizeUsed, AtLeastOne, AtMost
  <1> HIDE DEF p, n
  <1>4. /\ kind' = kind /\ list' = list /\ known' = known /\ tied' = tied /\ changes' = changes
        /\ reader' = [Unread EXCEPT !.pc = "rows", !.page = p, !.size = n,
                                    !.start = RowsOf(list)]
    BY DEF Begin, p, n
  <1>5. RowsOf(list) \subseteq 1..known /\ 1..known \subseteq Ids
    BY BoundsArePositive DEF IInv, Typed, RowsOf, Ids
  <1>6. reader' \in Reader
    BY <1>2, <1>4, <1>5 DEF Unread, Reader
  <1>7. /\ reader'.pc = "rows" /\ reader'.page = p /\ reader'.size = n
        /\ reader'.start = RowsOf(list) /\ reader'.seen = Unread.seen
        /\ reader'.lost = {} /\ reader'.moves = 0 /\ reader'.inserts = 0
    BY <1>4 DEF Unread
  <1>8. (p - 1) * n <= 0
    BY <1>2, <1>3, NotAbove
  <1>9. Passed' <= 0 /\ Passed' \in Int
    BY <1>2, <1>7, <1>8 DEF Passed
  <1> QED
    BY <1>2, <1>3, <1>4, <1>5, <1>6, <1>7, <1>9

LEMMA BeginKeeps ==
  ASSUME IInv, NEW page \in Pages, NEW limit \in Limits, Begin(page, limit)
  PROVE  IInv'
  <1>1. Typed'
    BY Begins DEF IInv, Typed
  <1>2. DueAreBelow'
    BY Begins DEF DueAreBelow, IInv, Typed
  <1>3. NoneVanished'
    BY Begins DEF NoneVanished, RowsOf
  <1>4. OthersAreNotMissed'
    BY Begins DEF OthersAreNotMissed
  <1> QED
    BY <1>1, <1>2, <1>3, <1>4 DEF IInv

(* The rows of a page are read: what has been passed now was passed before *)
(* or is in the window.                                                    *)
LEMMA RowsAreFound ==
  ASSUME IInv, FindRows, ~(Skip < 0)
  PROVE  /\ reader' \in Reader /\ reader.pc = "rows" /\ reader'.pc = "count"
         /\ reader'.start = reader.start /\ reader'.lost = reader.lost
         /\ reader'.moved = reader.moved /\ reader'.moves = reader.moves
         /\ reader'.size = reader.size
         /\ Seen' = Seen \union (InWindow \intersect Ids)
         /\ Passed \in Int /\ Passed' \in Int
         /\ \A i \in DOMAIN list :
              list[i] \in Ids /\ i \in Int /\ (i <= Passed' => i <= Passed \/ list[i] \in InWindow)
  <1> DEFINE seen == [x \in Ids |-> IF x \in InWindow THEN reader.seen[x] + 1
                                                      ELSE reader.seen[x]]
  <1>1. reader \in Reader /\ reader.pc = "rows"
    BY DEF IInv, Typed, FindRows
  <1>2. reader' = [reader EXCEPT !.pc = "count", !.seen = seen]
    BY DEF FindRows
  <1>3. seen \in [Ids -> Nat]
    BY <1>1 DEF Reader
  <1>4. \A x \in Ids : seen[x] > 0 <=> reader.seen[x] > 0 \/ x \in InWindow
    BY <1>1 DEF Reader
  <1> HIDE DEF seen
  <1>5. /\ reader' \in Reader /\ reader'.pc = "count" /\ reader'.seen = seen
        /\ reader'.start = reader.start /\ reader'.lost = reader.lost
        /\ reader'.moved = reader.moved /\ reader'.moves = reader.moves
        /\ reader'.page = reader.page /\ reader'.size = reader.size
    BY <1>1, <1>2, <1>3 DEF Reader
  <1>6. Seen' = Seen \union (InWindow \intersect Ids)
    BY <1>4, <1>5 DEF Seen
  <1>7. reader.page \in Int /\ reader.size \in Int
    BY <1>1 DEF Reader
  <1>8. Passed' = Skip + reader.size /\ Passed = Skip /\ Skip \in Int
    BY <1>1, <1>5, <1>7, NextPage DEF Passed, Skip
  <1>9. ASSUME NEW i \in DOMAIN list
        PROVE  list[i] \in Ids /\ i \in Int /\ (i <= Passed' => i <= Passed \/ list[i] \in InWindow)
    <2>1. list[i] \in Ids /\ i \in Int
      BY BoundsArePositive DEF IInv, Typed, Ids
    <2>2. ASSUME i <= Passed', ~(i <= Passed)
          PROVE  list[i] \in InWindow
      BY <1>7, <1>8, <2>1, <2>2 DEF InWindow
    <2> QED
      BY <2>1, <2>2
  <1> QED
    BY <1>1, <1>5, <1>6, <1>7, <1>8, <1>9

LEMMA FindRowsKeeps ==
  ASSUME IInv, FindRows
  PROVE  IInv'
  <1>1. kind' = kind /\ list' = list /\ known' = known /\ reader \in Reader
    BY DEF FindRows, IInv, Typed
  <1>2. CASE Skip < 0
    <2>1. reader' = [reader EXCEPT !.pc = "failed"]
      BY <1>2 DEF FindRows
    <2>2. reader' \in Reader /\ reader'.pc = "failed" /\ reader'.start = reader.start
      BY <1>1, <2>1 DEF Reader
    <2> QED
      BY <1>1, <2>2 DEF IInv, Typed, NoneVanished, DueAreBelow, Reading, OthersAreNotMissed
  <1>3. CASE ~(Skip < 0)
    <2>1. Reading
      BY DEF FindRows, Reading
    <2>2. Typed'
      BY <1>1, <1>3, RowsAreFound DEF IInv, Typed
    <2>3. ASSUME kind \in Sinking PROVE DueAreBelow'
      <3> SUFFICES ASSUME NEW i \in DOMAIN list, list[i] \in Due' PROVE i > Passed'
        BY <1>1 DEF DueAreBelow
      <3>1. list[i] \in Due /\ list[i] \notin InWindow
        BY <1>3, RowsAreFound DEF Due
      <3>2. i > Passed
        BY <2>1, <2>3, <3>1 DEF IInv, DueAreBelow
      <3> QED
        BY <1>3, <3>1, <3>2, RowsAreFound
    <2>4. kind \in Sinking => NoneVanished'
      BY <1>1, <1>3, <2>1, RowsAreFound DEF IInv, NoneVanished, RowsOf
    <2>5. OthersAreNotMissed'
      BY <1>3, RowsAreFound DEF OthersAreNotMissed
    <2> QED
      BY <1>1, <2>2, <2>3, <2>4, <2>5 DEF IInv
  <1> QED
    BY <1>2, <1>3

(* The answer to a page: the client goes on where it is, or it is past all *)
(* the rows.                                                               *)
LEMMA Counts ==
  ASSUME IInv, Count
  PROVE  /\ kind' = kind /\ list' = list /\ known' = known /\ tied' = tied /\ changes' = changes
         /\ Reading /\ reader' \in Reader /\ reader'.size = reader.size
         /\ reader'.start = reader.start /\ reader'.lost = reader.lost
         /\ reader'.moved = reader.moved /\ reader'.moves = reader.moves
         /\ Seen' = Seen /\ reader'.seen = reader.seen /\ reader'.inserts = reader.inserts
         /\ \/ reader'.pc = "rows" /\ Passed' = Passed
            \/ reader'.pc = "done" /\ \A i \in DOMAIN list : i <= Passed
  <1>1. /\ reader \in Reader /\ Reading /\ reader.pc = "count"
    BY DEF Count, IInv, Typed, Reading
  <1>2. reader.page \in Int /\ reader.size \in Int
    BY <1>1 DEF Reader
  <1>3. CASE reader.page * reader.size < Len(list)
    <2> DEFINE next == reader.page + 1
    <2>1. reader' = [reader EXCEPT !.pc = "rows", !.page = next]
      BY <1>3 DEF Count
    <2>2. next \in Int /\ next - 1 = reader.page
      BY <1>2
    <2> HIDE DEF next
    <2>3. /\ reader' \in Reader /\ reader'.pc = "rows" /\ reader'.page = next
          /\ reader'.start = reader.start /\ reader'.lost = reader.lost
          /\ reader'.moved = reader.moved /\ reader'.moves = reader.moves
          /\ reader'.size = reader.size /\ reader'.seen = reader.seen
          /\ reader'.inserts = reader.inserts
      BY <1>1, <2>1, <2>2 DEF Reader
    <2>4. Passed' = Passed
      BY <1>1, <1>2, <2>2, <2>3 DEF Passed
    <2> QED
      BY <1>1, <2>3, <2>4 DEF Count, Seen
  <1>4. CASE ~(reader.page * reader.size < Len(list))
    <2>1. reader' = [reader EXCEPT !.pc = "done"]
      BY <1>4 DEF Count
    <2>2. /\ reader' \in Reader /\ reader'.pc = "done" /\ reader'.start = reader.start
          /\ reader'.lost = reader.lost /\ reader'.moved = reader.moved
          /\ reader'.moves = reader.moves /\ reader'.size = reader.size
          /\ reader'.seen = reader.seen /\ reader'.inserts = reader.inserts
      BY <1>1, <2>1 DEF Reader
    <2>3. ASSUME NEW i \in DOMAIN list PROVE i <= Passed
      <3>1. i \in Int /\ i <= Len(list) /\ Len(list) \in Int
        BY DEF IInv, Typed
      <3>2. Passed = reader.page * reader.size /\ Passed \in Int
        BY <1>1, <1>2 DEF Passed
      <3> QED
        BY <1>4, <3>1, <3>2
    <2> QED
      BY <1>1, <2>2, <2>3 DEF Count, Seen
  <1> QED
    BY <1>3, <1>4

LEMMA CountKeeps ==
  ASSUME IInv, Count
  PROVE  IInv'
  <1>1. Typed'
    BY Counts DEF IInv, Typed
  <1>2. Due' = Due
    BY Counts DEF Due
  <1>3. CASE reader'.pc = "rows"
    BY <1>1, <1>2, <1>3, Counts
    DEF IInv, NoneVanished, DueAreBelow, OthersAreNotMissed, RowsOf
  <1>4. CASE reader'.pc = "done"
    <2>1. ASSUME kind \in Sinking, NEW x \in reader.start
          PROVE x \in Seen \union reader.lost \union reader.moved
      <3>1. x \in RowsOf(list) \union reader.lost
        BY <2>1, Counts DEF IInv, NoneVanished
      <3>2. ASSUME x \in RowsOf(list), x \in Due PROVE FALSE
        <4>1. PICK i \in DOMAIN list : list[i] = x
          BY <3>2 DEF RowsOf
        <4>2. i > Passed /\ i <= Passed
          BY <1>4, <2>1, <3>2, <4>1, Counts DEF IInv, DueAreBelow
        <4>3. i \in Int /\ Passed \in Int
          BY DEF IInv, Typed, Passed, Reader
        <4> QED
          BY <4>2, <4>3
      <3> QED
        BY <3>1, <3>2, <2>1 DEF Due
    <2>2. ~Reading'
      BY <1>4 DEF Reading
    <2> QED
      BY <1>1, <2>1, <2>2, Counts DEF IInv, NoneVanished, DueAreBelow, OthersAreNotMissed
  <1> QED
    BY <1>3, <1>4, Counts

-------------------------------------------------------------------------------
(* Changes to the list *)

(* What a change writes down of itself. *)
LEMMA ChangeIsNoted ==
  ASSUME IInv, NEW lost \in SUBSET Ids, NEW moved \in SUBSET Ids, NEW inserts \in Nat,
         Change(lost, moved, inserts)
  PROVE  /\ kind' = kind
         /\ reader' \in Reader
         /\ reader'.start = reader.start
         /\ ~Reading => reader' = reader
         /\ Reading => /\ reader'.pc = reader.pc
                       /\ reader'.page = reader.page /\ reader'.size = reader.size
                       /\ reader'.seen = reader.seen
                       /\ reader'.lost = reader.lost \union lost
                       /\ reader'.moved = reader.moved \union moved
                       /\ reader'.moves = IF moved = {} THEN reader.moves ELSE reader.moves + 1
                       /\ reader'.inserts = reader.inserts + inserts
  <1>1. reader \in Reader
    BY DEF IInv, Typed
  <1>2. CASE ~Reading
    BY <1>1, <1>2 DEF Change
  <1>3. CASE Reading
    <2> DEFINE k == IF moved = {} THEN reader.moves ELSE reader.moves + 1
               n == reader.inserts + inserts
               out == reader.lost \union lost
               to == reader.moved \union moved
    <2>1. reader' = [reader EXCEPT !.lost = out, !.moved = to, !.moves = k, !.inserts = n]
      BY <1>3 DEF Change
    <2>2. k \in Nat /\ n \in Nat
      BY <1>1 DEF Reader
    <2>3. out \in SUBSET Ids /\ to \in SUBSET Ids
      BY <1>1 DEF Reader
    <2> HIDE DEF k, n, out, to
    <2>4. reader' \in Reader
      BY <1>1, <2>1, <2>2, <2>3 DEF Reader
    <2>5. /\ reader'.start = reader.start /\ reader'.pc = reader.pc
          /\ reader'.page = reader.page /\ reader'.size = reader.size
          /\ reader'.seen = reader.seen /\ reader'.lost = out /\ reader'.moved = to
          /\ reader'.moves = k /\ reader'.inserts = n
      BY <1>1, <2>1 DEF Reader
    <2> QED
      BY <1>3, <2>4, <2>5 DEF Change, out, to, k, n
  <1> QED
    BY <1>2, <1>3

(* A change keeps the invariant when the list stays one of rows, no row    *)
(* vanishes but for those that are noted, and no due row rises.            *)
LEMMA ChangeKeeps ==
  ASSUME IInv, NEW lost \in SUBSET Ids, NEW moved \in SUBSET Ids, NEW inserts \in Nat,
         Change(lost, moved, inserts),
         known' \in 0..MaxRows, known' >= known, list' \in Seq(1..known'),
         kind \in Sinking => RowsOf(list) \subseteq RowsOf(list)' \union lost,
         kind \in Sinking =>
           \A i \in DOMAIN list' :
             list'[i] \in (1..known) \ moved =>
               \E j \in DOMAIN list : j <= i /\ list[j] = list'[i]
  PROVE  IInv'
  <1>1. /\ kind' = kind
        /\ reader' \in Reader
        /\ reader'.start = reader.start
        /\ ~Reading => reader' = reader
        /\ Reading => /\ reader'.pc = reader.pc
                      /\ reader'.page = reader.page /\ reader'.size = reader.size
                      /\ reader'.seen = reader.seen
                      /\ reader'.lost = reader.lost \union lost
                      /\ reader'.moved = reader.moved \union moved
    BY ChangeIsNoted
  <1>2. Typed'
    BY <1>1, BoundsArePositive DEF IInv, Typed
  <1>3. CASE ~Reading
    <2>1. ~Reading'
      BY <1>1, <1>3 DEF Reading
    <2> QED
      BY <1>1, <1>2, <1>3, <2>1
      DEF IInv, NoneVanished, DueAreBelow, OthersAreNotMissed, Seen
  <1>4. CASE Reading
    <2> SUFFICES ASSUME kind \in Sinking
                 PROVE  NoneVanished' /\ DueAreBelow' /\ OthersAreNotMissed'
      BY <1>1, <1>2 DEF IInv
    <2>1. NoneVanished'
      BY <1>1, <1>4 DEF IInv, NoneVanished
    <2>2. OthersAreNotMissed'
      BY <1>1, <1>4 DEF OthersAreNotMissed, Reading
    <2>3. Due' \subseteq Due \ moved /\ Due \subseteq 1..known
      BY <1>1, <1>4 DEF Due, Seen, IInv, Typed
    <2>4. Passed' = Passed
      BY <1>1, <1>4 DEF Passed
    <2>5. Passed \in Int
      BY DEF Passed, IInv, Typed, Reader
    <2>6. ASSUME NEW i \in DOMAIN list', list'[i] \in Due' PROVE i > Passed'
      <3>1. PICK j \in DOMAIN list : j <= i /\ list[j] = list'[i]
        BY <2>3, <2>6
      <3>2. j > Passed
        BY <1>4, <2>3, <2>6, <3>1 DEF IInv, DueAreBelow
      <3>3. i \in Int /\ j \in Int
        BY DEF IInv, Typed
      <3> QED
        BY <2>4, <2>5, <3>1, <3>2, <3>3
    <2>7. DueAreBelow'
      BY <2>6 DEF DueAreBelow
    <2> QED
      BY <2>1, <2>2, <2>7
  <1> QED
    BY <1>3, <1>4

LEMMA InsertKeeps ==
  ASSUME IInv, NEW i \in 1..(Len(list) + 1), Insert(i)
  PROVE  IInv'
  <1> DEFINE x == known + 1
  <1>1. /\ list \in Seq(1..known) /\ known \in Nat /\ known < MaxRows /\ MaxRows \in Nat
        /\ known' = x /\ list' = Inserted(list, i, x)
    BY BoundsArePositive DEF IInv, Typed, Insert
  <1>2. list \in Seq(1..x) /\ x \in 1..x /\ x \in 0..MaxRows /\ x >= known
    BY <1>1
  <1>3. list' \in Seq(1..known')
    BY <1>1, <1>2, PutIn
  <1>4. ASSUME kind \in Sinking
        PROVE  /\ RowsOf(list) \subseteq RowsOf(list)' \union {}
               /\ \A n \in DOMAIN list' :
                    list'[n] \in (1..known) \ {} =>
                      \E j \in DOMAIN list : j <= n /\ list[j] = list'[n]
    <2>1. i = 1
      BY <1>4 DEF Sinking, Insert
    <2>2. list' = <<x>> \o list
      BY <1>1, <1>2, <2>1, PutIn
    <2>3. /\ Len(list') = Len(list) + 1 /\ list'[1] = x
          /\ \A j \in 1..Len(list) : list'[j + 1] = list[j]
      BY <1>2, <2>2, Prepend DEF HasFirst
    <2>4. Len(list) \in Nat /\ DOMAIN list = 1..Len(list) /\ DOMAIN list' = 1..(Len(list) + 1)
      BY <1>1, <1>3, <2>3
    <2>5. RowsOf(list) \subseteq RowsOf(list')
      <3> SUFFICES ASSUME NEW j \in 1..Len(list) PROVE list[j] \in RowsOf(list')
        BY <2>4 DEF RowsOf
      <3>1. j + 1 \in DOMAIN list' /\ list'[j + 1] = list[j]
        BY <2>3, <2>4
      <3> QED
        BY <3>1 DEF RowsOf
    <2>6. ASSUME NEW n \in DOMAIN list', list'[n] \in 1..known
          PROVE  \E j \in DOMAIN list : j <= n /\ list[j] = list'[n]
      <3>1. n # 1
        BY <1>1, <2>3, <2>6
      <3>2. n - 1 \in 1..Len(list) /\ n - 1 <= n /\ (n - 1) + 1 = n
        BY <2>4, <2>6, <3>1
      <3> QED
        BY <2>3, <2>4, <3>2
    <2> QED
      BY <2>5, <2>6 DEF RowsOf
  <1>5. Change({}, {}, 1)
    BY DEF Insert
  <1> HIDE DEF x
  <1> QED
    BY <1>1, <1>2, <1>3, <1>4, <1>5, ChangeKeeps

LEMMA TouchKeeps ==
  ASSUME IInv, NEW i \in DOMAIN list, Touch(i)
  PROVE  IInv'
  <1> DEFINE rest == Without(i)
  <1>1. /\ list \in Seq(1..known) /\ known \in 0..MaxRows /\ known \in Int
        /\ MaxRows \in Nat
    BY BoundsArePositive DEF IInv, Typed
  <1>2. list' = <<list[i]>> \o rest /\ known' = known /\ Change({}, {list[i]}, 0)
    BY DEF Touch
  <1>3. i \in 1..Len(list)
    BY <1>1
  <1>4. list[i] \in 1..known
    BY <1>1, <1>3
  <1>5. rest \in Seq(1..known) /\ LacksOne(rest, list, i)
    BY <1>1, <1>3, TakeOut, Zenon DEF Without
  <1> HIDE DEF rest
  <1>6. /\ DOMAIN list = 1..Len(list) /\ Len(list) \in Nat /\ i \in 1..Len(list)
        /\ known \in Int /\ list[i] \in 1..known
    BY <1>1
  <1>7. /\ rest \in Seq(1..known) /\ Len(rest) = Len(list) - 1
        /\ \A j \in 1..(i - 1) : rest[j] = list[j]
        /\ \A j \in i..(Len(list) - 1) : rest[j] = list[j + 1]
    BY <1>5 DEF LacksOne
  <1>8. <<list[i]>> \o rest \in Seq(1..known) /\ HasFirst(<<list[i]>> \o rest, rest, list[i])
    BY <1>4, <1>5, Prepend, Zenon
  <1>9. /\ list' \in Seq(1..known') /\ Len(list') = Len(rest) + 1 /\ list'[1] = list[i]
        /\ \A j \in 1..Len(rest) : list'[j + 1] = rest[j]
    BY <1>2, <1>8, Zenon DEF HasFirst
  <1>10. /\ list' \in Seq(1..known') /\ Len(list') = Len(list) /\ list'[1] = list[i]
        /\ \A j \in 1..Len(rest) : list'[j + 1] = rest[j]
    BY <1>6, <1>7, <1>9
  <1>11. DOMAIN list' = 1..Len(list)
    BY <1>10
  <1>12. /\ \A n \in 2..i : list'[n] = list[n - 1]
        /\ \A n \in (i + 1)..Len(list) : list'[n] = list[n]
    <2>1. ASSUME NEW n \in 2..i PROVE list'[n] = list[n - 1]
      <3>1. n - 1 \in 1..(i - 1) /\ n - 1 \in 1..Len(rest) /\ (n - 1) + 1 = n
        BY <1>6, <1>7, <2>1
      <3> QED
        BY <1>7, <1>10, <3>1
    <2>2. ASSUME NEW n \in (i + 1)..Len(list) PROVE list'[n] = list[n]
      <3>1. n - 1 \in i..(Len(list) - 1) /\ n - 1 \in 1..Len(rest) /\ (n - 1) + 1 = n
        BY <1>6, <1>7, <2>2
      <3> QED
        BY <1>7, <1>10, <3>1
    <2> QED
      BY <2>1, <2>2
  <1>13. RowsOf(list) \subseteq RowsOf(list')
    <2> SUFFICES ASSUME NEW j \in 1..Len(list) PROVE list[j] \in RowsOf(list')
      BY <1>6 DEF RowsOf
    <2>1. CASE j < i
      <3>1. j + 1 \in 2..i /\ j + 1 \in 1..Len(list) /\ (j + 1) - 1 = j
        BY <1>6, <2>1
      <3> QED
        BY <1>11, <1>12, <3>1 DEF RowsOf
    <2>2. CASE j = i
      BY <1>6, <1>10, <1>11, <2>2 DEF RowsOf
    <2>3. CASE j > i
      BY <1>6, <1>11, <1>12, <2>3 DEF RowsOf
    <2> QED
      BY <1>6, <2>1, <2>2, <2>3
  <1>14. ASSUME NEW n \in DOMAIN list', list'[n] \in (1..known) \ {list[i]}
        PROVE  \E j \in DOMAIN list : j <= n /\ list[j] = list'[n]
    <2>1. n \in 1..Len(list) /\ n # 1
      BY <1>10, <1>11, <1>14
    <2>2. CASE n <= i
      <3>1. n \in 2..i /\ n - 1 \in 1..Len(list) /\ n - 1 <= n
        BY <1>6, <2>1, <2>2
      <3> QED
        BY <1>6, <1>12, <3>1
    <2>3. CASE n > i
      BY <1>6, <1>12, <2>1, <2>3
    <2> QED
      BY <1>6, <2>1, <2>2, <2>3
  <1>15. {list[i]} \in SUBSET Ids
    BY <1>6, <1>1 DEF Ids
  <1>16. RowsOf(list)' = RowsOf(list')
    BY DEF RowsOf
  <1>17. known' \in 0..MaxRows /\ known' >= known /\ 0 \in Nat /\ {} \in SUBSET Ids
    BY <1>1, <1>2
  <1> QED
    BY <1>10, <1>13, <1>14, <1>15, <1>16, <1>17, <1>2, ChangeKeeps


LEMMA DeleteKeeps ==
  ASSUME IInv, NEW n \in 0..(Len(list) - 1), DeleteOlderThan(n)
  PROVE  IInv'
  <1> DEFINE gone == {list[i] : i \in (n + 1)..Len(list)}
  <1>1. /\ list \in Seq(1..known) /\ known \in 0..MaxRows /\ known \in Int
        /\ MaxRows \in Nat /\ DOMAIN list = 1..Len(list) /\ Len(list) \in Nat
    BY BoundsArePositive DEF IInv, Typed
  <1>2. list' = SubSeq(list, 1, n) /\ known' = known /\ Change(gone, {}, 0)
    BY DEF DeleteOlderThan
  <1>3. /\ list' \in Seq(1..known') /\ Len(list') = n /\ DOMAIN list' = 1..n
        /\ \A i \in 1..n : list'[i] = list[i]
    BY <1>1, <1>2
  <1>4. gone \in SUBSET Ids
    BY <1>1 DEF Ids
  <1>5. RowsOf(list) \subseteq RowsOf(list') \union gone
    <2> SUFFICES ASSUME NEW i \in 1..Len(list), list[i] \notin gone
                 PROVE  list[i] \in RowsOf(list')
      BY <1>1 DEF RowsOf
    <2>1. i \in 1..n
      BY <1>1
    <2> QED
      BY <1>3, <2>1 DEF RowsOf
  <1> HIDE DEF gone
  <1>6. \A i \in DOMAIN list' : list'[i] \in (1..known) \ {} =>
          \E j \in DOMAIN list : j <= i /\ list[j] = list'[i]
    BY <1>1, <1>3
  <1>7. known' \in 0..MaxRows /\ known' >= known /\ 0 \in Nat /\ {} \in SUBSET Ids
    BY <1>1, <1>2
  <1>8. RowsOf(list)' = RowsOf(list')
    BY DEF RowsOf
  <1> QED
    BY <1>2, <1>3, <1>4, <1>5, <1>6, <1>7, <1>8, ChangeKeeps

LEMMA SwapKeeps ==
  ASSUME IInv, NEW i \in 1..(Len(list) - 1), Swap(i)
  PROVE  IInv'
  <1> DEFINE both == {list[i], list[i + 1]}
  <1>1. /\ list \in Seq(1..known) /\ known \in 0..MaxRows /\ known \in Int
        /\ MaxRows \in Nat /\ DOMAIN list = 1..Len(list) /\ Len(list) \in Nat
    BY BoundsArePositive DEF IInv, Typed
  <1>2. /\ list' = [list EXCEPT ![i] = list[i + 1], ![i + 1] = list[i]]
        /\ known' = known /\ Change({}, both, 0)
    BY DEF Swap
  <1>3. i \in 1..Len(list) /\ i + 1 \in 1..Len(list) /\ i # i + 1
    BY <1>1
  <1>4. /\ list' \in Seq(1..known') /\ DOMAIN list' = 1..Len(list)
        /\ list'[i] = list[i + 1] /\ list'[i + 1] = list[i]
        /\ \A j \in 1..Len(list) : j # i /\ j # i + 1 => list'[j] = list[j]
    BY <1>1, <1>2, <1>3
  <1>5. both \in SUBSET Ids
    BY <1>1, <1>3 DEF Ids
  <1>6. RowsOf(list) \subseteq RowsOf(list') \union {}
    <2> SUFFICES ASSUME NEW j \in 1..Len(list) PROVE \E k \in 1..Len(list) : list'[k] = list[j]
      BY <1>1, <1>4 DEF RowsOf
    <2>1. CASE j = i
      BY <1>3, <1>4, <2>1
    <2>2. CASE j = i + 1
      BY <1>3, <1>4, <2>2
    <2> QED
      BY <1>4, <2>1, <2>2
  <1>7. \A j \in DOMAIN list' : list'[j] \in (1..known) \ both =>
          \E k \in DOMAIN list : k <= j /\ list[k] = list'[j]
    BY <1>1, <1>3, <1>4
  <1> HIDE DEF both
  <1>8. known' \in 0..MaxRows /\ known' >= known /\ 0 \in Nat /\ {} \in SUBSET Ids
    BY <1>1, <1>2
  <1>9. RowsOf(list)' = RowsOf(list')
    BY DEF RowsOf
  <1> QED
    BY <1>2, <1>4, <1>5, <1>6, <1>7, <1>8, <1>9, ChangeKeeps

(* Admins, roles and permissions: nothing is claimed but the types. *)
LEMMA RemoveKeeps ==
  ASSUME IInv, NEW i \in DOMAIN list, Remove(i)
  PROVE  IInv'
  <1> DEFINE x == list[i]
  <1>1. /\ list \in Seq(1..known) /\ known \in 0..MaxRows /\ MaxRows \in Nat
        /\ i \in 1..Len(list) /\ x \in 1..known
    BY BoundsArePositive DEF IInv, Typed
  <1>2. list' = Without(i) /\ known' = known /\ kind \notin Sinking /\ Change({x}, {}, 0)
    BY DEF Remove, Sinking
  <1>3. Without(i) \in Seq(1..known)
    BY <1>1, TakeOut, Zenon DEF Without
  <1>4. list' \in Seq(1..known') /\ {x} \in SUBSET Ids /\ {} \in SUBSET Ids
    BY <1>1, <1>2, <1>3 DEF Ids
  <1>5. known' \in 0..MaxRows /\ known' >= known /\ 0 \in Nat
    BY <1>1, <1>2
  <1> HIDE DEF x
  <1> QED
    BY <1>2, <1>4, <1>5, ChangeKeeps

LEMMA RenameKeeps ==
  ASSUME IInv, NEW i \in DOMAIN list, NEW j \in DOMAIN list, Rename(i, j)
  PROVE  IInv'
  <1> DEFINE x == list[i]
             rest == Without(i)
  <1>1. /\ list \in Seq(1..known) /\ known \in 0..MaxRows /\ MaxRows \in Nat
        /\ i \in 1..Len(list) /\ j \in 1..Len(list) /\ x \in 1..known
    BY BoundsArePositive DEF IInv, Typed
  <1>2. /\ list' = Inserted(rest, j, x) /\ known' = known /\ kind \notin Sinking
        /\ Change({}, {x}, 0)
    BY DEF Rename, Sinking
  <1>3. rest \in Seq(1..known) /\ LacksOne(rest, list, i)
    BY <1>1, TakeOut, Zenon DEF Without
  <1> HIDE DEF rest
  <1>4. Len(list) \in Nat /\ j \in 1..(Len(rest) + 1)
    BY <1>1, <1>3 DEF LacksOne
  <1>5. Inserted(rest, j, x) \in Seq(1..known)
    BY <1>1, <1>3, <1>4, PutIn, Zenon
  <1>6. list' \in Seq(1..known') /\ {x} \in SUBSET Ids /\ {} \in SUBSET Ids
    BY <1>1, <1>2, <1>5 DEF Ids
  <1>7. known' \in 0..MaxRows /\ known' >= known /\ 0 \in Nat
    BY <1>1, <1>2
  <1> HIDE DEF x
  <1> QED
    BY <1>2, <1>6, <1>7, ChangeKeeps

-------------------------------------------------------------------------------

LEMMA NextKeeps == IInv /\ [Next]_vars => IInv'
  <1> SUFFICES ASSUME IInv, [Next]_vars PROVE IInv'
    OBVIOUS
  <1>1. ASSUME UNCHANGED vars PROVE IInv'
    BY <1>1
    DEF vars, IInv, Typed, NoneVanished, DueAreBelow, OthersAreNotMissed, Passed, Due, Seen,
        Reading, RowsOf
  <1>2. ASSUME NEW page \in Pages, NEW limit \in Limits, Begin(page, limit) PROVE IInv'
    BY <1>2, BeginKeeps
  <1>3. ASSUME FindRows PROVE IInv'
    BY <1>3, FindRowsKeeps
  <1>4. ASSUME Count PROVE IInv'
    BY <1>4, CountKeeps
  <1>5. ASSUME NEW i \in 1..(Len(list) + 1), Insert(i) PROVE IInv'
    BY <1>5, InsertKeeps
  <1>6. ASSUME NEW i \in DOMAIN list, Touch(i) \/ Remove(i) PROVE IInv'
    BY <1>6, TouchKeeps, RemoveKeeps
  <1>7. ASSUME NEW i \in DOMAIN list, NEW j \in DOMAIN list, Rename(i, j) PROVE IInv'
    BY <1>7, RenameKeeps
  <1>8. ASSUME NEW n \in 0..(Len(list) - 1), DeleteOlderThan(n) PROVE IInv'
    BY <1>8, DeleteKeeps
  <1>9. ASSUME NEW i \in 1..(Len(list) - 1), Swap(i) PROVE IInv'
    BY <1>9, SwapKeeps
  <1> QED
    BY <1>1, <1>2, <1>3, <1>4, <1>5, <1>6, <1>7, <1>8, <1>9 DEF Next, AtRest

(* Whoever reads a list of tickets or logs to its end, page by page, has   *)
(* been given every row that was there at the start and was neither        *)
(* deleted nor moved meanwhile, for lists, pages and clients of any size.  *)
THEOREM OthersAreNotMissedAlways == Spec => []OthersAreNotMissed
  <1>1. IInv /\ kind \in Sinking => OthersAreNotMissed
    BY DEF IInv
  <1>2. IInv => OthersAreNotMissed
    BY <1>1 DEF OthersAreNotMissed
  <1> QED
    BY InitKeeps, NextKeeps, <1>2, PTL DEF Spec

-------------------------------------------------------------------------------
(* How many rows are missed, in any list                                   *)

NoTwice(s) == \A i, j \in DOMAIN s : s[i] = s[j] => i = j

(* The rows of s down to position p. *)
UpTo(s, p) == {s[i] : i \in {j \in DOMAIN s : j <= p}}

(* From s to t no position sees more than one row rise above it. *)
RisesOne(t, s) == \A p \in Int : \E x : UpTo(t, p) \subseteq UpTo(s, p) \union {x}

(* A row is taken out: at most the one below position p rises to it. *)
LEMMA RowsLeft ==
  ASSUME NEW S, NEW s \in Seq(S), NoTwice(s), NEW i \in 1..Len(s), NEW t \in Seq(S),
         LacksOne(t, s, i)
  PROVE  /\ NoTwice(t) /\ RowsOf(t) = RowsOf(s) \ {s[i]}
         /\ \A p \in Int : UpTo(t, p) \subseteq UpTo(s, p) \union (IF i <= p THEN {s[p + 1]} ELSE {})
  <1>1. /\ DOMAIN s = 1..Len(s) /\ DOMAIN t = 1..(Len(s) - 1) /\ Len(s) \in Nat
        /\ \A j \in 1..(i - 1) : t[j] = s[j]
        /\ \A j \in i..(Len(s) - 1) : t[j] = s[j + 1]
    BY DEF LacksOne
  <1>2. ASSUME NEW j \in DOMAIN t
        PROVE  \/ j < i /\ j \in DOMAIN s /\ t[j] = s[j]
               \/ i <= j /\ j + 1 \in DOMAIN s /\ t[j] = s[j + 1]
    BY <1>1
  <1>3. ASSUME NEW j \in DOMAIN t, NEW k \in DOMAIN t, t[j] = t[k]
        PROVE  j = k
    BY <1>1, <1>2, <1>3 DEF NoTwice
  <1>4. ASSUME NEW x \in RowsOf(t) PROVE x \in RowsOf(s) \ {s[i]}
    <2>1. PICK j \in DOMAIN t : x = t[j]
      BY <1>4 DEF RowsOf
    <2>2. PICK k \in DOMAIN s : x = s[k] /\ k # i
      BY <1>1, <1>2, <2>1
    <2> QED
      BY <2>2 DEF RowsOf, NoTwice
  <1>5. ASSUME NEW x \in RowsOf(s) \ {s[i]} PROVE x \in RowsOf(t)
    <2>1. PICK k \in DOMAIN s : x = s[k] /\ k # i
      BY <1>5 DEF RowsOf
    <2>2. CASE k < i
      <3>1. k \in DOMAIN t /\ t[k] = x
        BY <1>1, <2>1, <2>2
      <3> QED
        BY <3>1 DEF RowsOf
    <2>3. CASE k > i
      <3>1. k - 1 \in DOMAIN t /\ k - 1 \in i..(Len(s) - 1) /\ (k - 1) + 1 = k
        BY <1>1, <2>1, <2>3
      <3>2. t[k - 1] = x
        BY <1>1, <2>1, <3>1
      <3> QED
        BY <3>1, <3>2 DEF RowsOf
    <2> QED
      BY <1>1, <2>1, <2>2, <2>3
  <1>6. ASSUME NEW p \in Int, NEW x \in UpTo(t, p), x \notin UpTo(s, p)
        PROVE  i <= p /\ x = s[p + 1]
    <2>1. PICK j \in DOMAIN t : j <= p /\ x = t[j]
      BY <1>6 DEF UpTo
    <2>2. i <= j /\ j + 1 \in DOMAIN s /\ x = s[j + 1]
      BY <1>2, <1>6, <2>1 DEF UpTo
    <2>3. ~(j + 1 <= p)
      BY <1>6, <2>2 DEF UpTo
    <2>4. j = p
      BY <1>1, <2>1, <2>3
    <2> QED
      BY <2>2, <2>4
  <1> QED
    BY <1>3, <1>4, <1>5, <1>6 DEF NoTwice

(* A row is put in: the others fall. *)
HasNew(t, s, i, x) ==
  /\ Len(t) = Len(s) + 1
  /\ t[i] = x
  /\ \A j \in 1..(i - 1) : t[j] = s[j]
  /\ \A j \in i..Len(s) : t[j + 1] = s[j]

LEMMA PutInPlace ==
  ASSUME NEW S, NEW s \in Seq(S), NEW i \in 1..(Len(s) + 1), NEW x \in S
  PROVE  HasNew(Inserted(s, i, x), s, i, x)
  <1> DEFINE above == SubSeq(s, 1, i - 1)
             below == SubSeq(s, i, Len(s))
             top == above \o <<x>>
  <1>1. /\ above \in Seq(S) /\ Len(above) = i - 1 /\ \A j \in 1..(i - 1) : above[j] = s[j]
        /\ below \in Seq(S) /\ Len(below) = Len(s) - i + 1
        /\ \A j \in 1..(Len(s) - i + 1) : below[j] = s[i + j - 1]
        /\ i \in Nat /\ Len(s) \in Nat
    OBVIOUS
  <1> HIDE DEF above, below
  <1>2. /\ top \in Seq(S) /\ Len(top) = i /\ top[i] = x
        /\ \A j \in 1..(i - 1) : top[j] = s[j]
    BY <1>1
  <1> HIDE DEF top
  <1>3. /\ Len(top \o below) = Len(s) + 1
        /\ \A j \in 1..i : (top \o below)[j] = top[j]
        /\ \A j \in (i + 1)..(Len(s) + 1) : (top \o below)[j] = below[j - i]
    BY <1>1, <1>2
  <1>4. \A j \in i..Len(s) : (top \o below)[j + 1] = s[j]
    <2> SUFFICES ASSUME NEW j \in i..Len(s) PROVE (top \o below)[j + 1] = s[j]
      OBVIOUS
    <2>1. j + 1 \in (i + 1)..(Len(s) + 1) /\ (j + 1) - i \in 1..(Len(s) - i + 1)
          /\ i + ((j + 1) - i) - 1 = j
      BY <1>1
    <2> QED
      BY <1>1, <1>3, <2>1
  <1>5. HasNew(top \o below, s, i, x)
    BY <1>1, <1>2, <1>3, <1>4 DEF HasNew
  <1> QED
    BY <1>5 DEF Inserted, top, above, below

LEMMA RowsWith ==
  ASSUME NEW S, NEW s \in Seq(S), NoTwice(s), NEW i \in 1..(Len(s) + 1), NEW x \in S,
         x \notin RowsOf(s)
  PROVE  LET t == Inserted(s, i, x)
         IN  /\ t \in Seq(S) /\ NoTwice(t) /\ RowsOf(t) = RowsOf(s) \union {x}
             /\ \A p \in Int : UpTo(t, p) \subseteq UpTo(s, p) \union {x}
  <1> PICK t : t = Inserted(s, i, x)
    OBVIOUS
  <1>1. t \in Seq(S) /\ HasNew(t, s, i, x)
    BY PutIn, PutInPlace
  <1>2. /\ DOMAIN s = 1..Len(s) /\ DOMAIN t = 1..(Len(s) + 1) /\ Len(s) \in Nat
        /\ t[i] = x
        /\ \A j \in 1..(i - 1) : t[j] = s[j]
        /\ \A j \in i..Len(s) : t[j + 1] = s[j]
    BY <1>1 DEF HasNew
  <1>3. ASSUME NEW j \in DOMAIN t
        PROVE  \/ j < i /\ j \in DOMAIN s /\ t[j] = s[j]
               \/ j = i /\ t[j] = x
               \/ i < j /\ j - 1 \in DOMAIN s /\ t[j] = s[j - 1]
    <2>1. CASE j > i
      <3>1. j - 1 \in i..Len(s) /\ j - 1 \in DOMAIN s /\ (j - 1) + 1 = j
        BY <1>2, <2>1
      <3>2. t[(j - 1) + 1] = s[j - 1]
        BY <1>2, <3>1
      <3> QED
        BY <2>1, <3>1, <3>2
    <2> QED
      BY <1>2, <2>1
  <1>4. \A j \in DOMAIN s : s[j] # x
    BY DEF RowsOf
  <1>5. ASSUME NEW j \in DOMAIN t, NEW k \in DOMAIN t, t[j] = t[k]
        PROVE  j = k
    BY <1>2, <1>3, <1>4, <1>5 DEF NoTwice
  <1>6. ASSUME NEW y \in RowsOf(t) PROVE y \in RowsOf(s) \union {x}
    BY <1>3, <1>6 DEF RowsOf
  <1>7. ASSUME NEW y \in RowsOf(s) PROVE y \in RowsOf(t)
    <2>1. PICK k \in DOMAIN s : y = s[k]
      BY <1>7 DEF RowsOf
    <2>2. CASE k < i
      <3>1. k \in DOMAIN t /\ t[k] = y
        BY <1>2, <2>1, <2>2
      <3> QED
        BY <3>1 DEF RowsOf
    <2>3. CASE k >= i
      <3>1. k + 1 \in DOMAIN t /\ t[k + 1] = y
        BY <1>2, <2>1, <2>3
      <3> QED
        BY <3>1 DEF RowsOf
    <2> QED
      BY <1>2, <2>1, <2>2, <2>3
  <1>8. x \in RowsOf(t)
    BY <1>2 DEF RowsOf
  <1>9. ASSUME NEW p \in Int, NEW y \in UpTo(t, p), y # x
        PROVE  y \in UpTo(s, p)
    <2>1. PICK j \in DOMAIN t : j <= p /\ y = t[j]
      BY <1>9 DEF UpTo
    <2>2. PICK k \in DOMAIN s : k <= j /\ y = s[k]
      BY <1>2, <1>3, <1>9, <2>1
    <2>3. k <= p
      BY <1>2, <2>1, <2>2
    <2> QED
      BY <2>2, <2>3 DEF UpTo
  <1>10. NoTwice(t)
    BY <1>5 DEF NoTwice
  <1>11. RowsOf(t) = RowsOf(s) \union {x}
    BY <1>6, <1>7, <1>8
  <1>12. \A p \in Int : UpTo(t, p) \subseteq UpTo(s, p) \union {x}
    BY <1>9
  <1> QED
    BY <1>1, <1>10, <1>11, <1>12

(* A row is put in another place: it rises, or the one below position p.   *)
LEMMA RowMoves ==
  ASSUME NEW S, NEW s \in Seq(S), NoTwice(s), NEW i \in DOMAIN s, NEW j \in DOMAIN s,
         NEW rest \in Seq(S), LacksOne(rest, s, i)
  PROVE  LET t == Inserted(rest, j, s[i])
         IN  /\ t \in Seq(S) /\ NoTwice(t) /\ RowsOf(t) = RowsOf(s)
             /\ RisesOne(t, s)
  <1> PICK row, t : row = s[i] /\ t = Inserted(rest, j, row)
    OBVIOUS
  <1>1. i \in 1..Len(s) /\ j \in 1..(Len(rest) + 1) /\ row \in S
    BY DEF LacksOne
  <1>2. /\ NoTwice(rest) /\ RowsOf(rest) = RowsOf(s) \ {row}
        /\ \A p \in Int : UpTo(rest, p) \subseteq UpTo(s, p) \union (IF i <= p THEN {s[p + 1]} ELSE {})
    BY <1>1, RowsLeft
  <1>3. /\ t \in Seq(S) /\ NoTwice(t) /\ RowsOf(t) = RowsOf(rest) \union {row}
        /\ \A p \in Int : UpTo(t, p) \subseteq UpTo(rest, p) \union {row}
    BY <1>1, <1>2, RowsWith
  <1>4. row \in RowsOf(s)
    BY DEF RowsOf
  <1>5. ASSUME NEW p \in Int PROVE \E x : UpTo(t, p) \subseteq UpTo(s, p) \union {x}
    <2>1. CASE i <= p
      <3>1. row \in UpTo(s, p)
        BY <2>1 DEF UpTo
      <3>2. UpTo(rest, p) \subseteq UpTo(s, p) \union {s[p + 1]}
        BY <1>2, <2>1
      <3>3. UpTo(t, p) \subseteq UpTo(s, p) \union {s[p + 1]}
        BY <1>3, <3>1, <3>2
      <3> QED
        BY <3>3
    <2>2. CASE ~(i <= p)
      BY <1>2, <1>3, <2>2
    <2> QED
      BY <2>1, <2>2
  <1> QED
    BY <1>2, <1>3, <1>4, <1>5 DEF RisesOne

(* Two rows change places. *)
LEMMA RowsSwap ==
  ASSUME NEW S, NEW s \in Seq(S), NoTwice(s), NEW i \in 1..(Len(s) - 1), NEW t,
         t = [s EXCEPT ![i] = s[i + 1], ![i + 1] = s[i]]
  PROVE  t \in Seq(S) /\ NoTwice(t) /\ RowsOf(t) = RowsOf(s) /\ RisesOne(t, s)
  <1>1. /\ DOMAIN s = 1..Len(s) /\ Len(s) \in Nat /\ i \in DOMAIN s /\ i + 1 \in DOMAIN s
        /\ i # i + 1
    OBVIOUS
  <1>2. /\ t \in Seq(S) /\ DOMAIN t = DOMAIN s
        /\ t[i] = s[i + 1] /\ t[i + 1] = s[i]
        /\ \A j \in DOMAIN s \ {i, i + 1} : t[j] = s[j]
    BY <1>1
  <1>3. ASSUME NEW j \in DOMAIN t, NEW k \in DOMAIN t, t[j] = t[k]
        PROVE  j = k
    BY <1>1, <1>2, <1>3 DEF NoTwice
  <1>4. RowsOf(t) = RowsOf(s)
    <2>1. ASSUME NEW x \in RowsOf(t) PROVE x \in RowsOf(s)
      <3>1. PICK j \in DOMAIN t : x = t[j]
        BY <2>1 DEF RowsOf
      <3>2. \E k \in DOMAIN s : x = s[k]
        BY <1>1, <1>2, <3>1
      <3> QED
        BY <3>2 DEF RowsOf
    <2>2. ASSUME NEW x \in RowsOf(s) PROVE x \in RowsOf(t)
      <3>1. PICK j \in DOMAIN s : x = s[j]
        BY <2>2 DEF RowsOf
      <3>2. \E k \in DOMAIN t : x = t[k]
        BY <1>1, <1>2, <3>1
      <3> QED
        BY <3>2 DEF RowsOf
    <2> QED
      BY <2>1, <2>2
  <1>5. ASSUME NEW p \in Int, NEW y \in UpTo(t, p), y \notin UpTo(s, p) PROVE y = s[i + 1]
    <2>1. PICK j \in DOMAIN t : j <= p /\ y = t[j]
      BY <1>5 DEF UpTo
    <2>2. CASE j = i + 1
      <3>1. i <= p /\ y = s[i]
        BY <1>1, <1>2, <2>1, <2>2
      <3> QED
        BY <1>1, <1>5, <3>1 DEF UpTo
    <2>3. CASE j # i /\ j # i + 1
      BY <1>2, <1>5, <2>1, <2>3 DEF UpTo
    <2> QED
      BY <1>2, <2>1, <2>2, <2>3
  <1> QED
    BY <1>2, <1>3, <1>4, <1>5 DEF NoTwice, RisesOne

-------------------------------------------------------------------------------

(* The rows that the reader may miss: neither read nor still to come.      *)
Missing == (reader.start \ Seen) \intersect (reader.lost \union UpTo(list, Passed))

MissedInv ==
  /\ kind \in Kinds /\ tied \in SUBSET Ids /\ changes \in Nat
  /\ kind \in Clamped => reader.size \in 1..MaxSize
  /\ NoTwice(list)
  /\ Reading =>
       /\ reader.start \subseteq RowsOf(list) \union reader.lost
       /\ reader.lost \subseteq (1..known) \ RowsOf(list)
       /\ Cardinality(Missing) <= Cardinality(reader.lost) + reader.moves
  /\ MissedAtMostChanged

LEMMA PartOfIds ==
  ASSUME NEW S \in SUBSET Ids
  PROVE  IsFiniteSet(S) /\ Cardinality(S) \in Nat
  <1>1. IsFiniteSet(Ids)
    BY BoundsArePositive, FS_Interval DEF Ids
  <1>2. IsFiniteSet(S)
    BY <1>1, FS_Subset
  <1> QED
    BY <1>2, FS_CardinalityType

LEMMA MissingIsPart == IInv => reader \in Reader /\ Missing \in SUBSET Ids /\ Passed \in Int
  BY DEF IInv, Typed, Reader, Missing, Passed

LEMMA InitCounts == Init => MissedInv
  <1> SUFFICES ASSUME Init PROVE MissedInv
    OBVIOUS
  <1>1. reader = Unread /\ ~Reading /\ reader.pc = "idle" /\ reader.size = 1
    BY DEF Init, Unread, Reading
  <1>2. NoTwice(list)
    BY DEF Init, NoTwice
  <1> QED
    BY <1>1, <1>2, BoundsArePositive, TiedAreRows DEF Init, MissedInv, MissedAtMostChanged

LEMMA BeginCounts ==
  ASSUME IInv, MissedInv, NEW page \in Pages, NEW limit \in Limits, Begin(page, limit)
  PROVE  MissedInv'
  <1>1. UpTo(list, Passed)' = {}
    BY Begins DEF UpTo, IInv, Typed
  <1>2. Missing' = {} /\ Cardinality(Missing') = 0 /\ Cardinality(reader'.lost) = 0
    BY <1>1, Begins, FS_EmptySet DEF Missing
  <1>3. MissedAtMostChanged'
    BY Begins DEF MissedAtMostChanged
  <1>4. reader'.start \subseteq RowsOf(list)' /\ RowsOf(list)' = RowsOf(list)
    BY Begins DEF RowsOf
  <1> QED
    BY <1>2, <1>3, <1>4, Begins DEF MissedInv, NoTwice

LEMMA FindRowsCounts ==
  ASSUME IInv, MissedInv, FindRows
  PROVE  MissedInv'
  <1>1. kind' = kind /\ list' = list /\ known' = known /\ tied' = tied /\ changes' = changes
    BY DEF FindRows
  <1>2. CASE Skip < 0
    <2>1. reader \in Reader /\ reader' = [reader EXCEPT !.pc = "failed"]
      BY <1>2 DEF FindRows, IInv, Typed
    <2>2. reader'.pc = "failed" /\ reader'.size = reader.size
      BY <2>1 DEF Reader
    <2> QED
      BY <1>1, <2>2 DEF MissedInv, Reading, MissedAtMostChanged, NoTwice
  <1>3. CASE ~(Skip < 0)
    <2>1. Missing' \subseteq Missing
      <3> SUFFICES ASSUME NEW x \in Missing', x \notin reader.lost
                   PROVE  x \in Missing
        BY <1>3, RowsAreFound DEF Missing
      <3>1. PICK i \in DOMAIN list : list[i] = x /\ i <= Passed'
        BY <1>1, <1>3, RowsAreFound DEF Missing, UpTo
      <3>2. x \in reader.start \ Seen /\ x \notin InWindow
        BY <1>3, <3>1, RowsAreFound DEF Missing
      <3>3. i <= Passed
        BY <1>3, <3>1, <3>2, RowsAreFound
      <3> QED
        BY <3>1, <3>2, <3>3 DEF Missing, UpTo
    <2>2. Cardinality(Missing') <= Cardinality(Missing) /\ Cardinality(Missing) \in Nat
      BY <2>1, MissingIsPart, PartOfIds, FS_Subset
    <2>3. /\ Cardinality(Missing') \in Nat /\ Cardinality(reader.lost) \in Nat /\ reader.moves \in Nat
      <3>1. Missing' \in SUBSET Ids /\ reader.lost \in SUBSET Ids /\ reader.moves \in Nat
        BY <2>1, MissingIsPart DEF Reader
      <3> QED
        BY <3>1, PartOfIds
    <2>4. Reading
      BY DEF FindRows, Reading
    <2>5. MissedAtMostChanged'
      BY <1>3, RowsAreFound DEF MissedAtMostChanged
    <2>6. RowsOf(list)' = RowsOf(list)
      BY <1>1 DEF RowsOf
    <2>7. Cardinality(Missing') <= Cardinality(reader'.lost) + reader'.moves
      BY <1>3, <2>2, <2>3, <2>4, RowsAreFound DEF MissedInv
    <2> QED
      BY <1>1, <1>3, <2>4, <2>5, <2>6, <2>7, RowsAreFound DEF MissedInv, NoTwice
  <1> QED
    BY <1>2, <1>3

LEMMA CountCounts ==
  ASSUME IInv, MissedInv, Count
  PROVE  MissedInv'
  <1>1. RowsOf(list)' = RowsOf(list) /\ NoTwice(list)'
    BY Counts DEF MissedInv, NoTwice, RowsOf
  <1>2. CASE reader'.pc = "rows"
    <2>1. Missing' = Missing
      BY <1>2, Counts DEF Missing, UpTo
    <2>2. MissedAtMostChanged'
      BY <1>2 DEF MissedAtMostChanged
    <2> QED
      BY <1>1, <2>1, <2>2, Counts DEF MissedInv
  <1>3. CASE reader'.pc = "done"
    <2>1. reader.start \ Seen = Missing
      <3> SUFFICES ASSUME NEW x \in reader.start, x \notin reader.lost
                   PROVE  x \in UpTo(list, Passed)
        BY DEF Missing
      <3>1. x \in RowsOf(list)
        BY Counts DEF MissedInv
      <3> QED
        BY <1>3, <3>1, Counts DEF RowsOf, UpTo
    <2>2. MissedAtMostChanged'
      BY <2>1, Counts DEF MissedInv, MissedAtMostChanged
    <2>3. ~Reading'
      BY <1>3 DEF Reading
    <2> QED
      BY <1>1, <2>2, <2>3, Counts DEF MissedInv
  <1> QED
    BY <1>2, <1>3, Counts

(* A change counts when what comes to be above the reader, or vanishes, is *)
(* no more than what is noted of it.                                       *)
LEMMA ChangeCounts ==
  ASSUME IInv, MissedInv, NEW lost \in SUBSET Ids, NEW moved \in SUBSET Ids, NEW inserts \in Nat,
         Change(lost, moved, inserts), known' \in Nat, known' >= known, tied' \subseteq tied,
         NoTwice(list'), lost \subseteq RowsOf(list),
         RowsOf(list) \subseteq RowsOf(list') \union lost,
         \A x \in RowsOf(list') : x \in RowsOf(list) \ lost \/ x \notin 1..known,
         NEW more \in SUBSET Ids,
         UpTo(list', Passed) \union lost \subseteq UpTo(list, Passed) \union more \union {x \in Ids : x \notin 1..known},
         Cardinality(more) <= Cardinality(lost) + (IF moved = {} THEN 0 ELSE 1)
  PROVE  MissedInv'
  <1>1. /\ kind' = kind
        /\ reader' \in Reader
        /\ reader'.start = reader.start
        /\ ~Reading => reader' = reader
        /\ Reading => /\ reader'.pc = reader.pc
                      /\ reader'.page = reader.page /\ reader'.size = reader.size
                      /\ reader'.seen = reader.seen
                      /\ reader'.lost = reader.lost \union lost
                      /\ reader'.moved = reader.moved \union moved
                      /\ reader'.moves = IF moved = {} THEN reader.moves ELSE reader.moves + 1
    BY ChangeIsNoted
  <1>2. NoTwice(list)' /\ RowsOf(list)' = RowsOf(list')
    BY DEF NoTwice, RowsOf
  <1>3. changes' \in Nat /\ tied' \in SUBSET Ids
    BY DEF Change, MissedInv
  <1>4. CASE ~Reading
    <2>1. ~Reading' /\ MissedAtMostChanged'
      BY <1>1, <1>4 DEF Reading, MissedInv, MissedAtMostChanged, Seen
    <2> QED
      BY <1>1, <1>2, <1>3, <1>4, <2>1 DEF MissedInv
  <1>5. CASE Reading
    <2>1. /\ reader.lost \subseteq (1..known) \ RowsOf(list)
          /\ reader.start \subseteq RowsOf(list) \union reader.lost
          /\ reader.start \subseteq 1..known /\ RowsOf(list) \subseteq 1..known
          /\ Cardinality(Missing) <= Cardinality(reader.lost) + reader.moves
      BY <1>5 DEF MissedInv, IInv, Typed, RowsOf
    <2>2. Passed' = Passed /\ Seen' = Seen /\ UpTo(list, Passed)' = UpTo(list', Passed)
      BY <1>1, <1>5 DEF Passed, Seen, UpTo
    <2>3. Missing' \subseteq Missing \union more
      BY <1>1, <1>5, <2>1, <2>2 DEF Missing
    <2>4. /\ reader.lost \in SUBSET Ids /\ Missing \in SUBSET Ids /\ reader.moves \in Nat
          /\ Missing' \in SUBSET Ids
      BY <2>3, MissingIsPart DEF Reader
    <2>5. /\ IsFiniteSet(lost) /\ IsFiniteSet(reader.lost) /\ IsFiniteSet(more) /\ IsFiniteSet(Missing)
          /\ Cardinality(lost) \in Nat /\ Cardinality(reader.lost) \in Nat
          /\ Cardinality(more) \in Nat /\ Cardinality(Missing) \in Nat /\ Cardinality(Missing') \in Nat
      BY <2>4, PartOfIds
    <2>6. Cardinality(reader'.lost) = Cardinality(reader.lost) + Cardinality(lost)
      <3>1. reader.lost \intersect lost = {}
        BY <2>1
      <3>2. Cardinality(reader.lost \union lost) =
              Cardinality(reader.lost) + Cardinality(lost) - Cardinality(reader.lost \intersect lost)
        BY <2>5, FS_Union
      <3>3. Cardinality(reader.lost \intersect lost) = 0
        BY <3>1, FS_EmptySet
      <3>4. reader'.lost = reader.lost \union lost
        BY <1>1, <1>5
      <3> QED
        BY <2>5, <3>2, <3>3, <3>4
    <2>7. Cardinality(Missing') <= Cardinality(Missing) + Cardinality(more)
      <3>1. /\ IsFiniteSet(Missing \union more)
            /\ Cardinality(Missing \union more) =
                 Cardinality(Missing) + Cardinality(more) - Cardinality(Missing \intersect more)
        BY <2>5, FS_Union
      <3>2. Missing \intersect more \in SUBSET Ids
        BY <2>4
      <3>3. Cardinality(Missing \intersect more) \in Nat
        BY <3>2, PartOfIds
      <3>4. Cardinality(Missing') <= Cardinality(Missing \union more)
        BY <2>3, <3>1, FS_Subset
      <3> QED
        BY <2>5, <3>1, <3>3, <3>4
    <2>8. Cardinality(Missing') <= Cardinality(reader'.lost) + reader'.moves
      BY <1>1, <1>5, <2>1, <2>4, <2>5, <2>6, <2>7
    <2>9. /\ reader'.start \subseteq RowsOf(list') \union reader'.lost
          /\ reader'.lost \subseteq (1..known') \ RowsOf(list')
      <3>1. known \in Nat /\ 1..known \subseteq 1..known'
        BY DEF IInv, Typed
      <3> QED
        BY <1>1, <1>5, <2>1, <3>1
    <2>10. Reading' /\ MissedAtMostChanged'
      BY <1>1, <1>5 DEF Reading, MissedAtMostChanged
    <2> QED
      BY <1>1, <1>2, <1>3, <1>5, <2>8, <2>9, <2>10 DEF MissedInv
  <1> QED
    BY <1>4, <1>5

LEMMA NothingNew == Cardinality({}) = 0 /\ \A x : Cardinality({x}) = 1
  BY FS_EmptySet, FS_Singleton

LEMMA ListIs ==
  ASSUME IInv, MissedInv
  PROVE  /\ list \in Seq(1..known) /\ NoTwice(list) /\ known \in Nat /\ known <= MaxRows
         /\ MaxRows \in Nat /\ RowsOf(list) \subseteq 1..known /\ 1..known \subseteq Ids
         /\ DOMAIN list = 1..Len(list) /\ Len(list) \in Nat /\ Passed \in Int
  <1>1. /\ list \in Seq(1..known) /\ NoTwice(list) /\ known \in Nat /\ known <= MaxRows
        /\ MaxRows \in Nat /\ Passed \in Int
    BY MissingIsPart, BoundsArePositive DEF IInv, Typed, MissedInv
  <1> QED
    BY <1>1 DEF RowsOf, Ids

LEMMA TakenOut ==
  ASSUME IInv, MissedInv, NEW i \in DOMAIN list
  PROVE  Without(i) \in Seq(1..known) /\ LacksOne(Without(i), list, i) /\ list[i] \in 1..known
  <1>1. i \in 1..Len(list) /\ list \in Seq(1..known) /\ list[i] \in 1..known
    BY ListIs
  <1> QED
    BY <1>1, TakeOut, Zenon DEF Without

LEMMA InsertCounts ==
  ASSUME IInv, MissedInv, NEW i \in 1..(Len(list) + 1), Insert(i)
  PROVE  MissedInv'
  <1> PICK x : x = known + 1
    OBVIOUS
  <1>1. /\ known' = x /\ list' = Inserted(list, i, x) /\ known < MaxRows /\ tied' = tied
        /\ Change({}, {}, 1)
    BY DEF Insert
  <1>2. list \in Seq(1..x) /\ x \in 1..x /\ x \notin RowsOf(list) /\ x \notin 1..known /\ x \in Ids
    BY <1>1, ListIs DEF Ids
  <1>3. /\ NoTwice(list') /\ RowsOf(list') = RowsOf(list) \union {x}
        /\ UpTo(list', Passed) \subseteq UpTo(list, Passed) \union {x}
    BY <1>1, <1>2, ListIs, RowsWith
  <1>4. known' \in Nat /\ known' >= known /\ 1 \in Nat /\ {} \in SUBSET Ids
    BY <1>1, ListIs
  <1>5. UpTo(list', Passed) \union {} \subseteq
          UpTo(list, Passed) \union {} \union {y \in Ids : y \notin 1..known}
    BY <1>2, <1>3
  <1>6. Cardinality({}) <= Cardinality({}) + 0
    BY NothingNew
  <1> QED
    BY <1>1, <1>2, <1>3, <1>4, <1>5, <1>6, ChangeCounts

(* Only places change, and one row rises. *)
LEMMA MoveCounts ==
  ASSUME IInv, MissedInv, NEW moved \in SUBSET Ids, moved # {}, Change({}, moved, 0),
         known' = known, tied' \subseteq tied, list' \in Seq(1..known), NoTwice(list'),
         RowsOf(list') = RowsOf(list), RisesOne(list', list)
  PROVE  MissedInv'
  <1> PICK x : UpTo(list', Passed) \subseteq UpTo(list, Passed) \union {x}
    BY ListIs DEF RisesOne
  <1> PICK more : more = UpTo(list', Passed) \ UpTo(list, Passed)
    OBVIOUS
  <1>1. more \in SUBSET Ids /\ (more = {} \/ more = {x})
    BY ListIs DEF UpTo, RowsOf
  <1>2. Cardinality(more) <= Cardinality({}) + 1
    <2>1. Cardinality(more) \in {0, 1} /\ Cardinality({}) = 0
      BY <1>1, NothingNew, Zenon
    <2> QED
      BY <2>1
  <1>3. known' \in Nat /\ known' >= known /\ 0 \in Nat /\ {} \in SUBSET Ids
    BY ListIs
  <1>4. \A y \in RowsOf(list') : y \in RowsOf(list) \ {}
    OBVIOUS
  <1> QED
    BY <1>1, <1>2, <1>3, <1>4, ChangeCounts

LEMMA TouchCounts ==
  ASSUME IInv, MissedInv, NEW i \in DOMAIN list, Touch(i)
  PROVE  MissedInv'
  <1> PICK x, rest : x = list[i] /\ rest = Without(i)
    OBVIOUS
  <1>1. /\ known' = known /\ list' = <<x>> \o rest /\ tied' \subseteq tied /\ Change({}, {x}, 0)
    BY DEF Touch
  <1>2. rest \in Seq(1..known) /\ LacksOne(rest, list, i) /\ x \in 1..known /\ 1 \in DOMAIN list
    BY ListIs, TakenOut
  <1>3. list' = Inserted(rest, 1, x)
    <2>1. 1 \in 1..(Len(rest) + 1)
      BY <1>2
    <2> QED
      BY <1>1, <1>2, <2>1, PutIn
  <1>4. /\ list' \in Seq(1..known) /\ NoTwice(list') /\ RowsOf(list') = RowsOf(list)
        /\ RisesOne(list', list)
    <2>1. list \in Seq(1..known) /\ NoTwice(list) /\ Passed \in Int
      BY ListIs
    <2>2. /\ Inserted(rest, 1, x) \in Seq(1..known) /\ NoTwice(Inserted(rest, 1, x))
          /\ RowsOf(Inserted(rest, 1, x)) = RowsOf(list)
          /\ RisesOne(Inserted(rest, 1, x), list)
      BY <1>2, <2>1, RowMoves
    <2> QED
      BY <1>3, <2>1, <2>2
  <1>5. {x} \in SUBSET Ids
    BY <1>2, ListIs
  <1> QED
    BY <1>1, <1>4, <1>5, MoveCounts

LEMMA RenameCounts ==
  ASSUME IInv, MissedInv, NEW i \in DOMAIN list, NEW j \in DOMAIN list, Rename(i, j)
  PROVE  MissedInv'
  <1> PICK x, rest : x = list[i] /\ rest = Without(i)
    OBVIOUS
  <1>1. /\ known' = known /\ list' = Inserted(rest, j, x) /\ tied' = tied /\ Change({}, {x}, 0)
    BY DEF Rename
  <1>2. rest \in Seq(1..known) /\ LacksOne(rest, list, i) /\ x \in 1..known
    BY ListIs, TakenOut
  <1>3. /\ list' \in Seq(1..known) /\ NoTwice(list') /\ RowsOf(list') = RowsOf(list)
        /\ RisesOne(list', list)
    <2>1. list \in Seq(1..known) /\ NoTwice(list) /\ Passed \in Int
      BY ListIs
    <2>2. /\ Inserted(rest, j, x) \in Seq(1..known) /\ NoTwice(Inserted(rest, j, x))
          /\ RowsOf(Inserted(rest, j, x)) = RowsOf(list)
          /\ RisesOne(Inserted(rest, j, x), list)
      BY <1>2, <2>1, RowMoves
    <2> QED
      BY <1>1, <2>1, <2>2
  <1>4. {x} \in SUBSET Ids
    BY <1>2, ListIs
  <1> QED
    BY <1>1, <1>3, <1>4, MoveCounts

LEMMA SwapCounts ==
  ASSUME IInv, MissedInv, NEW i \in 1..(Len(list) - 1), Swap(i)
  PROVE  MissedInv'
  <1> PICK x, y, new : /\ x = list[i] /\ y = list[i + 1]
                       /\ new = [list EXCEPT ![i] = list[i + 1], ![i + 1] = list[i]]
    OBVIOUS
  <1>1. known' = known /\ list' = new /\ tied' = tied /\ Change({}, {x, y}, 0)
    BY DEF Swap
  <1>2. /\ new \in Seq(1..known) /\ NoTwice(new) /\ RowsOf(new) = RowsOf(list)
        /\ RisesOne(new, list)
    <2>1. list \in Seq(1..known) /\ NoTwice(list) /\ Passed \in Int
      BY ListIs
    <2>2. /\ new \in Seq(1..known) /\ NoTwice(new) /\ RowsOf(new) = RowsOf(list)
          /\ RisesOne(new, list)
      BY <2>1, RowsSwap
    <2> QED
      BY <2>1, <2>2
  <1>3. x \in 1..known /\ y \in 1..known
    BY ListIs
  <1>4. {x, y} \in SUBSET Ids
    BY <1>3, ListIs
  <1> QED
    BY <1>1, <1>2, <1>4, MoveCounts

LEMMA RemoveCounts ==
  ASSUME IInv, MissedInv, NEW i \in DOMAIN list, Remove(i)
  PROVE  MissedInv'
  <1> PICK x, p, more : /\ x = list[i] /\ p = Passed
                        /\ more = (UpTo(list', p) \union {x}) \ UpTo(list, p)
    OBVIOUS
  <1>1. known' = known /\ list' = Without(i) /\ tied' = tied /\ Change({x}, {}, 0)
    BY DEF Remove
  <1>2. /\ list' \in Seq(1..known) /\ LacksOne(list', list, i)
        /\ x \in RowsOf(list) /\ x \in 1..known /\ x \in Ids
    BY <1>1, ListIs, TakenOut DEF RowsOf
  <1>3. /\ NoTwice(list') /\ RowsOf(list') = RowsOf(list) \ {x}
        /\ UpTo(list', p) \subseteq UpTo(list, p) \union (IF i <= p THEN {list[p + 1]} ELSE {})
    BY <1>2, ListIs, RowsLeft
  <1>4. \E y : more \subseteq {y}
    <2>1. CASE i <= p
      <3>1. x \in UpTo(list, p)
        BY <2>1 DEF UpTo
      <3>2. more \subseteq {list[p + 1]}
        BY <1>3, <2>1, <3>1
      <3> QED
        BY <3>2
    <2>2. CASE ~(i <= p)
      <3>1. more \subseteq {x}
        BY <1>3, <2>2
      <3> QED
        BY <3>1
    <2> QED
      BY <2>1, <2>2
  <1>5. PICK y : more = {} \/ more = {y}
    BY <1>4
  <1>6. Cardinality(more) <= Cardinality({x}) + 0
    <2>1. Cardinality(more) \in {0, 1} /\ Cardinality({x}) = 1
      BY <1>5, NothingNew, Zenon
    <2> QED
      BY <2>1
  <1>7. more \in SUBSET Ids
    BY <1>2, <1>3, ListIs DEF UpTo, RowsOf
  <1>8. known' \in Nat /\ known' >= known /\ 0 \in Nat /\ {} \in SUBSET Ids /\ {x} \in SUBSET Ids
    BY <1>1, <1>2, ListIs
  <1>9. /\ {x} \subseteq RowsOf(list) /\ RowsOf(list) \subseteq RowsOf(list') \union {x}
        /\ \A z \in RowsOf(list') : z \in RowsOf(list) \ {x}
        /\ UpTo(list', Passed) \union {x} \subseteq
             UpTo(list, Passed) \union more \union {z \in Ids : z \notin 1..known}
    BY <1>2, <1>3
  <1> QED
    BY <1>1, <1>3, <1>6, <1>7, <1>8, <1>9, ChangeCounts

LEMMA DeleteCounts ==
  ASSUME IInv, MissedInv, NEW n \in 0..(Len(list) - 1), DeleteOlderThan(n)
  PROVE  MissedInv'
  <1> PICK gone : gone = {list[i] : i \in (n + 1)..Len(list)}
    OBVIOUS
  <1>1. known' = known /\ list' = SubSeq(list, 1, n) /\ tied' = tied /\ Change(gone, {}, 0)
    BY DEF DeleteOlderThan
  <1>2. DOMAIN list' = 1..n /\ \A i \in 1..n : i \in DOMAIN list /\ list'[i] = list[i]
    BY <1>1, ListIs
  <1>3. NoTwice(list')
    BY <1>2, ListIs DEF NoTwice
  <1>4. RowsOf(list') = RowsOf(list) \ gone /\ gone \subseteq RowsOf(list)
    <2>1. gone \subseteq RowsOf(list)
      BY ListIs DEF RowsOf
    <2>2. ASSUME NEW x \in RowsOf(list') PROVE x \in RowsOf(list) /\ x \notin gone
      <3>1. PICK i \in 1..n : x = list[i] /\ i \in DOMAIN list
        BY <1>2, <2>2 DEF RowsOf
      <3>2. \A j \in (n + 1)..Len(list) : j \in DOMAIN list /\ j # i
        BY <3>1, ListIs
      <3>3. x \notin gone
        BY <3>1, <3>2, ListIs DEF NoTwice
      <3> QED
        BY <3>1, <3>3 DEF RowsOf
    <2>3. ASSUME NEW x \in RowsOf(list), x \notin gone PROVE x \in RowsOf(list')
      <3>1. PICK i \in DOMAIN list : x = list[i]
        BY <2>3 DEF RowsOf
      <3>2. i \in 1..n
        BY <2>3, <3>1, ListIs
      <3> QED
        BY <1>2, <3>1, <3>2 DEF RowsOf
    <2> QED
      BY <2>1, <2>2, <2>3
  <1>5. UpTo(list', Passed) \subseteq UpTo(list, Passed)
    BY <1>2 DEF UpTo
  <1>6. gone \in SUBSET Ids /\ {} \in SUBSET Ids /\ 0 \in Nat
    BY <1>4, ListIs
  <1>7. Cardinality(gone) \in Nat /\ Cardinality(gone) <= Cardinality(gone) + 0
    BY <1>6, PartOfIds
  <1>8. known' \in Nat /\ known' >= known
    BY <1>1, ListIs
  <1>9. /\ RowsOf(list) \subseteq RowsOf(list') \union gone
        /\ \A x \in RowsOf(list') : x \in RowsOf(list) \ gone
        /\ UpTo(list', Passed) \union gone \subseteq
             UpTo(list, Passed) \union gone \union {x \in Ids : x \notin 1..known}
    BY <1>4, <1>5
  <1> QED
    BY <1>1, <1>3, <1>4, <1>6, <1>7, <1>8, <1>9, ChangeCounts

LEMMA NextCounts == IInv /\ MissedInv /\ [Next]_vars => MissedInv'
  <1> SUFFICES ASSUME IInv, MissedInv, [Next]_vars PROVE MissedInv'
    OBVIOUS
  <1>1. ASSUME UNCHANGED vars PROVE MissedInv'
    BY <1>1
    DEF vars, MissedInv, MissedAtMostChanged, Missing, NoTwice, UpTo, Passed, Seen, Reading, RowsOf
  <1>2. ASSUME NEW page \in Pages, NEW limit \in Limits, Begin(page, limit) PROVE MissedInv'
    BY <1>2, BeginCounts
  <1>3. ASSUME FindRows PROVE MissedInv'
    BY <1>3, FindRowsCounts
  <1>4. ASSUME Count PROVE MissedInv'
    BY <1>4, CountCounts
  <1>5. ASSUME NEW i \in 1..(Len(list) + 1), Insert(i) PROVE MissedInv'
    BY <1>5, InsertCounts
  <1>6. ASSUME NEW i \in DOMAIN list, Touch(i) \/ Remove(i) PROVE MissedInv'
    BY <1>6, TouchCounts, RemoveCounts
  <1>7. ASSUME NEW i \in DOMAIN list, NEW j \in DOMAIN list, Rename(i, j) PROVE MissedInv'
    BY <1>7, RenameCounts
  <1>8. ASSUME NEW n \in 0..(Len(list) - 1), DeleteOlderThan(n) PROVE MissedInv'
    BY <1>8, DeleteCounts
  <1>9. ASSUME NEW i \in 1..(Len(list) - 1), Swap(i) PROVE MissedInv'
    BY <1>9, SwapCounts
  <1> QED
    BY <1>1, <1>2, <1>3, <1>4, <1>5, <1>6, <1>7, <1>8, <1>9 DEF Next, AtRest

(* In any list a client that reads to the end has missed at most one row   *)
(* for each row deleted and each change of place meanwhile.                *)
THEOREM MissedAtMostChangedAlways == Spec => []MissedAtMostChanged
  <1>1. MissedInv => MissedAtMostChanged
    BY DEF MissedInv
  <1> QED
    BY InitKeeps, NextKeeps, InitCounts, NextCounts, <1>1, PTL DEF Spec

(* Every variable has its type, no list holds a row twice, and no page of  *)
(* a ticket list is empty or larger than allowed.                          *)
THEOREM TypeCorrect == Spec => []TypeOK
  <1>1. IInv /\ MissedInv => TypeOK
    <2> SUFFICES ASSUME IInv, MissedInv PROVE TypeOK
      OBVIOUS
    <2> QED
      BY ListIs DEF IInv, Typed, MissedInv, NoTwice, TypeOK
  <1> QED
    BY InitKeeps, NextKeeps, InitCounts, NextCounts, <1>1, PTL DEF Spec

-------------------------------------------------------------------------------
(* How many rows are repeated, in any list                                 *)

(* The rows of s below position p. *)
Beyond(s, p) == {s[i] : i \in {j \in DOMAIN s : j > p}}

(* From s to t no position sees more than one row fall below it. *)
FallsOne(t, s) == \A p \in Int : \E x : Beyond(t, p) \subseteq Beyond(s, p) \union {x}

(* What rises from t to s falls from s to t. *)
LEMMA FallsAsRises ==
  ASSUME NEW S, NEW s \in Seq(S), NEW t \in Seq(S), NoTwice(t), RowsOf(t) = RowsOf(s),
         RisesOne(s, t)
  PROVE  FallsOne(t, s)
  <1> SUFFICES ASSUME NEW p \in Int PROVE \E x : Beyond(t, p) \subseteq Beyond(s, p) \union {x}
    BY DEF FallsOne
  <1> PICK x : UpTo(s, p) \subseteq UpTo(t, p) \union {x}
    BY DEF RisesOne
  <1>1. ASSUME NEW y \in Beyond(t, p), y \notin Beyond(s, p) PROVE y = x
    <2>1. PICK i \in DOMAIN t : i > p /\ y = t[i]
      BY <1>1 DEF Beyond
    <2>2. y \in RowsOf(s)
      BY <2>1 DEF RowsOf
    <2>3. PICK j \in DOMAIN s : y = s[j]
      BY <2>2 DEF RowsOf
    <2>4. j \in Int /\ ~(j > p)
      BY <1>1, <2>3 DEF Beyond
    <2>5. y \in UpTo(s, p)
      BY <2>3, <2>4 DEF UpTo
    <2>6. y \notin UpTo(t, p)
      BY <2>1 DEF UpTo, NoTwice
    <2> QED
      BY <2>5, <2>6
  <1> QED
    BY <1>1

(* A row that was moved from i to j is moved back from j to i. *)
LEMMA MovesBack ==
  ASSUME NEW S, NEW s \in Seq(S), NoTwice(s), NEW i \in DOMAIN s, NEW j \in DOMAIN s,
         NEW rest \in Seq(S), LacksOne(rest, s, i)
  PROVE  FallsOne(Inserted(rest, j, s[i]), s)
  <1> PICK row, t, back : row = s[i] /\ t = Inserted(rest, j, row) /\ back = Inserted(rest, i, row)
    OBVIOUS
  <1>1. /\ Len(s) \in Nat /\ DOMAIN s = 1..Len(s) /\ Len(rest) = Len(s) - 1
        /\ i \in 1..(Len(rest) + 1) /\ j \in 1..(Len(rest) + 1) /\ row \in S
    BY DEF LacksOne
  <1>2. t \in Seq(S) /\ NoTwice(t) /\ RowsOf(t) = RowsOf(s)
    BY RowMoves
  <1>3. HasNew(t, rest, j, row) /\ HasNew(back, rest, i, row) /\ back \in Seq(S)
    BY <1>1, PutIn, PutInPlace
  <1>4. LacksOne(rest, t, j) /\ t[j] = row /\ i \in DOMAIN t /\ j \in DOMAIN t
    BY <1>1, <1>2, <1>3 DEF HasNew, LacksOne
  <1>5. back = s
    <2>1. Len(back) = Len(s)
      BY <1>1, <1>3 DEF HasNew
    <2>2. ASSUME NEW k \in 1..Len(s) PROVE back[k] = s[k]
      <3>1. CASE k < i
        BY <1>1, <1>3, <3>1 DEF HasNew, LacksOne
      <3>2. CASE k = i
        BY <1>3, <3>2 DEF HasNew
      <3>3. CASE k > i
        <4>1. k - 1 \in i..Len(rest) /\ (k - 1) + 1 = k /\ k - 1 \in i..(Len(s) - 1)
          BY <1>1, <3>3
        <4>2. back[(k - 1) + 1] = rest[k - 1] /\ rest[k - 1] = s[(k - 1) + 1]
          BY <1>3, <4>1 DEF HasNew, LacksOne
        <4> QED
          BY <4>1, <4>2
      <3> QED
        BY <1>1, <3>1, <3>2, <3>3
    <2> QED
      BY <1>3, <2>1, <2>2
  <1>6. RisesOne(Inserted(rest, i, t[j]), t)
    BY <1>2, <1>4, RowMoves
  <1>7. RisesOne(s, t)
    BY <1>4, <1>5, <1>6
  <1> QED
    BY <1>2, <1>7, FallsAsRises

LEMMA SwapsBack ==
  ASSUME NEW S, NEW s \in Seq(S), NoTwice(s), NEW i \in 1..(Len(s) - 1), NEW t,
         t = [s EXCEPT ![i] = s[i + 1], ![i + 1] = s[i]]
  PROVE  FallsOne(t, s)
  <1>1. t \in Seq(S) /\ NoTwice(t) /\ RowsOf(t) = RowsOf(s)
    BY RowsSwap
  <1>2. /\ i \in DOMAIN s /\ i + 1 \in DOMAIN s /\ i # i + 1 /\ DOMAIN s = 1..Len(s)
        /\ Len(s) \in Nat
    OBVIOUS
  <1>3. /\ DOMAIN t = DOMAIN s /\ t[i] = s[i + 1] /\ t[i + 1] = s[i]
        /\ \A j \in DOMAIN s \ {i, i + 1} : t[j] = s[j]
    BY <1>2
  <1> PICK back : back = [t EXCEPT ![i] = t[i + 1], ![i + 1] = t[i]]
    OBVIOUS
  <1>4. Len(t) = Len(s) /\ i \in 1..(Len(t) - 1)
    BY <1>1, <1>2, <1>3
  <1>5. back = s
    <2>1. back \in Seq(S)
      BY <1>1, <1>4, RowsSwap
    <2>2. DOMAIN back = DOMAIN s /\ \A j \in DOMAIN s : back[j] = s[j]
      BY <1>2, <1>3
    <2>3. Len(back) = Len(s)
      BY <1>2, <2>1, <2>2
    <2> QED
      BY <1>2, <2>1, <2>2, <2>3
  <1>6. RisesOne(s, t)
    BY <1>1, <1>4, <1>5, RowsSwap
  <1> QED
    BY <1>1, <1>6, FallsAsRises

-------------------------------------------------------------------------------

(* The rows that the reader may be given again: read, and still to come.   *)
Ahead == Seen \intersect Beyond(list, Passed)

RepeatedInv ==
  /\ Seen \subseteq 1..known
  /\ IsFiniteSet(Again)
  /\ Reading =>
       /\ reader.size \in Nat
       /\ Cardinality(Again) + Cardinality(Ahead) <= reader.inserts + reader.moves
  /\ RepeatedAtMostCame

LEMMA RepeatedParts ==
  ASSUME IInv, RepeatedInv
  PROVE  /\ reader \in Reader /\ Passed \in Int /\ Cardinality(Again) \in Nat
         /\ Ahead \in SUBSET Ids /\ IsFiniteSet(Ahead) /\ Cardinality(Ahead) \in Nat
         /\ reader.inserts \in Nat /\ reader.moves \in Nat
  <1>1. reader \in Reader /\ Passed \in Int /\ IsFiniteSet(Again)
    BY MissingIsPart DEF RepeatedInv
  <1>2. Ahead \in SUBSET Ids
    BY DEF Ahead, Seen
  <1>3. Cardinality(Again) \in Nat
    BY <1>1, FS_CardinalityType
  <1> QED
    BY <1>1, <1>2, <1>3, PartOfIds DEF Reader

LEMMA InitRepeats == Init => RepeatedInv
  <1> SUFFICES ASSUME Init PROVE RepeatedInv
    OBVIOUS
  <1>1. reader.pc = "idle" /\ reader.inserts = 0 /\ reader.moves = 0
        /\ \A x \in Ids : reader.seen[x] = 0
    BY DEF Init, Unread
  <1>2. Again = {} /\ Seen = {}
    BY <1>1 DEF Again, Seen
  <1>3. IsFiniteSet(Again) /\ Cardinality(Again) = 0
    BY <1>2, FS_EmptySet
  <1> QED
    BY <1>1, <1>2, <1>3 DEF RepeatedInv, RepeatedAtMostCame, Reading

LEMMA BeginRepeats ==
  ASSUME IInv, NEW page \in Pages, NEW limit \in Limits, Begin(page, limit)
  PROVE  RepeatedInv'
  <1>1. Again' = {} /\ Seen' = {}
    <2>1. \A x \in Ids : reader'.seen[x] = 0
      BY Begins DEF Unread
    <2> QED
      BY <2>1 DEF Again, Seen
  <1>2. Ahead' = {}
    BY <1>1 DEF Ahead
  <1>3. IsFiniteSet(Again') /\ Cardinality(Again') = 0 /\ Cardinality(Ahead') = 0
    BY <1>1, <1>2, FS_EmptySet
  <1>4. reader'.inserts = 0 /\ reader'.moves = 0 /\ reader'.size \in Nat
    BY Begins
  <1> QED
    BY <1>1, <1>3, <1>4 DEF RepeatedInv, RepeatedAtMostCame

(* What a page adds to the rows that were given again was ahead before,    *)
(* and is not any more.                                                    *)
LEMMA FindRowsRepeats ==
  ASSUME IInv, MissedInv, RepeatedInv, FindRows
  PROVE  RepeatedInv'
  <1>1. /\ list' = list /\ known' = known /\ reader \in Reader /\ reader.pc = "rows" /\ Reading
        /\ \A x \in Ids : reader.seen[x] \in Nat
    BY MissingIsPart DEF FindRows, Reading, Reader
  <1>2. CASE Skip < 0
    <2>1. reader' = [reader EXCEPT !.pc = "failed"]
      BY <1>2 DEF FindRows
    <2>2. /\ reader'.pc = "failed" /\ reader'.seen = reader.seen
          /\ reader'.inserts = reader.inserts /\ reader'.moves = reader.moves
      BY <1>1, <2>1 DEF Reader
    <2>3. Again' = Again /\ Seen' = Seen
      BY <2>2 DEF Again, Seen
    <2> QED
      BY <1>1, <2>2, <2>3 DEF RepeatedInv, RepeatedAtMostCame, Reading
  <1>3. CASE ~(Skip < 0)
    <2> PICK old : old = Seen \intersect InWindow
      OBVIOUS
    <2> PICK seen : seen = [x \in Ids |-> IF x \in InWindow THEN reader.seen[x] + 1
                                                            ELSE reader.seen[x]]
      OBVIOUS
    <2>1. /\ reader' \in Reader /\ reader'.pc = "count" /\ reader'.size = reader.size
          /\ reader'.seen = seen
          /\ reader'.inserts = reader.inserts /\ reader'.moves = reader.moves
      <3>1. reader' = [reader EXCEPT !.pc = "count", !.seen = seen]
        BY <1>3 DEF FindRows
      <3> QED
        BY <1>1, <1>3, <3>1, RowsAreFound DEF Reader
    <2>2. Passed = Skip /\ Passed' = Skip + reader.size /\ Skip \in Int /\ reader.size \in Nat
          /\ reader'.page = reader.page
      <3>1. reader.size \in Nat /\ reader.page \in Int /\ reader'.page = reader.page
        BY <1>1, <1>3 DEF RepeatedInv, Reader, FindRows
      <3> QED
        BY <1>1, <2>1, <3>1, NextPage DEF Passed, Skip
    <2>3. old \subseteq Ahead /\ old \in SUBSET Ids /\ Seen' \subseteq 1..known'
      <3>1. InWindow \subseteq Beyond(list, Passed) /\ InWindow \subseteq 1..known
        BY <2>2, ListIs DEF InWindow, Beyond
      <3>2. Seen' \subseteq Seen \union InWindow
        BY <1>3, RowsAreFound
      <3> QED
        BY <1>1, <3>1, <3>2 DEF Ahead, Seen, RepeatedInv
    <2>4. Ahead' \subseteq Ahead \ old
      <3> SUFFICES ASSUME NEW x \in Ahead' PROVE x \in Ahead /\ x \notin InWindow
        OBVIOUS
      <3>1. PICK i \in DOMAIN list : x = list[i] /\ i > Passed'
        BY <1>1 DEF Ahead, Beyond
      <3>2. i \in Int /\ i > Passed /\ ~(i <= Skip + reader.size)
        BY <2>2, <3>1, ListIs
      <3>3. x \notin InWindow
        BY <3>1, <3>2, ListIs DEF InWindow, NoTwice
      <3>4. x \in Seen
        BY <1>3, <3>3, RowsAreFound DEF Ahead
      <3> QED
        BY <3>1, <3>2, <3>3, <3>4 DEF Ahead, Beyond
    <2>5. IsFiniteSet(Again') /\ Cardinality(Again') <= Cardinality(Again) + Cardinality(old)
          /\ Cardinality(Again') \in Nat
      <3> PICK f, added : /\ f = [x \in old |-> <<x, reader.seen[x] + 1>>]
                          /\ added = {f[x] : x \in old}
        OBVIOUS
      <3>1. f \in Surjection(old, added)
        BY DEF Surjection
      <3>2. IsFiniteSet(old) /\ Cardinality(old) \in Nat
        BY <2>3, PartOfIds
      <3>3. IsFiniteSet(added) /\ Cardinality(added) <= Cardinality(old)
        BY <3>1, <3>2, FS_Surjection
      <3>4. Again' \subseteq Again \union added
        <4> SUFFICES ASSUME NEW y \in Again' PROVE y \in Again \union added
          OBVIOUS
        <4>0. PICK x \in Ids : y \in {x} \X (2..seen[x])
          BY <2>1 DEF Again
        <4>1. PICK k \in 2..seen[x] : y = <<x, k>>
          BY <4>0
        <4>2. reader.seen[x] \in Nat
          BY <1>1
        <4>3. CASE k \in 2..reader.seen[x]
          BY <4>1, <4>3 DEF Again
        <4>4. CASE k \notin 2..reader.seen[x]
          <5>1. x \in InWindow /\ k = reader.seen[x] + 1 /\ reader.seen[x] > 0
            BY <4>1, <4>2, <4>4
          <5>2. x \in old
            BY <5>1 DEF Seen
          <5> QED
            BY <4>1, <5>1, <5>2
        <4> QED
          BY <4>3, <4>4
      <3>5. /\ IsFiniteSet(Again \union added)
            /\ Cardinality(Again \union added) =
                 Cardinality(Again) + Cardinality(added) - Cardinality(Again \intersect added)
        BY <3>3, FS_Union DEF RepeatedInv
      <3>6. Cardinality(Again \intersect added) \in Nat
        <4>1. IsFiniteSet(Again \intersect added)
          BY <3>3, FS_Subset
        <4> QED
          BY <4>1, FS_CardinalityType
      <3>7. IsFiniteSet(Again') /\ Cardinality(Again') <= Cardinality(Again \union added)
        BY <3>4, <3>5, FS_Subset
      <3>8. Cardinality(added) \in Nat /\ Cardinality(Again') \in Nat /\ Cardinality(Again) \in Nat
        BY <3>3, <3>7, FS_CardinalityType, RepeatedParts
      <3> QED
        BY <3>2, <3>3, <3>5, <3>6, <3>7, <3>8
    <2>6. Cardinality(Ahead') + Cardinality(old) <= Cardinality(Ahead) /\ Cardinality(Ahead') \in Nat
          /\ Cardinality(old) \in Nat
      <3>1. /\ IsFiniteSet(Ahead) /\ Ahead \in SUBSET Ids /\ IsFiniteSet(old)
            /\ Cardinality(old) \in Nat /\ Cardinality(Ahead) \in Nat
        BY <2>3, PartOfIds, RepeatedParts
      <3>2. Ahead' \in SUBSET Ids /\ Ahead' \union old \subseteq Ahead /\ Ahead' \intersect old = {}
        BY <2>3, <2>4, <3>1
      <3>3. IsFiniteSet(Ahead') /\ Cardinality(Ahead') \in Nat
        BY <3>2, PartOfIds
      <3>4. Cardinality(Ahead' \union old) =
              Cardinality(Ahead') + Cardinality(old) - Cardinality(Ahead' \intersect old)
        BY <3>1, <3>3, FS_Union
      <3>5. Cardinality(Ahead' \intersect old) = 0
        BY <3>2, FS_EmptySet
      <3>6. Cardinality(Ahead' \union old) <= Cardinality(Ahead)
        BY <3>1, <3>2, FS_Subset
      <3> QED
        BY <3>1, <3>3, <3>4, <3>5, <3>6
    <2>7. Cardinality(Again') + Cardinality(Ahead') <= reader'.inserts + reader'.moves
      BY <1>1, <2>1, <2>5, <2>6, RepeatedParts DEF RepeatedInv
    <2>8. RepeatedAtMostCame'
      <3>1. reader'.inserts \in Nat /\ reader'.moves \in Nat
        BY <2>1 DEF Reader
      <3> QED
        BY <2>5, <2>6, <2>7, <3>1 DEF RepeatedAtMostCame
    <2> QED
      BY <2>1, <2>2, <2>3, <2>5, <2>7, <2>8 DEF RepeatedInv
  <1> QED
    BY <1>2, <1>3

LEMMA CountRepeats ==
  ASSUME IInv, RepeatedInv, Count
  PROVE  RepeatedInv'
  <1>1. Again' = Again /\ Seen' = Seen /\ known' = known /\ list' = list /\ Reading
        /\ reader'.inserts = reader.inserts /\ reader'.moves = reader.moves /\ reader'.size = reader.size
    BY Counts DEF Again
  <1>2. RepeatedAtMostCame'
    BY <1>1 DEF RepeatedInv, RepeatedAtMostCame
  <1>3. CASE reader'.pc = "rows"
    <2>1. Ahead' = Ahead
      BY <1>1, <1>3, Counts DEF Ahead, Beyond
    <2> QED
      BY <1>1, <1>2, <2>1 DEF RepeatedInv
  <1>4. CASE reader'.pc = "done"
    BY <1>1, <1>2, <1>4 DEF RepeatedInv, Reading
  <1> QED
    BY <1>3, <1>4, Counts

(* A change counts when no more than one row that was read falls, and only *)
(* if it is noted.                                                         *)
LEMMA ChangeRepeats ==
  ASSUME IInv, MissedInv, RepeatedInv,
         NEW lost \in SUBSET Ids, NEW moved \in SUBSET Ids, NEW inserts \in Nat,
         Change(lost, moved, inserts), known' \in Nat, known' >= known,
         NEW more, more = {} \/ ((\E x : more = {x}) /\ (moved # {} \/ inserts > 0)),
         Beyond(list', Passed) \intersect 1..known \subseteq Beyond(list, Passed) \union more
  PROVE  RepeatedInv'
  <1>1. /\ reader' \in Reader
        /\ ~Reading => reader' = reader
        /\ Reading => /\ reader'.pc = reader.pc
                      /\ reader'.page = reader.page /\ reader'.size = reader.size
                      /\ reader'.seen = reader.seen
                      /\ reader'.moves = IF moved = {} THEN reader.moves ELSE reader.moves + 1
                      /\ reader'.inserts = reader.inserts + inserts
    BY ChangeIsNoted
  <1>2. /\ Seen \subseteq 1..known /\ 1..known \subseteq 1..known' /\ IsFiniteSet(Again)
    BY ListIs DEF RepeatedInv
  <1>3. CASE ~Reading
    <2>1. ~Reading' /\ Again' = Again /\ Seen' = Seen /\ RepeatedAtMostCame'
      BY <1>1, <1>3 DEF Reading, Again, Seen, RepeatedInv, RepeatedAtMostCame
    <2> QED
      BY <1>2, <2>1 DEF RepeatedInv
  <1>4. CASE Reading
    <2>1. Reading' /\ Again' = Again /\ Seen' = Seen /\ Passed' = Passed /\ reader'.size \in Nat
      BY <1>1, <1>4 DEF Reading, Again, Seen, Passed, RepeatedInv
    <2>2. Ahead' \subseteq Ahead \union more
      BY <1>2, <2>1 DEF Ahead, Beyond
    <2>3. /\ IsFiniteSet(Ahead) /\ Cardinality(Ahead) \in Nat /\ Cardinality(Again) \in Nat
          /\ reader.inserts \in Nat /\ reader.moves \in Nat
          /\ reader'.inserts \in Nat /\ reader'.moves \in Nat
      BY <1>1, RepeatedParts DEF Reader
    <2>4. Ahead' \in SUBSET Ids
      BY DEF Ahead, Seen
    <2>5. Cardinality(Ahead') \in Nat
      BY <2>4, PartOfIds
    <2>6. CASE more = {}
      <3>1. Cardinality(Ahead') <= Cardinality(Ahead)
        BY <2>2, <2>3, <2>6, FS_Subset
      <3>2. Cardinality(Again) + Cardinality(Ahead) <= reader.inserts + reader.moves
        BY <1>4 DEF RepeatedInv
      <3>3. reader'.inserts + reader'.moves >= reader.inserts + reader.moves
        BY <1>1, <1>4, <2>3
      <3>4. /\ Cardinality(Again') + Cardinality(Ahead') <= reader'.inserts + reader'.moves
            /\ Cardinality(Again') <= reader'.inserts + reader'.moves
        BY <2>1, <2>3, <2>5, <3>1, <3>2, <3>3
      <3> QED
        BY <1>2, <2>1, <3>4 DEF RepeatedInv, RepeatedAtMostCame
    <2>7. CASE (\E x : more = {x}) /\ (moved # {} \/ inserts > 0)
      <3> PICK x : more = {x}
        BY <2>7
      <3>1. IsFiniteSet(Ahead \union {x}) /\ Cardinality(Ahead \union {x}) <= Cardinality(Ahead) + 1
        <4>1. /\ IsFiniteSet(Ahead \union {x})
              /\ Cardinality(Ahead \union {x}) =
                   IF x \in Ahead THEN Cardinality(Ahead) ELSE Cardinality(Ahead) + 1
          BY <2>3, FS_AddElement, Zenon
        <4> QED
          BY <2>3, <4>1
      <3>2. Cardinality(Ahead') <= Cardinality(Ahead \union {x})
        BY <2>2, <3>1, FS_Subset
      <3>3. Cardinality(Again) + Cardinality(Ahead) <= reader.inserts + reader.moves
        BY <1>4 DEF RepeatedInv
      <3>4. reader'.inserts + reader'.moves >= reader.inserts + reader.moves + 1
        BY <1>1, <1>4, <2>3, <2>7
      <3>5. Cardinality(Ahead \union {x}) \in Nat
        BY <3>1, FS_CardinalityType
      <3>6. /\ Cardinality(Again') + Cardinality(Ahead') <= reader'.inserts + reader'.moves
            /\ Cardinality(Again') <= reader'.inserts + reader'.moves
        BY <2>1, <2>3, <2>5, <3>1, <3>2, <3>3, <3>4, <3>5
      <3> QED
        BY <1>2, <2>1, <3>6 DEF RepeatedInv, RepeatedAtMostCame
    <2> QED
      BY <2>6, <2>7
  <1> QED
    BY <1>3, <1>4

LEMMA InsertRepeats ==
  ASSUME IInv, MissedInv, RepeatedInv, NEW i \in 1..(Len(list) + 1), Insert(i)
  PROVE  RepeatedInv'
  <1> PICK x, p : x = known + 1 /\ p = Passed
    OBVIOUS
  <1>1. known' = x /\ list' = Inserted(list, i, x) /\ Change({}, {}, 1)
    BY DEF Insert
  <1>2. /\ list \in Seq(1..x) /\ x \in 1..x /\ x \notin 1..known /\ p \in Int
        /\ DOMAIN list = 1..Len(list) /\ Len(list) \in Nat
    BY ListIs
  <1>3. list' \in Seq(1..x) /\ HasNew(list', list, i, x)
    BY <1>1, <1>2, PutIn, PutInPlace
  <1>4. ASSUME NEW y \in Beyond(list', p), y \in 1..known, y \notin Beyond(list, p)
        PROVE  y = list[p]
    <2>1. PICK j \in DOMAIN list' : j > p /\ y = list'[j] /\ j \in 1..(Len(list) + 1)
      BY <1>2, <1>3, <1>4 DEF Beyond, HasNew
    <2>2. j # i
      BY <1>2, <1>3, <1>4, <2>1 DEF HasNew
    <2>3. CASE j < i
      <3>1. j \in DOMAIN list /\ y = list[j]
        BY <1>2, <1>3, <2>1, <2>3 DEF HasNew
      <3> QED
        BY <1>4, <2>1, <3>1 DEF Beyond
    <2>4. CASE j > i
      <3>1. j - 1 \in i..Len(list) /\ (j - 1) + 1 = j /\ j - 1 \in DOMAIN list
        BY <1>2, <2>1, <2>4
      <3>2. y = list[j - 1]
        BY <1>3, <2>1, <3>1 DEF HasNew
      <3>3. ~(j - 1 > p)
        BY <1>4, <3>1, <3>2 DEF Beyond
      <3>4. j - 1 = p
        BY <1>2, <2>1, <3>3
      <3> QED
        BY <3>2, <3>4
    <2> QED
      BY <1>2, <2>1, <2>2, <2>3, <2>4
  <1>5. Beyond(list', Passed) \intersect 1..known \subseteq Beyond(list, Passed) \union {list[p]}
    BY <1>4
  <1>6. known' \in Nat /\ known' >= known /\ {} \in SUBSET Ids /\ 1 \in Nat /\ 1 > 0
    BY <1>1, ListIs
  <1> QED
    BY <1>1, <1>5, <1>6, ChangeRepeats

LEMMA MoveRepeats ==
  ASSUME IInv, MissedInv, RepeatedInv, NEW moved \in SUBSET Ids, moved # {},
         Change({}, moved, 0), known' = known, FallsOne(list', list)
  PROVE  RepeatedInv'
  <1>1. known' \in Nat /\ known' >= known /\ 0 \in Nat /\ {} \in SUBSET Ids /\ Passed \in Int
    BY ListIs
  <1> PICK x : Beyond(list', Passed) \subseteq Beyond(list, Passed) \union {x}
    BY <1>1 DEF FallsOne
  <1> QED
    BY <1>1, ChangeRepeats

LEMMA TouchRepeats ==
  ASSUME IInv, MissedInv, RepeatedInv, NEW i \in DOMAIN list, Touch(i)
  PROVE  RepeatedInv'
  <1> PICK x, rest : x = list[i] /\ rest = Without(i)
    OBVIOUS
  <1>1. known' = known /\ list' = <<x>> \o rest /\ Change({}, {x}, 0)
    BY DEF Touch
  <1>2. /\ rest \in Seq(1..known) /\ LacksOne(rest, list, i) /\ x \in 1..known /\ {x} \in SUBSET Ids
        /\ 1 \in DOMAIN list /\ list \in Seq(1..known) /\ NoTwice(list)
    BY ListIs, TakenOut
  <1>3. list' = Inserted(rest, 1, x)
    <2>1. 1 \in 1..(Len(rest) + 1)
      BY <1>2
    <2> QED
      BY <1>1, <1>2, <2>1, PutIn
  <1>4. FallsOne(list', list)
    BY <1>2, <1>3, MovesBack
  <1> QED
    BY <1>1, <1>2, <1>4, MoveRepeats

LEMMA RenameRepeats ==
  ASSUME IInv, MissedInv, RepeatedInv, NEW i \in DOMAIN list, NEW j \in DOMAIN list, Rename(i, j)
  PROVE  RepeatedInv'
  <1> PICK x, rest : x = list[i] /\ rest = Without(i)
    OBVIOUS
  <1>1. known' = known /\ list' = Inserted(rest, j, x) /\ Change({}, {x}, 0)
    BY DEF Rename
  <1>2. /\ rest \in Seq(1..known) /\ LacksOne(rest, list, i) /\ x \in 1..known /\ {x} \in SUBSET Ids
        /\ list \in Seq(1..known) /\ NoTwice(list)
    BY ListIs, TakenOut
  <1>3. FallsOne(list', list)
    BY <1>1, <1>2, MovesBack
  <1> QED
    BY <1>1, <1>2, <1>3, MoveRepeats

LEMMA SwapRepeats ==
  ASSUME IInv, MissedInv, RepeatedInv, NEW i \in 1..(Len(list) - 1), Swap(i)
  PROVE  RepeatedInv'
  <1> PICK x, y, new : /\ x = list[i] /\ y = list[i + 1]
                       /\ new = [list EXCEPT ![i] = list[i + 1], ![i + 1] = list[i]]
    OBVIOUS
  <1>1. known' = known /\ list' = new /\ Change({}, {x, y}, 0)
    BY DEF Swap
  <1>2. /\ list \in Seq(1..known) /\ NoTwice(list) /\ x \in 1..known /\ y \in 1..known
        /\ {x, y} \in SUBSET Ids
    BY ListIs
  <1>3. FallsOne(list', list)
    BY <1>1, <1>2, SwapsBack
  <1> QED
    BY <1>1, <1>2, <1>3, MoveRepeats

(* What is taken out lets the others rise.                                 *)
LEMMA RemoveRepeats ==
  ASSUME IInv, MissedInv, RepeatedInv, NEW i \in DOMAIN list, Remove(i)
  PROVE  RepeatedInv'
  <1> PICK x, p, none : x = list[i] /\ p = Passed /\ none = {}
    OBVIOUS
  <1>1. known' = known /\ list' = Without(i) /\ Change({x}, {}, 0)
    BY DEF Remove
  <1>2. /\ list' \in Seq(1..known) /\ LacksOne(list', list, i) /\ {x} \in SUBSET Ids /\ p \in Int
        /\ DOMAIN list = 1..Len(list) /\ Len(list) \in Nat
    BY <1>1, ListIs, TakenOut
  <1>3. Beyond(list', p) \subseteq Beyond(list, p)
    <2> SUFFICES ASSUME NEW j \in DOMAIN list', j > p PROVE list'[j] \in Beyond(list, p)
      BY DEF Beyond
    <2>1. j \in 1..(Len(list) - 1)
      BY <1>2 DEF LacksOne
    <2>2. CASE j < i
      <3>1. j \in DOMAIN list /\ list'[j] = list[j]
        BY <1>2, <2>1, <2>2 DEF LacksOne
      <3> QED
        BY <3>1 DEF Beyond
    <2>3. CASE j >= i
      <3>1. j + 1 \in DOMAIN list /\ list'[j] = list[j + 1] /\ j + 1 > p
        BY <1>2, <2>1, <2>3 DEF LacksOne
      <3> QED
        BY <3>1 DEF Beyond
    <2> QED
      BY <1>2, <2>1, <2>2, <2>3
  <1>4. known' \in Nat /\ known' >= known /\ 0 \in Nat /\ {} \in SUBSET Ids
        /\ Beyond(list', Passed) \intersect 1..known \subseteq Beyond(list, Passed) \union none
    BY <1>1, <1>3, ListIs
  <1> QED
    BY <1>1, <1>2, <1>4, ChangeRepeats

LEMMA DeleteRepeats ==
  ASSUME IInv, MissedInv, RepeatedInv, NEW n \in 0..(Len(list) - 1), DeleteOlderThan(n)
  PROVE  RepeatedInv'
  <1> PICK gone, none : gone = {list[i] : i \in (n + 1)..Len(list)} /\ none = {}
    OBVIOUS
  <1>1. known' = known /\ list' = SubSeq(list, 1, n) /\ Change(gone, {}, 0)
    BY DEF DeleteOlderThan
  <1>2. DOMAIN list' = 1..n /\ \A i \in 1..n : i \in DOMAIN list /\ list'[i] = list[i]
    BY <1>1, ListIs
  <1>3. Beyond(list', Passed) \subseteq Beyond(list, Passed)
    BY <1>2 DEF Beyond
  <1>4. gone \in SUBSET Ids
    BY ListIs
  <1>5. known' \in Nat /\ known' >= known /\ 0 \in Nat /\ {} \in SUBSET Ids
        /\ Beyond(list', Passed) \intersect 1..known \subseteq Beyond(list, Passed) \union none
    BY <1>1, <1>3, ListIs
  <1> QED
    BY <1>1, <1>4, <1>5, ChangeRepeats

LEMMA NextRepeats == IInv /\ MissedInv /\ RepeatedInv /\ [Next]_vars => RepeatedInv'
  <1> SUFFICES ASSUME IInv, MissedInv, RepeatedInv, [Next]_vars PROVE RepeatedInv'
    OBVIOUS
  <1>1. ASSUME UNCHANGED vars PROVE RepeatedInv'
    BY <1>1
    DEF vars, RepeatedInv, RepeatedAtMostCame, Again, Ahead, Beyond, Passed, Seen, Reading
  <1>2. ASSUME NEW page \in Pages, NEW limit \in Limits, Begin(page, limit) PROVE RepeatedInv'
    BY <1>2, BeginRepeats
  <1>3. ASSUME FindRows PROVE RepeatedInv'
    BY <1>3, FindRowsRepeats
  <1>4. ASSUME Count PROVE RepeatedInv'
    BY <1>4, CountRepeats
  <1>5. ASSUME NEW i \in 1..(Len(list) + 1), Insert(i) PROVE RepeatedInv'
    BY <1>5, InsertRepeats
  <1>6. ASSUME NEW i \in DOMAIN list, Touch(i) \/ Remove(i) PROVE RepeatedInv'
    BY <1>6, TouchRepeats, RemoveRepeats
  <1>7. ASSUME NEW i \in DOMAIN list, NEW j \in DOMAIN list, Rename(i, j) PROVE RepeatedInv'
    BY <1>7, RenameRepeats
  <1>8. ASSUME NEW n \in 0..(Len(list) - 1), DeleteOlderThan(n) PROVE RepeatedInv'
    BY <1>8, DeleteRepeats
  <1>9. ASSUME NEW i \in 1..(Len(list) - 1), Swap(i) PROVE RepeatedInv'
    BY <1>9, SwapRepeats
  <1> QED
    BY <1>1, <1>2, <1>3, <1>4, <1>5, <1>6, <1>7, <1>8, <1>9 DEF Next, AtRest

(* In any list a client is given rows again at most once for each row that *)
(* came and each change of place meanwhile; deletions repeat nothing.      *)
THEOREM RepeatedAtMostCameAlways == Spec => []RepeatedAtMostCame
  <1>1. RepeatedInv => RepeatedAtMostCame
    BY DEF RepeatedInv
  <1> QED
    BY InitKeeps, NextKeeps, InitCounts, NextCounts, InitRepeats, NextRepeats, <1>1, PTL DEF Spec

===============================================================================
