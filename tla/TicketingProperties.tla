-------------------------- MODULE TicketingProperties --------------------------
(***************************************************************************)
(* The correctness properties of Ticketing, and the mapping under which it *)
(* implements TicketDesk. The first group holds however requests overlap,  *)
(* the second for tickets on which no two requests work at once, the third *)
(* when, besides, no request is cut short.                                 *)
(***************************************************************************)
EXTENDS Ticketing

(* Every variable has its type: the rows fit the columns of the entities   *)
(* (src/entities/ticket*.entity.ts), the handlers their locals.            *)
TypeOK ==
  /\ tickets \in [Tickets -> TicketRow]
  /\ answers \in [Tickets -> Seq(Answer)]
  /\ assignments \in [Tickets -> Seq(Assignment)]
  /\ admins \in [Admins -> [active: BOOLEAN, deleted: BOOLEAN]]
  /\ reqs \in [Requests -> Handler]
  /\ clock \in Nat
  /\ served \in Nat
  /\ delivered \in [Sellers -> SUBSET (Tickets \X Nat)]

HasAnswerFrom(t, side) == \E i \in DOMAIN answers[t] : answers[t][i].side = side
WasAssignedTo(t, a) == \E i \in DOMAIN assignments[t] : assignments[t][i].admin = a
IsActive(t, i) == assignments[t][i].to = Null
Quiet(t) == \A r \in Requests : reqs[r].ticket # t
Shown(t, i) == \E s \in Sellers : <<t, i>> \in delivered[s]

-------------------------------------------------------------------------------
(* Whatever overlaps, and whatever is cut short *)

(* A ticket whose last message is recorded as the staff's has an answer of *)
(* the staff: save() of a stale copy may lose a reply's mark but never     *)
(* invents one, so no unread badge is raised over a thread without reply.  *)
NoPhantomReply ==
  \A t \in Tickets : tickets[t].lastSide = "admin" => HasAnswerFrom(t, "admin")

(* The assignment history is a log: no step removes or rewrites an entry,  *)
(* except that an active one is ended once.                                *)
HistoryIsALog ==
  [][\A t \in Tickets : \A i \in DOMAIN assignments[t] :
       /\ i \in DOMAIN assignments'[t]
       /\ \/ assignments'[t][i] = assignments[t][i]
          \/ /\ assignments[t][i].to = Null
             /\ assignments'[t][i] = [assignments[t][i] EXCEPT !.to = assignments'[t][i].to]]_vars

(* The admin a ticket is assigned to is in its history, but for the moment *)
(* between the two inserts of createSellerTicket, and unless these were    *)
(* cut apart. Stale copies may bring back an earlier assignee, never one   *)
(* that never was.                                                         *)
AssigneeIsInHistory ==
  \A t \in Tickets \ Faulty :
    tickets[t].assigned = Null \/ WasAssignedTo(t, tickets[t].assigned)
      \/ \E r \in Requests : At(r, "firstAssignment") /\ reqs[r].ticket = t

-------------------------------------------------------------------------------
(* Tickets on which no two requests work at the same time, beside others   *)
(* on which they do                                                        *)

Apart == Tickets \ Overlapping

(* Status and closing columns tell one story: an open ticket has neither a *)
(* closing time nor a closer, a closed one has a closing time.             *)
ClosingColumnsAgree ==
  \A t \in Apart :
    /\ IsOpen(t) => tickets[t].closedAt = Null /\ tickets[t].closedBy = Null
    /\ tickets[t].status = "closed" => tickets[t].closedAt # Null

(* assignTicket ends what is active before it inserts: at most one entry   *)
(* of a ticket's history is active, and none ends before it starts.        *)
OneActiveAssignment ==
  \A t \in Apart :
    /\ \A i, j \in DOMAIN assignments[t] : IsActive(t, i) /\ IsActive(t, j) => i = j
    /\ \A i \in DOMAIN assignments[t] : IsActive(t, i) \/ assignments[t][i].from <= assignments[t][i].to

(* The request of slot r that takes this step, if any. *)
Moves(r, ops) == reqs[r].op \in ops /\ reqs'[r] # reqs[r]

(* A status changes only by a request to change it: an answer, a view or   *)
(* an assignment never carries an old status back into the row.            *)
StatusChangesOnRequest ==
  [][\A t \in Apart :
       /\ tickets[t].status = "open" /\ tickets'[t].status = "closed"
            => \E r \in Requests : reqs[r].ticket = t /\ Moves(r, {"close", "closeBySeller"})
       /\ tickets[t].status = "closed" /\ tickets'[t].status = "open"
            => \E r \in Requests : reqs[r].ticket = t /\ Moves(r, {"reopen", "reopenBySeller"})]_vars

(* The unread badge of a ticket goes away only when its seller views the   *)
(* thread or answers in it.                                                *)
BadgeClearedBySeller ==
  [][\A t \in Apart :
       IsUnreadForSeller(tickets[t]) /\ ~IsUnreadForSeller(tickets'[t])
         => \E r \in Requests : reqs[r].ticket = t /\ Moves(r, {"view", "answer"})]_vars

-------------------------------------------------------------------------------
(* When, besides, every accepted request runs to its end *)

Undisturbed == Apart \ Faulty

(* The last public answer of t is i, a staff reply its seller never got.   *)
UnseenReply(t, i) ==
  /\ i \in DOMAIN answers[t]
  /\ answers[t][i].side = "admin"
  /\ \A j \in DOMAIN answers[t] : j > i => answers[t][j].side = "internal"
  /\ ~Shown(t, i)

(* sellerLastSeenAt serves the unread badge: a ticket nobody works on,     *)
(* whose newest public answer is a reply the seller was never sent, is     *)
(* unread.                                                                 *)
UnseenReplyIsUnread ==
  \A t \in Undisturbed : \A i \in DOMAIN answers[t] :
    Quiet(t) /\ UnseenReply(t, i) => IsUnreadForSeller(tickets[t])

(* The read cursor of a ticket at rest that was last written to by the     *)
(* staff stands past the last message only if the seller was sent it:      *)
(* sellerLastSeenAt is when the seller last viewed the thread.             *)
CursorMeansSent ==
  \A t \in Tickets : \A i \in DOMAIN answers[t] :
    Quiet(t) /\ UnseenReply(t, i) /\ tickets[t].lastSide = "admin"
      => tickets[t].seenAt < tickets[t].lastAt

(* A ticket at rest that has an assignee and an active history entry has   *)
(* them of the same admin, unless the assignee is the one with id 0: a     *)
(* reply takes that for no assignee, assigns the ticket, and writes the    *)
(* old assignee back.                                                      *)
AssigneeMatchesActive ==
  \A t \in Undisturbed : \A i \in DOMAIN assignments[t] :
    Quiet(t) /\ IsActive(t, i) /\ tickets[t].assigned \notin {Null} \union ZeroId
      => assignments[t][i].admin = tickets[t].assigned

(* Every staff reply reaches the seller's badge: once it is in the thread, *)
(* the ticket becomes unread, unless the seller gets or answers it first.  *)
ReplyIsAnnounced ==
  \A t \in Tickets : \A i \in 1..MaxRequests :
    UnseenReply(t, i) ~> (IsUnreadForSeller(tickets[t]) \/ ~UnseenReply(t, i))

(* The implementation of TicketDesk. A post counts from the request's last *)
(* write on, which is when lastMessageAt tells of it.                      *)
Posting(t) ==
  \E r \in Requests :
    /\ reqs[r].ticket = t
    /\ reqs[r].op \in {"answer", "reply"}
    /\ reqs[r].pc \notin {"resolveAdmin", "insertAnswer"}

SettledThread(t) ==
  [i \in 1..(IF Posting(t) THEN Len(answers[t]) - 1 ELSE Len(answers[t])) |-> answers[t][i].side]

Desk == INSTANCE TicketDesk WITH
          status <- [t \in Tickets |-> tickets[t].status],
          thread <- [t \in Tickets |-> SettledThread(t)],
          badge <- [t \in Tickets |-> IsUnreadForSeller(tickets[t])]

(* With one request at a time on each ticket, none cut short and time      *)
(* passing between time stamps, the handlers behave as the atomic desk.    *)
ImplementsDesk == Desk!Spec

===============================================================================
