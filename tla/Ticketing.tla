------------------------------- MODULE Ticketing -------------------------------
(***************************************************************************)
(* The ticketing service (src/ticketing/ticketing.service.ts): sellers and *)
(* staff work on support tickets through HTTP handlers of one Node process.*)
(* A handler runs without interruption between two awaits; every await of  *)
(* a repository call is a point where the steps of other handlers come in. *)
(* Each handler is therefore a chain of actions, one per await, with its   *)
(* local variables in reqs[r]. No handler uses a transaction or a lock.    *)
(*                                                                         *)
(* repo.save(entity) on a loaded entity is two statements of TypeORM: a    *)
(* SELECT of the row as it is now, then an UPDATE of the columns in which  *)
(* the caller's copy, loaded some awaits ago, differs from that SELECT.    *)
(*                                                                         *)
(* Left out: text, attachments, names, updatedAt, list pages and counts    *)
(* (they change nothing), and requests refused before they change anything *)
(* (404, 400 on a closed ticket), which are the guards of the handlers.    *)
(***************************************************************************)
EXTENDS Naturals, Sequences, FiniteSets

CONSTANTS
  Sellers,      \* core seller ids
  Admins,       \* ids of rows of admins, never deleted
  Tickets,      \* ids the tickets table may hand out
  Requests,     \* slots for handlers in flight at the same time
  MaxRequests,  \* bound: requests served in a behaviour
  Elapse,       \* milliseconds that may pass between two calls of new Date()
  Overlapping,  \* tickets on which several handlers may work at once
  Faulty,       \* tickets on which a handler may be cut short (query error,
                \* process restart)
  ZeroId        \* the admin whose id is 0, if one of them has it: ids are
                \* numbered from 1 here, for 0 stands for NULL

ASSUME AdminIdsAreSerial == Admins \subseteq Nat \ {0}
ASSUME ElapseIsTime == Elapse \subseteq Nat
ASSUME KindsOfTickets == Overlapping \subseteq Tickets /\ Faulty \subseteq Tickets
ASSUME ZeroIsAnAdmin == ZeroId \subseteq Admins
ASSUME BoundIsNatural == MaxRequests \in Nat

VARIABLES
  tickets,      \* tickets table: one row per id, NoRow when not yet created
  answers,      \* ticket_answers, in order of insertion, per ticket
  assignments,  \* ticket_assignments, in order of insertion, per ticket
  admins,       \* is_active and deleted_at of each admin
  reqs,         \* the handler running in each slot
  clock,        \* the value of the last new Date()
  served,       \* number of requests accepted so far
  delivered     \* answers that reached each seller in a response (history)

vars == <<tickets, answers, assignments, admins, reqs, clock, served, delivered>>
storage == <<tickets, answers, assignments, admins>>

Null == 0       \* SQL NULL, for ids and for timestamps alike

-------------------------------------------------------------------------------
(* Rows *)

TicketRow ==
  [user: Sellers \union {Null}, status: {"none", "open", "closed"},
   closedAt: Nat, closedBy: Admins \union {Null}, assigned: Admins \union {Null},
   lastAt: Nat, lastSide: {"user", "admin"}, seenAt: Nat]

NoRow == [user |-> Null, status |-> "none", closedAt |-> Null, closedBy |-> Null,
          assigned |-> Null, lastAt |-> Null, lastSide |-> "user", seenAt |-> Null]

Answer == [side: {"user", "admin", "internal"}, at: Nat]

Assignment == [admin: Admins, from: Nat, to: Nat, by: Admins \union {Null}]

(* A handler: where it is, whose it is, and its local variables: copy is   *)
(* the ticket it loaded, own the one assignTicket loads for itself, base   *)
(* the row as the SELECT of the running save() saw it.                     *)
Handler ==
  [pc: {"idle", "answers", "insertTicket", "firstAssignment", "resolveAdmin",
        "insertAnswer", "autoAssign", "history", "target", "insertAssignment",
        "saveOwn", "writeOwn", "save", "write"},
   op: {"none", "create", "view", "answer", "closeBySeller", "reopenBySeller",
        "reply", "note", "close", "reopen", "assign"},
   ticket: Tickets \union {Null}, actor: Sellers \union Admins \union {Null},
   copy: TicketRow, own: TicketRow, base: TicketRow,
   now: Nat, target: Admins \union {Null}, page: Nat]

Idle == [pc |-> "idle", op |-> "none", ticket |-> Null, actor |-> Null,
         copy |-> NoRow, own |-> NoRow, base |-> NoRow,
         now |-> Null, target |-> Null, page |-> 0]

Init ==
  /\ tickets = [t \in Tickets |-> NoRow]
  /\ answers = [t \in Tickets |-> << >>]
  /\ assignments = [t \in Tickets |-> << >>]
  /\ admins = [a \in Admins |-> [active |-> TRUE, deleted |-> FALSE]]
  /\ reqs = [r \in Requests |-> Idle]
  /\ clock = 1
  /\ served = 0
  /\ delivered = [s \in Sellers |-> {}]

-------------------------------------------------------------------------------
(* What the handlers compute *)

Instants == {clock + d : d \in Elapse}

Exists(t) == tickets[t].status # "none"
OwnedBy(s, t) == Exists(t) /\ tickets[t].user = s
IsOpen(t) == tickets[t].status = "open"

(* !ticket.assignedAdminId is true of the admin with id 0 as well. *)
LooksUnassigned(row) == row.assigned \in {Null} \union ZeroId

IsUnreadForSeller(row) == row.lastSide = "admin" /\ row.lastAt > row.seenAt

(* The first k answers of t, internal notes filtered out. *)
PublicAnswers(t, k) == {i \in 1..k : i <= Len(answers[t]) /\ answers[t][i].side # "internal"}

(* Wrong: the word of the API ("close") in the column, a close that moves  *)
(* the seller's cursor, the closer left in place, the wrong side, a reply  *)
(* that moves the seller's cursor.                                         *)
ClosedAsClose(row, n) == [row EXCEPT !.status = "close", !.closedAt = n]
ClosedAndSeen(row, n) == [row EXCEPT !.status = "closed", !.closedAt = n, !.seenAt = n]
ReopenedKeepingCloser(row) == [row EXCEPT !.status = "open", !.closedAt = Null]
TouchedAsAdmin(row, n) == [row EXCEPT !.lastAt = n, !.lastSide = "admin", !.seenAt = n]
TouchedAndSeen(row, n) == [row EXCEPT !.lastAt = n, !.lastSide = "admin", !.seenAt = n]

Closed(row, n) == [row EXCEPT !.status = "closed", !.closedAt = n]
Reopened(row) == [row EXCEPT !.status = "open", !.closedAt = Null, !.closedBy = Null]
TouchedBySeller(row, n) == [row EXCEPT !.lastAt = n, !.lastSide = "user", !.seenAt = n]
TouchedByStaff(row, n) == [row EXCEPT !.lastAt = n, !.lastSide = "admin"]

Eligible == {a \in Admins : admins[a].active /\ ~admins[a].deleted}
OpenCount(a) == Cardinality({t \in Tickets : IsOpen(t) /\ tickets[t].assigned = a})
RanksBefore(a, b) ==
  \/ OpenCount(a) < OpenCount(b)
  \/ OpenCount(a) = OpenCount(b) /\ a <= b
IsAutoAssignee(a) ==
  \/ a \in Eligible /\ \A b \in Eligible : RanksBefore(a, b)
  \/ a = Null /\ Eligible = {}

(* Wrong: ended entries are ended again, nothing is ended, the active      *)
(* entries are deleted.                                                    *)
EndAll(history, n) == [i \in DOMAIN history |-> [history[i] EXCEPT !.to = n]]
EndNone(history, n) == history
DropActive(history, n) == SelectSeq(history, LAMBDA e : e.to # Null)
(* UPDATE ticket_assignments SET unassigned_at = n WHERE it is null. *)
EndActive(history, n) ==
  [i \in DOMAIN history |->
     IF history[i].to = Null THEN [history[i] EXCEPT !.to = n] ELSE history[i]]

(* What the UPDATE of save() leaves in a row that is now cur, when its     *)
(* SELECT saw base and the caller's copy is mine.                          *)
Column(mine, base, cur) == IF mine # base THEN mine ELSE cur
Merged(mine, base, cur) ==
  [user |-> cur.user,
   status |-> Column(mine.status, base.status, cur.status),
   closedAt |-> Column(mine.closedAt, base.closedAt, cur.closedAt),
   closedBy |-> Column(mine.closedBy, base.closedBy, cur.closedBy),
   assigned |-> Column(mine.assigned, base.assigned, cur.assigned),
   lastAt |-> Column(mine.lastAt, base.lastAt, cur.lastAt),
   lastSide |-> Column(mine.lastSide, base.lastSide, cur.lastSide),
   seenAt |-> Column(mine.seenAt, base.seenAt, cur.seenAt)]

-------------------------------------------------------------------------------
(* Accepting a request, moving a handler on, answering *)

(* Slot r takes a request on ticket t. Unless the ticket is Overlapping    *)
(* its callers wait for each other, as they would behind a lock per ticket.*)
Accept(r, t) ==
  /\ reqs[r] = Idle
  /\ served < MaxRequests
  /\ t \in Overlapping \/ \A q \in Requests : reqs[q].ticket # t
  /\ served' = served + 1

Start(r, h) == reqs' = [reqs EXCEPT ![r] = h]

Loaded(op, t, actor, pc, row) ==
  [Idle EXCEPT !.op = op, !.ticket = t, !.actor = actor, !.pc = pc, !.copy = row]

At(r, pc) == reqs[r].pc = pc
Goto(r, pc) == reqs' = [reqs EXCEPT ![r].pc = pc]
Finish(r) == reqs' = [reqs EXCEPT ![r] = Idle]

(* The answers read into page reach the seller with the response. *)
Deliver(r, k) ==
  LET h == reqs[r] IN
  delivered' = [delivered EXCEPT ![h.actor] =
                  @ \union {<<h.ticket, i>> : i \in PublicAnswers(h.ticket, k)}]

-------------------------------------------------------------------------------
(* Seller handlers *)

CreateSellerTicket(r, s, t) ==
  /\ Accept(r, t)
  /\ ~Exists(t)
  /\ \A q \in Requests : reqs[q].ticket # t
  /\ \E n \in Instants, a \in Admins \union {Null} :
       /\ IsAutoAssignee(a)
       /\ clock' = n
       /\ Start(r, [Loaded("create", t, s, "insertTicket",
                      [user |-> s, status |-> "open", closedAt |-> Null,
                       closedBy |-> Null, assigned |-> a, lastAt |-> n,
                       lastSide |-> "user", seenAt |-> n]) EXCEPT !.now = n])
  /\ UNCHANGED <<storage, delivered>>

InsertTicket(r) ==
  /\ At(r, "insertTicket")
  /\ tickets' = [tickets EXCEPT ![reqs[r].ticket] = reqs[r].copy]
  /\ IF reqs[r].copy.assigned = Null THEN Finish(r) ELSE Goto(r, "firstAssignment")
  /\ UNCHANGED <<answers, assignments, admins, clock, served, delivered>>

InsertFirstAssignment(r) ==
  LET h == reqs[r] IN
  /\ At(r, "firstAssignment")
  /\ assignments' = [assignments EXCEPT ![h.ticket] =
       Append(@, [admin |-> h.copy.assigned, from |-> h.now, to |-> Null, by |-> Null])]
  /\ Finish(r)
  /\ UNCHANGED <<tickets, answers, admins, clock, served, delivered>>

GetSellerTicket(r, s, t) ==
  /\ Accept(r, t)
  /\ OwnedBy(s, t)
  /\ Start(r, Loaded("view", t, s, "answers", tickets[t]))
  /\ UNCHANGED <<storage, clock, delivered>>

(* The read cursor moves only if the ticket, as loaded, was unread. *)
ReadAnswers(r) ==
  LET h == reqs[r]
      k == Len(answers[h.ticket]) IN
  /\ At(r, "answers")
  /\ \/ /\ IsUnreadForSeller(h.copy)
        /\ \E n \in Instants :
             /\ clock' = n
             /\ Start(r, [h EXCEPT !.pc = "save", !.page = k, !.copy.seenAt = n])
        /\ UNCHANGED delivered
     \/ /\ ~IsUnreadForSeller(h.copy)
        /\ Deliver(r, k)
        /\ Finish(r)
        /\ UNCHANGED clock
  /\ UNCHANGED <<storage, served>>

AnswerSellerTicket(r, s, t) ==
  /\ Accept(r, t)
  /\ OwnedBy(s, t) /\ IsOpen(t)
  /\ \E n \in Instants :
       /\ clock' = n
       /\ Start(r, [Loaded("answer", t, s, "insertAnswer", tickets[t]) EXCEPT !.now = n])
  /\ UNCHANGED <<storage, delivered>>

CloseSellerTicket(r, s, t) ==
  /\ Accept(r, t)
  /\ OwnedBy(s, t)
  /\ \E n \in Instants :
       /\ clock' = n
       /\ Start(r, Loaded("closeBySeller", t, s, "save", Closed(tickets[t], n)))
  /\ UNCHANGED <<storage, delivered>>

ReopenSellerTicket(r, s, t) ==
  /\ Accept(r, t)
  /\ OwnedBy(s, t)
  /\ Start(r, Loaded("reopenBySeller", t, s, "save", Reopened(tickets[t])))
  /\ UNCHANGED <<storage, clock, delivered>>

-------------------------------------------------------------------------------
(* Staff handlers *)

(* Wrong: the check for a closed ticket is missing. *)
StaffReplyToAny(r, a, t) ==
  /\ Accept(r, t)
  /\ Exists(t)
  /\ Start(r, Loaded("reply", t, a, "resolveAdmin", tickets[t]))
  /\ UNCHANGED <<storage, clock, delivered>>

StaffReply(r, a, t) ==
  /\ Accept(r, t)
  /\ IsOpen(t)
  /\ Start(r, Loaded("reply", t, a, "resolveAdmin", tickets[t]))
  /\ UNCHANGED <<storage, clock, delivered>>

(* staffReply takes its time stamp after resolveAdmin, before the insert;  *)
(* addInternalNote takes none.                                             *)
ResolveAdmin(r) ==
  /\ At(r, "resolveAdmin")
  /\ \/ /\ reqs[r].op = "reply"
        /\ \E n \in Instants :
             /\ clock' = n
             /\ Start(r, [reqs[r] EXCEPT !.pc = "insertAnswer", !.now = n])
     \/ /\ reqs[r].op = "note"
        /\ Start(r, [reqs[r] EXCEPT !.pc = "insertAnswer"])
        /\ UNCHANGED clock
  /\ UNCHANGED <<storage, served, delivered>>

AddInternalNote(r, a, t) ==
  /\ Accept(r, t)
  /\ Exists(t)
  /\ Start(r, Loaded("note", t, a, "resolveAdmin", tickets[t]))
  /\ UNCHANGED <<storage, clock, delivered>>

(* answersRepo.save of all three kinds of answer, and the synchronous code *)
(* after it. A reply on a ticket that looked unassigned when it was loaded *)
(* goes through assignTicket first and keeps its own copy meanwhile.       *)
InsertAnswer(r) ==
  LET h == reqs[r]
      Post(side) == answers' = [answers EXCEPT ![h.ticket] =
                                  Append(@, [side |-> side, at |-> clock])] IN
  /\ At(r, "insertAnswer")
  /\ \/ /\ h.op = "answer"
        /\ Post("user")
        /\ Start(r, [h EXCEPT !.pc = "save", !.copy = TouchedBySeller(h.copy, h.now)])
     \/ /\ h.op = "reply"
        /\ Post("admin")
        /\ Start(r, [h EXCEPT !.pc = IF LooksUnassigned(h.copy) THEN "autoAssign" ELSE "save",
                              !.copy = TouchedByStaff(h.copy, h.now)])
     \/ /\ h.op = "note"
        /\ Post("internal")
        /\ Finish(r)
  /\ UNCHANGED <<tickets, assignments, admins, clock, served, delivered>>

CloseTicket(r, a, t) ==
  /\ Accept(r, t)
  /\ Exists(t)
  /\ \E n \in Instants :
       /\ clock' = n
       /\ Start(r, Loaded("close", t, a, "save",
                          [Closed(tickets[t], n) EXCEPT !.closedBy = a]))
  /\ UNCHANGED <<storage, delivered>>

ReopenTicket(r, a, t) ==
  /\ Accept(r, t)
  /\ Exists(t)
  /\ Start(r, Loaded("reopen", t, a, "save", Reopened(tickets[t])))
  /\ UNCHANGED <<storage, clock, delivered>>

(* assignTicket: target Null takes the assignment away. *)
AssignTicket(r, a, t, target) ==
  /\ Accept(r, t)
  /\ Exists(t)
  /\ \E n \in Instants :
       /\ clock' = n
       /\ Start(r, [Loaded("assign", t, a, "history", NoRow)
                      EXCEPT !.own = tickets[t], !.target = target, !.now = n])
  /\ UNCHANGED <<storage, delivered>>

(* assignTicket called by staffReply, silently, for the replying admin. *)
AutoAssign(r) ==
  LET h == reqs[r] IN
  /\ At(r, "autoAssign")
  /\ \E n \in Instants :
       /\ clock' = n
       /\ Start(r, [h EXCEPT !.pc = "history", !.own = tickets[h.ticket],
                             !.target = h.actor, !.now = n])
  /\ UNCHANGED <<storage, served, delivered>>

EndAssignments(r) ==
  LET h == reqs[r] IN
  /\ At(r, "history")
  /\ assignments' = [assignments EXCEPT ![h.ticket] = EndActive(@, h.now)]
  /\ Start(r, IF h.target = Null
                THEN [h EXCEPT !.pc = "saveOwn", !.own.assigned = Null]
                ELSE [h EXCEPT !.pc = "target"])
  /\ UNCHANGED <<tickets, answers, admins, clock, served, delivered>>

(* No active target: staffReply goes on without it, a direct call answers  *)
(* 400, either way with the earlier assignments already ended.             *)
FindTarget(r) ==
  LET h == reqs[r] IN
  /\ At(r, "target")
  /\ \/ admins[h.target].active /\ Goto(r, "insertAssignment")
     \/ ~admins[h.target].active /\ h.op = "reply" /\ Goto(r, "save")
     \/ ~admins[h.target].active /\ h.op = "assign" /\ Finish(r)
  /\ UNCHANGED <<storage, clock, served, delivered>>

(* Wrong: assigning a ticket reopens it. *)
InsertAssignmentAndReopen(r) ==
  LET h == reqs[r] IN
  /\ At(r, "insertAssignment")
  /\ assignments' = [assignments EXCEPT ![h.ticket] =
       Append(@, [admin |-> h.target, from |-> h.now, to |-> Null, by |-> h.actor])]
  /\ Start(r, [h EXCEPT !.pc = "saveOwn", !.own = [Reopened(@) EXCEPT !.assigned = h.target]])
  /\ UNCHANGED <<tickets, answers, admins, clock, served, delivered>>

InsertAssignment(r) ==
  LET h == reqs[r] IN
  /\ At(r, "insertAssignment")
  /\ assignments' = [assignments EXCEPT ![h.ticket] =
       Append(@, [admin |-> h.target, from |-> h.now, to |-> Null, by |-> h.actor])]
  /\ Start(r, [h EXCEPT !.pc = "saveOwn", !.own.assigned = h.target])
  /\ UNCHANGED <<tickets, answers, admins, clock, served, delivered>>

-------------------------------------------------------------------------------
(* ticketsRepo.save(ticket), SELECT and UPDATE *)

SelectForSave(r) ==
  LET h == reqs[r] IN
  /\ \/ At(r, "save") /\ Start(r, [h EXCEPT !.pc = "write", !.base = tickets[h.ticket]])
     \/ At(r, "saveOwn") /\ Start(r, [h EXCEPT !.pc = "writeOwn", !.base = tickets[h.ticket]])
  /\ UNCHANGED <<storage, clock, served, delivered>>

(* The save of assignTicket; staffReply then saves the copy it still has.  *)
UpdateOwn(r) ==
  LET h == reqs[r] IN
  /\ At(r, "writeOwn")
  /\ tickets' = [tickets EXCEPT ![h.ticket] = Merged(h.own, h.base, @)]
  /\ IF h.op = "reply" THEN Goto(r, "save") ELSE Finish(r)
  /\ UNCHANGED <<answers, assignments, admins, clock, served, delivered>>

Update(r) ==
  LET h == reqs[r] IN
  /\ At(r, "write")
  /\ tickets' = [tickets EXCEPT ![h.ticket] = Merged(h.copy, h.base, @)]
  /\ IF h.op = "view" THEN Deliver(r, h.page) ELSE UNCHANGED delivered
  /\ Finish(r)
  /\ UNCHANGED <<answers, assignments, admins, clock, served>>

-------------------------------------------------------------------------------
(* The surroundings *)

(* AdminsService.toggleActive and remove, seen from here as one UPDATE by  *)
(* a request that finds a free slot.                                       *)
AdminRequest ==
  /\ \E r \in Requests : reqs[r] = Idle
  /\ served < MaxRequests
  /\ served' = served + 1
  /\ UNCHANGED <<tickets, answers, assignments, reqs, clock, delivered>>

ToggleActive(a) ==
  /\ AdminRequest
  /\ admins' = [admins EXCEPT ![a].active = ~@]

RemoveAdmin(a) ==
  /\ AdminRequest
  /\ ~admins[a].deleted
  /\ admins' = [admins EXCEPT ![a].deleted = TRUE]

(* A rejected await (query error, lost connection) or a restart of the     *)
(* process ends a handler where it is; what it wrote stays.                *)
Abort(r) ==
  /\ reqs[r].ticket \in Faulty
  /\ Finish(r)
  /\ UNCHANGED <<storage, clock, served, delivered>>

(* The bound is reached and every handler has answered.                    *)
AtRest ==
  /\ served = MaxRequests
  /\ \A r \in Requests : reqs[r] = Idle
  /\ UNCHANGED vars

SellerRequest(r, s, t) ==
  \/ CreateSellerTicket(r, s, t)
  \/ GetSellerTicket(r, s, t)
  \/ AnswerSellerTicket(r, s, t)
  \/ CloseSellerTicket(r, s, t)
  \/ ReopenSellerTicket(r, s, t)

StaffRequest(r, a, t) ==
  \/ StaffReply(r, a, t)
  \/ AddInternalNote(r, a, t)
  \/ CloseTicket(r, a, t)
  \/ ReopenTicket(r, a, t)
  \/ \E target \in Admins \union {Null} : AssignTicket(r, a, t, target)

(* The steps that carry an accepted request to its response. *)
Step(r) ==
  \/ InsertTicket(r)
  \/ InsertFirstAssignment(r)
  \/ ReadAnswers(r)
  \/ ResolveAdmin(r)
  \/ InsertAnswer(r)
  \/ AutoAssign(r)
  \/ EndAssignments(r)
  \/ FindTarget(r)
  \/ InsertAssignment(r)
  \/ SelectForSave(r)
  \/ UpdateOwn(r)
  \/ Update(r)

Next ==
  \/ \E r \in Requests, t \in Tickets :
       \/ \E s \in Sellers : SellerRequest(r, s, t)
       \/ \E a \in Admins : StaffRequest(r, a, t)
  \/ \E r \in Requests : Step(r) \/ Abort(r)
  \/ \E a \in Admins : ToggleActive(a) \/ RemoveAdmin(a)
  \/ AtRest

Spec == Init /\ [][Next]_vars

(* Node's event loop resumes a handler once the database has answered, and *)
(* the database answers: no accepted request is left standing.             *)
FairSpec == Spec /\ \A r \in Requests : WF_vars(Step(r))

===============================================================================
