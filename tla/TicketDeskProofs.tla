--------------------------- MODULE TicketDeskProofs ---------------------------
(***************************************************************************)
(* Further theorems about Ticketing: who may stand as the assignee of a    *)
(* ticket, and what holds for tickets on which no two requests work at the *)
(* same time, whatever happens on the other tickets.                       *)
(***************************************************************************)
EXTENDS TicketingProofs

-------------------------------------------------------------------------------
(* What a request and a step of a request do, field by field               *)

(* Slot r alone changes, and the request in it goes on with this. *)
OneSlot(r) == \A q \in Requests \ {r} : reqs'[q] = reqs[q]
Becomes(r, pc, copy, own, base) ==
  /\ reqs'[r].pc = pc /\ reqs'[r].copy = copy /\ reqs'[r].own = own /\ reqs'[r].base = base
  /\ reqs'[r].op = reqs[r].op /\ reqs'[r].ticket = reqs[r].ticket /\ reqs'[r].actor = reqs[r].actor
Begins(r, op, pc, copy, own) ==
  reqs'[r].op = op /\ reqs'[r].pc = pc /\ reqs'[r].copy = copy /\ reqs'[r].own = own
KeepsNow(r) == reqs'[r].now = reqs[r].now
TakesNow(r) == reqs'[r].now = clock'

(* One row of a table changes. *)
OneRow(t, x) == tickets'[t] = x /\ \A u \in Tickets \ {t} : tickets'[u] = tickets[u]
OneHistory(t, x) ==
  assignments'[t] = x /\ \A u \in Tickets \ {t} : assignments'[u] = assignments[u]
OneThread(t, x) == answers'[t] = x /\ \A u \in Tickets \ {t} : answers'[u] = answers[u]

RequestEffect(r, t, row) ==
  \/ \E s \in Sellers, a \in Admins \union {Null} :
       /\ ~Exists(t) /\ (\A q \in Requests : reqs[q].ticket # t) /\ TakesNow(r)
       /\ Begins(r, "create", "insertTicket",
                 [user |-> s, status |-> "open", closedAt |-> Null, closedBy |-> Null,
                  assigned |-> a, lastAt |-> clock', lastSide |-> "user", seenAt |-> clock'], NoRow)
  \/ Exists(t) /\ Begins(r, "view", "answers", row, NoRow) /\ reqs'[r].actor \in Sellers
  \/ IsOpen(t) /\ Begins(r, "answer", "insertAnswer", row, NoRow) /\ TakesNow(r)
  \/ Exists(t) /\ Begins(r, "closeBySeller", "save", Closed(row, clock'), NoRow)
  \/ Exists(t) /\ Begins(r, "reopenBySeller", "save", Reopened(row), NoRow)
  \/ IsOpen(t) /\ Begins(r, "reply", "resolveAdmin", row, NoRow)
  \/ Exists(t) /\ Begins(r, "note", "resolveAdmin", row, NoRow)
  \/ \E a \in Admins :
       /\ Exists(t)
       /\ Begins(r, "close", "save", [Closed(row, clock') EXCEPT !.closedBy = a], NoRow)
  \/ Exists(t) /\ Begins(r, "reopen", "save", Reopened(row), NoRow)
  \/ Exists(t) /\ Begins(r, "assign", "history", NoRow, row) /\ TakesNow(r)

StepEffect(r, h, t, row) ==
  \/ /\ h.pc = "insertTicket" /\ OneRow(t, h.copy)
     /\ UNCHANGED <<answers, assignments, clock, delivered>>
     /\ \/ h.copy.assigned = Null /\ reqs'[r] = Idle
        \/ /\ h.copy.assigned # Null /\ KeepsNow(r)
           /\ Becomes(r, "firstAssignment", h.copy, h.own, h.base)
  \/ /\ h.pc = "firstAssignment" /\ UNCHANGED <<tickets, answers, clock, delivered>>
     /\ reqs'[r] = Idle
     /\ OneHistory(t, Append(assignments[t], [admin |-> h.copy.assigned, from |-> h.now,
                                              to |-> Null, by |-> Null]))
  \/ /\ h.pc = "answers" /\ UNCHANGED storage
     /\ \/ /\ IsUnreadForSeller(h.copy) /\ UNCHANGED delivered
           /\ Becomes(r, "save", [h.copy EXCEPT !.seenAt = clock'], h.own, h.base)
           /\ reqs'[r].page = Len(answers[t])
        \/ /\ ~IsUnreadForSeller(h.copy) /\ UNCHANGED clock /\ reqs'[r] = Idle
           /\ Deliver(r, Len(answers[t]))
  \/ /\ h.pc = "resolveAdmin" /\ UNCHANGED <<storage, delivered>>
     /\ Becomes(r, "insertAnswer", h.copy, h.own, h.base)
     /\ \/ h.op = "reply" /\ clock' \in Instants /\ TakesNow(r)
        \/ h.op = "note" /\ UNCHANGED clock
  \/ /\ h.pc = "insertAnswer" /\ UNCHANGED <<tickets, assignments, clock, delivered>>
     /\ \/ /\ h.op = "answer" /\ OneThread(t, Append(answers[t], [side |-> "user", at |-> clock]))
           /\ Becomes(r, "save", TouchedBySeller(h.copy, h.now), h.own, h.base) /\ KeepsNow(r)
        \/ /\ h.op = "reply" /\ OneThread(t, Append(answers[t], [side |-> "admin", at |-> clock]))
           /\ KeepsNow(r)
           /\ Becomes(r, IF LooksUnassigned(h.copy) THEN "autoAssign" ELSE "save",
                      TouchedByStaff(h.copy, h.now), h.own, h.base)
        \/ /\ h.op = "note" /\ OneThread(t, Append(answers[t], [side |-> "internal", at |-> clock]))
           /\ reqs'[r] = Idle
  \/ /\ h.pc = "autoAssign" /\ UNCHANGED <<storage, delivered>> /\ TakesNow(r)
     /\ Becomes(r, "history", h.copy, row, h.base) /\ reqs'[r].target = h.actor
  \/ /\ h.pc = "history" /\ UNCHANGED <<tickets, answers, clock, delivered>>
     /\ OneHistory(t, EndActive(assignments[t], h.now)) /\ KeepsNow(r)
     /\ reqs'[r].target = h.target
     /\ \/ h.target = Null /\ Becomes(r, "saveOwn", h.copy, [h.own EXCEPT !.assigned = Null], h.base)
        \/ h.target # Null /\ Becomes(r, "target", h.copy, h.own, h.base)
  \/ /\ h.pc = "target" /\ UNCHANGED <<storage, clock, delivered>>
     /\ \/ /\ admins[h.target].active /\ reqs'[r].target = h.target /\ KeepsNow(r)
           /\ Becomes(r, "insertAssignment", h.copy, h.own, h.base)
        \/ h.op = "reply" /\ Becomes(r, "save", h.copy, h.own, h.base)
        \/ h.op = "assign" /\ reqs'[r] = Idle
  \/ /\ h.pc = "insertAssignment" /\ UNCHANGED <<tickets, answers, clock, delivered>>
     /\ OneHistory(t, Append(assignments[t], [admin |-> h.target, from |-> h.now, to |-> Null,
                                              by |-> h.actor]))
     /\ Becomes(r, "saveOwn", h.copy, [h.own EXCEPT !.assigned = h.target], h.base) /\ KeepsNow(r)
     /\ reqs'[r].target = h.target
  \/ /\ h.pc = "save" /\ UNCHANGED <<storage, clock, delivered>>
     /\ Becomes(r, "write", h.copy, h.own, row) /\ KeepsNow(r) /\ reqs'[r].page = h.page
  \/ /\ h.pc = "saveOwn" /\ UNCHANGED <<storage, clock, delivered>>
     /\ Becomes(r, "writeOwn", h.copy, h.own, row) /\ KeepsNow(r) /\ reqs'[r].target = h.target
  \/ /\ h.pc = "writeOwn" /\ UNCHANGED <<answers, assignments, clock, delivered>>
     /\ OneRow(t, Merged(h.own, h.base, row))
     /\ \/ h.op = "reply" /\ Becomes(r, "save", h.copy, h.own, h.base) /\ KeepsNow(r)
        \/ h.op # "reply" /\ reqs'[r] = Idle
  \/ /\ h.pc = "write" /\ UNCHANGED <<answers, assignments, clock>> /\ reqs'[r] = Idle
     /\ OneRow(t, Merged(h.copy, h.base, row))
     /\ \/ h.op = "view" /\ Deliver(r, h.page)
        \/ h.op # "view" /\ UNCHANGED delivered

LEMMA InstantsPass ==
  ASSUME TypeOK, NEW n \in Instants
  PROVE  n \in Nat /\ clock <= n
<1>1. PICK d \in Elapse : n = clock + d
  BY DEF Instants
<1> QED
  BY <1>1, ElapseIsTime DEF TypeOK

LEMMA RequestHasEffect ==
  ASSUME TypeInv, NEW r \in Requests, NEW t \in Tickets,
         \/ \E s \in Sellers : SellerRequest(r, s, t)
         \/ \E a \in Admins : StaffRequest(r, a, t)
  PROVE  /\ reqs[r] = Idle /\ OneSlot(r) /\ reqs'[r].ticket = t /\ reqs'[r].base = NoRow
         /\ t \in Overlapping \/ \A q \in Requests : reqs[q].ticket # t
         /\ UNCHANGED <<storage, delivered>> /\ clock <= clock' /\ clock' \in Nat
         /\ RequestEffect(r, t, tickets[t])
<1>t. TypeOK /\ clock \in Nat /\ reqs \in [Requests -> Handler] /\ tickets[t] \in TicketRow
  BY DEF TypeInv, TypeOK
<1>n. \A n \in Instants : n \in Nat /\ clock <= n
  BY <1>t, InstantsPass
<1>0. clock <= clock
  BY <1>t
<1>a. ASSUME Accept(r, t)
      PROVE  reqs[r] = Idle /\ (t \in Overlapping \/ \A q \in Requests : reqs[q].ticket # t)
  BY <1>a DEF Accept
<1>s. ASSUME NEW op, NEW actor, NEW pc, NEW row, Start(r, Loaded(op, t, actor, pc, row))
      PROVE  /\ OneSlot(r) /\ reqs'[r].ticket = t /\ reqs'[r].base = NoRow /\ reqs'[r].actor = actor
             /\ Begins(r, op, pc, row, NoRow)
  BY <1>t, <1>s DEF Start, OneSlot, Begins, Loaded, Idle
<1>m. ASSUME NEW op, NEW actor, NEW pc, NEW row, NEW n,
             Start(r, [Loaded(op, t, actor, pc, row) EXCEPT !.now = n])
      PROVE  /\ OneSlot(r) /\ reqs'[r].ticket = t /\ reqs'[r].base = NoRow /\ Begins(r, op, pc, row, NoRow)
             /\ reqs'[r].now = n
  BY <1>t, <1>m DEF Start, OneSlot, Begins, Loaded, Idle
<1>1. ASSUME NEW s \in Sellers, CreateSellerTicket(r, s, t)
      PROVE  /\ OneSlot(r) /\ reqs'[r].ticket = t /\ reqs'[r].base = NoRow
             /\ clock' \in Instants /\ RequestEffect(r, t, tickets[t])
  BY <1>1, <1>m DEF CreateSellerTicket, RequestEffect, TakesNow
<1>2. ASSUME NEW s \in Sellers, GetSellerTicket(r, s, t)
      PROVE  /\ OneSlot(r) /\ reqs'[r].ticket = t /\ reqs'[r].base = NoRow
             /\ clock' = clock /\ RequestEffect(r, t, tickets[t])
  BY <1>2, <1>s DEF GetSellerTicket, OwnedBy, RequestEffect
<1>3. ASSUME NEW s \in Sellers, AnswerSellerTicket(r, s, t)
      PROVE  /\ OneSlot(r) /\ reqs'[r].ticket = t /\ reqs'[r].base = NoRow
             /\ clock' \in Instants /\ RequestEffect(r, t, tickets[t])
  BY <1>3, <1>m DEF AnswerSellerTicket, RequestEffect, TakesNow
<1>4. ASSUME NEW s \in Sellers, CloseSellerTicket(r, s, t)
      PROVE  /\ OneSlot(r) /\ reqs'[r].ticket = t /\ reqs'[r].base = NoRow
             /\ clock' \in Instants /\ RequestEffect(r, t, tickets[t])
  BY <1>4, <1>s DEF CloseSellerTicket, OwnedBy, RequestEffect
<1>5. ASSUME NEW s \in Sellers, ReopenSellerTicket(r, s, t)
      PROVE  /\ OneSlot(r) /\ reqs'[r].ticket = t /\ reqs'[r].base = NoRow
             /\ clock' = clock /\ RequestEffect(r, t, tickets[t])
  BY <1>5, <1>s DEF ReopenSellerTicket, OwnedBy, RequestEffect
<1>6. ASSUME NEW a \in Admins, StaffReply(r, a, t)
      PROVE  /\ OneSlot(r) /\ reqs'[r].ticket = t /\ reqs'[r].base = NoRow
             /\ clock' = clock /\ RequestEffect(r, t, tickets[t])
  BY <1>6, <1>s DEF StaffReply, RequestEffect
<1>7. ASSUME NEW a \in Admins, AddInternalNote(r, a, t)
      PROVE  /\ OneSlot(r) /\ reqs'[r].ticket = t /\ reqs'[r].base = NoRow
             /\ clock' = clock /\ RequestEffect(r, t, tickets[t])
  BY <1>7, <1>s DEF AddInternalNote, RequestEffect
<1>8. ASSUME NEW a \in Admins, CloseTicket(r, a, t)
      PROVE  /\ OneSlot(r) /\ reqs'[r].ticket = t /\ reqs'[r].base = NoRow
             /\ clock' \in Instants /\ RequestEffect(r, t, tickets[t])
  BY <1>8, <1>s DEF CloseTicket, RequestEffect
<1>9. ASSUME NEW a \in Admins, ReopenTicket(r, a, t)
      PROVE  /\ OneSlot(r) /\ reqs'[r].ticket = t /\ reqs'[r].base = NoRow
             /\ clock' = clock /\ RequestEffect(r, t, tickets[t])
  BY <1>9, <1>s DEF ReopenTicket, RequestEffect
<1>10. ASSUME NEW a \in Admins, NEW target \in Admins \union {Null}, AssignTicket(r, a, t, target)
       PROVE  /\ OneSlot(r) /\ reqs'[r].ticket = t /\ reqs'[r].base = NoRow
              /\ clock' \in Instants /\ RequestEffect(r, t, tickets[t])
  <2>1. PICK n \in Instants :
          clock' = n /\ Start(r, [Loaded("assign", t, a, "history", NoRow)
                                    EXCEPT !.own = tickets[t], !.target = target, !.now = n])
    BY <1>10 DEF AssignTicket
  <2>2. /\ OneSlot(r) /\ reqs'[r].ticket = t /\ reqs'[r].base = NoRow /\ reqs'[r].now = n
        /\ Begins(r, "assign", "history", NoRow, tickets[t])
    BY <1>t, <2>1 DEF Start, OneSlot, Begins, Loaded, Idle
  <2> QED
    BY <1>10, <2>1, <2>2 DEF AssignTicket, RequestEffect, TakesNow
<1>11. Accept(r, t) /\ UNCHANGED <<storage, delivered>>
  BY DEF SellerRequest, StaffRequest, CreateSellerTicket, GetSellerTicket, AnswerSellerTicket,
         CloseSellerTicket, ReopenSellerTicket, StaffReply, AddInternalNote, CloseTicket,
         ReopenTicket, AssignTicket
<1> QED
  BY <1>0, <1>1, <1>2, <1>3, <1>4, <1>5, <1>6, <1>7, <1>8, <1>9, <1>10, <1>11, <1>a, <1>n, <1>t
  DEF SellerRequest, StaffRequest

LEMMA StepHasEffect ==
  ASSUME TypeInv, NEW r \in Requests, Step(r)
  PROVE  /\ reqs[r].ticket \in Tickets /\ reqs[r].pc # "idle" /\ OneSlot(r)
         /\ UNCHANGED <<admins, served>> /\ clock <= clock' /\ clock' \in Nat
         /\ StepEffect(r, reqs[r], reqs[r].ticket, tickets[reqs[r].ticket])
<1> DEFINE Claim == /\ OneSlot(r) /\ UNCHANGED <<admins, served>>
                    /\ clock' = clock \/ clock' \in Instants
                    /\ StepEffect(r, reqs[r], reqs[r].ticket, tickets[reqs[r].ticket])
<1>t. /\ TypeOK /\ clock \in Nat /\ reqs \in [Requests -> Handler] /\ reqs[r] \in Handler
      /\ HandlerOK(reqs[r]) /\ tickets \in [Tickets -> TicketRow]
      /\ answers \in [Tickets -> Seq(Answer)] /\ assignments \in [Tickets -> Seq(Assignment)]
  BY DEF TypeInv, TypeOK
<1>0. reqs[r].pc # "idle"
  BY DEF Step, InsertTicket, InsertFirstAssignment, ReadAnswers, ResolveAdmin, InsertAnswer,
         AutoAssign, EndAssignments, FindTarget, InsertAssignment, SelectForSave, UpdateOwn,
         Update, At
<1>a. reqs[r].ticket \in Tickets
  BY <1>t, <1>0 DEF HandlerOK
<1>f. Finish(r) => OneSlot(r) /\ reqs'[r] = Idle
  BY <1>t DEF Finish, OneSlot
<1>g. ASSUME NEW pc, Goto(r, pc)
      PROVE  /\ OneSlot(r) /\ Becomes(r, pc, reqs[r].copy, reqs[r].own, reqs[r].base) /\ KeepsNow(r)
             /\ reqs'[r].target = reqs[r].target /\ reqs'[r].page = reqs[r].page
  BY <1>t, <1>g DEF Goto, OneSlot, Becomes, KeepsNow, Handler
<1>w. ASSUME NEW x, tickets' = [tickets EXCEPT ![reqs[r].ticket] = x]
      PROVE  OneRow(reqs[r].ticket, x)
  BY <1>t, <1>a, <1>w DEF OneRow
<1>h. ASSUME NEW x, assignments' = [assignments EXCEPT ![reqs[r].ticket] = x]
      PROVE  OneHistory(reqs[r].ticket, x)
  BY <1>t, <1>a, <1>h DEF OneHistory
<1>1. ASSUME InsertTicket(r) PROVE Claim
  BY <1>1, <1>f, <1>g, <1>w DEF InsertTicket, StepEffect, At
<1>2. ASSUME InsertFirstAssignment(r) PROVE Claim
  BY <1>2, <1>f, <1>h DEF InsertFirstAssignment, StepEffect, At
<1>3. ASSUME ReadAnswers(r) PROVE Claim
  <2>1. CASE IsUnreadForSeller(reqs[r].copy)
    <3>1. PICK n \in Instants :
            clock' = n /\ Start(r, [reqs[r] EXCEPT !.pc = "save", !.page = Len(answers[reqs[r].ticket]),
                                                   !.copy.seenAt = n])
      BY <1>3, <2>1 DEF ReadAnswers
    <3>2. /\ OneSlot(r) /\ reqs'[r].page = Len(answers[reqs[r].ticket])
          /\ Becomes(r, "save", [reqs[r].copy EXCEPT !.seenAt = n], reqs[r].own, reqs[r].base)
      BY <1>t, <3>1 DEF Start, OneSlot, Becomes, Handler
    <3> QED
      BY <1>3, <2>1, <3>1, <3>2 DEF ReadAnswers, StepEffect, At, storage
  <2>2. CASE ~IsUnreadForSeller(reqs[r].copy)
    BY <1>3, <1>f, <2>2 DEF ReadAnswers, StepEffect, At, storage
  <2> QED
    BY <2>1, <2>2
<1>4. ASSUME ResolveAdmin(r) PROVE Claim
  <2>1. CASE reqs[r].op = "reply"
    <3>1. PICK n \in Instants :
            clock' = n /\ Start(r, [reqs[r] EXCEPT !.pc = "insertAnswer", !.now = n])
      BY <1>4, <2>1 DEF ResolveAdmin
    <3>2. /\ OneSlot(r) /\ TakesNow(r)
          /\ Becomes(r, "insertAnswer", reqs[r].copy, reqs[r].own, reqs[r].base)
      BY <1>t, <3>1 DEF Start, OneSlot, Becomes, TakesNow, Handler
    <3> QED
      BY <1>4, <2>1, <3>1, <3>2 DEF ResolveAdmin, StepEffect, At, storage
  <2>2. CASE reqs[r].op = "note"
    <3>1. Start(r, [reqs[r] EXCEPT !.pc = "insertAnswer"]) /\ UNCHANGED clock
      BY <1>4, <2>2 DEF ResolveAdmin
    <3>2. OneSlot(r) /\ Becomes(r, "insertAnswer", reqs[r].copy, reqs[r].own, reqs[r].base)
      BY <1>t, <3>1 DEF Start, OneSlot, Becomes, Handler
    <3> QED
      BY <1>4, <2>2, <3>1, <3>2 DEF ResolveAdmin, StepEffect, At, storage
  <2> QED
    BY <1>4, <2>1, <2>2 DEF ResolveAdmin
<1>5. ASSUME InsertAnswer(r) PROVE Claim
  <2>p. ASSUME NEW side,
               answers' = [answers EXCEPT ![reqs[r].ticket] = Append(@, [side |-> side, at |-> clock])]
        PROVE  OneThread(reqs[r].ticket, Append(answers[reqs[r].ticket], [side |-> side, at |-> clock]))
    BY <1>t, <1>a, <2>p DEF OneThread
  <2>m. ASSUME NEW pc, NEW row, Start(r, [reqs[r] EXCEPT !.pc = pc, !.copy = row])
        PROVE  OneSlot(r) /\ Becomes(r, pc, row, reqs[r].own, reqs[r].base) /\ KeepsNow(r)
    BY <1>t, <2>m DEF Start, OneSlot, Becomes, KeepsNow, Handler
  <2> QED
    BY <1>5, <1>f, <2>p, <2>m DEF InsertAnswer, StepEffect, At
<1>6. ASSUME AutoAssign(r) PROVE Claim
  <2>1. PICK n \in Instants :
          /\ clock' = n
          /\ Start(r, [reqs[r] EXCEPT !.pc = "history", !.own = tickets[reqs[r].ticket],
                                      !.target = reqs[r].actor, !.now = n])
    BY <1>6 DEF AutoAssign
  <2>2. /\ OneSlot(r) /\ TakesNow(r) /\ reqs'[r].target = reqs[r].actor
        /\ Becomes(r, "history", reqs[r].copy, tickets[reqs[r].ticket], reqs[r].base)
    BY <1>t, <2>1 DEF Start, OneSlot, Becomes, TakesNow, Handler
  <2> QED
    BY <1>6, <2>1, <2>2 DEF AutoAssign, StepEffect, At, storage
<1>7. ASSUME EndAssignments(r) PROVE Claim
  <2>1. CASE reqs[r].target = Null
    <3>1. /\ OneSlot(r) /\ KeepsNow(r) /\ reqs'[r].target = reqs[r].target
          /\ Becomes(r, "saveOwn", reqs[r].copy, [reqs[r].own EXCEPT !.assigned = Null], reqs[r].base)
      BY <1>7, <1>t, <2>1 DEF EndAssignments, Start, OneSlot, Becomes, KeepsNow, Handler
    <3> QED
      BY <1>7, <1>h, <2>1, <3>1 DEF EndAssignments, StepEffect, At
  <2>2. CASE reqs[r].target # Null
    <3>1. Goto(r, "target")
      BY <1>7, <2>2 DEF EndAssignments, Start, Goto
    <3> QED
      BY <1>7, <1>g, <1>h, <2>2, <3>1 DEF EndAssignments, StepEffect, At
  <2> QED
    BY <2>1, <2>2
<1>8. ASSUME FindTarget(r) PROVE Claim
  <2>1. /\ reqs[r].pc = "target" /\ UNCHANGED <<storage, admins, clock, served, delivered>>
        /\ \/ admins[reqs[r].target].active /\ Goto(r, "insertAssignment")
           \/ reqs[r].op = "reply" /\ Goto(r, "save")
           \/ reqs[r].op = "assign" /\ Finish(r)
    BY <1>8 DEF FindTarget, At, storage
  <2> QED
    BY <1>f, <1>g, <2>1 DEF StepEffect
<1>9. ASSUME InsertAssignment(r) PROVE Claim
  <2>1. /\ OneSlot(r) /\ KeepsNow(r) /\ reqs'[r].target = reqs[r].target
        /\ Becomes(r, "saveOwn", reqs[r].copy, [reqs[r].own EXCEPT !.assigned = reqs[r].target],
                   reqs[r].base)
    BY <1>9, <1>t DEF InsertAssignment, Start, OneSlot, Becomes, KeepsNow, Handler
  <2> QED
    BY <1>9, <1>h, <2>1 DEF InsertAssignment, StepEffect, At
<1>10. ASSUME SelectForSave(r) PROVE Claim
  <2>1. ASSUME NEW pc, Start(r, [reqs[r] EXCEPT !.pc = pc, !.base = tickets[reqs[r].ticket]])
        PROVE  /\ OneSlot(r) /\ Becomes(r, pc, reqs[r].copy, reqs[r].own, tickets[reqs[r].ticket])
               /\ KeepsNow(r) /\ reqs'[r].target = reqs[r].target /\ reqs'[r].page = reqs[r].page
    BY <1>t, <2>1 DEF Start, OneSlot, Becomes, KeepsNow, Handler
  <2> QED
    BY <1>10, <2>1 DEF SelectForSave, StepEffect, At, storage
<1>11. ASSUME UpdateOwn(r) PROVE Claim
  BY <1>11, <1>f, <1>g, <1>w DEF UpdateOwn, StepEffect, At
<1>12. ASSUME Update(r) PROVE Claim
  BY <1>12, <1>f, <1>w DEF Update, StepEffect, At
<1>13. Claim
  BY <1>1, <1>2, <1>3, <1>4, <1>5, <1>6, <1>7, <1>8, <1>9, <1>10, <1>11, <1>12 DEF Step
<1>14. \A n \in Instants : n \in Nat /\ clock <= n
  BY <1>t, InstantsPass
<1> QED
  BY <1>0, <1>13, <1>14, <1>a, <1>t

(* What happens besides: a request is cut short, or admins change. *)
LEMMA OtherSteps ==
  ASSUME TypeInv, [Next]_vars
  PROVE  \/ \E r \in Requests, t \in Tickets : \/ \E s \in Sellers : SellerRequest(r, s, t)
                                               \/ \E a \in Admins : StaffRequest(r, a, t)
         \/ \E r \in Requests : Step(r)
         \/ \E r \in Requests : /\ reqs[r].ticket \in Faulty /\ OneSlot(r) /\ reqs'[r] = Idle
                                /\ UNCHANGED <<tickets, answers, assignments, clock, delivered>>
         \/ UNCHANGED <<tickets, answers, assignments, clock, delivered, reqs>>
<1>1. ASSUME NEW r \in Requests, Abort(r)
      PROVE  /\ reqs[r].ticket \in Faulty /\ OneSlot(r) /\ reqs'[r] = Idle
             /\ UNCHANGED <<tickets, answers, assignments, clock, delivered>>
  BY <1>1 DEF Abort, Finish, OneSlot, storage, TypeInv, TypeOK
<1>2. ASSUME NEW a \in Admins, ToggleActive(a) \/ RemoveAdmin(a)
      PROVE  UNCHANGED <<tickets, answers, assignments, clock, delivered, reqs>>
  BY <1>2 DEF ToggleActive, RemoveAdmin, AdminRequest
<1> QED
  BY <1>1, <1>2 DEF Next, AtRest, vars

-------------------------------------------------------------------------------
(* Who may be the assignee of a ticket. The name travels in the copies of  *)
(* handlers, and save() takes it from the copy or leaves it, so every copy *)
(* in flight has to name somebody from the history too, but the one that   *)
(* createSellerTicket has not inserted yet.                                *)

ComesFirst(t, a) ==
  \E r \in Requests :
    At(r, "firstAssignment") /\ reqs[r].ticket = t /\ reqs[r].copy.assigned = a
Known(t, a) == a = Null \/ WasAssignedTo(t, a) \/ ComesFirst(t, a)

KnownInv ==
  \A t \in Tickets \ Faulty :
    /\ Known(t, tickets[t].assigned)
    /\ \A r \in Requests : reqs[r].ticket = t /\ ~At(r, "idle") =>
         /\ Known(t, reqs[r].own.assigned)
         /\ At(r, "insertTicket") \/ Known(t, reqs[r].copy.assigned)

LEMMA EntryStays ==
  ASSUME TypeInv, [Next]_vars, NEW t \in Tickets, NEW a, WasAssignedTo(t, a)
  PROVE  WasAssignedTo(t, a)'
<1>1. PICK i \in DOMAIN assignments[t] : assignments[t][i].admin = a
  BY DEF WasAssignedTo
<1>2. LogStep(assignments[t], assignments'[t])
  BY NextLogs
<1>3. assignments[t][i] \in Assignment
  BY DEF TypeInv, TypeOK
<1>4. i \in DOMAIN assignments'[t] /\ assignments'[t][i].admin = a
  BY <1>1, <1>2, <1>3 DEF LogStep, Assignment
<1> QED
  BY <1>4 DEF WasAssignedTo

LEMMA MergedAssignee ==
  ASSUME NEW mine, NEW base, NEW cur
  PROVE  Merged(mine, base, cur).assigned \in {mine.assigned, cur.assigned}
BY DEF Merged, Column

LEMMA LastEntry ==
  ASSUME TypeInv, NEW t \in Tickets, NEW e \in Assignment,
         assignments'[t] = Append(assignments[t], e)
  PROVE  \A a : a = e.admin => WasAssignedTo(t, a)'
<1>1. assignments[t] \in Seq(Assignment)
  BY DEF TypeInv, TypeOK
<1>2. PICK k : k \in DOMAIN assignments'[t] /\ assignments'[t][k] = e
  BY <1>1, AppendKeeps
<1> QED
  BY <1>2 DEF WasAssignedTo

LEMMA StepKeepsKnown ==
  ASSUME TypeInv, TypeInv', KnownInv, [Next]_vars, NEW r \in Requests, Step(r)
  PROVE  KnownInv'
<1> PICK u, row : u \in Tickets /\ u = reqs[r].ticket /\ row = tickets[u]
  BY StepHasEffect
<1> PICK h : h = reqs[r]
  OBVIOUS
<1>t. /\ h \in Handler /\ HandlerOK(h) /\ h.copy \in TicketRow /\ h.own \in TicketRow
      /\ h.now \in Nat /\ h.ticket = u
  BY DEF TypeInv, TypeOK, Handler
<1>1. StepEffect(r, h, u, row) /\ OneSlot(r) /\ h.pc # "idle"
  BY StepHasEffect
(* Who is known stays so. *)
<1>2. ASSUME NEW t \in Tickets, NEW a, Known(t, a)
      PROVE  Known(t, a)'
  <2>1. CASE ComesFirst(t, a) /\ ~(t = u /\ h.pc = "firstAssignment" /\ h.copy.assigned = a)
    <3>1. PICK q \in Requests : At(q, "firstAssignment") /\ reqs[q].ticket = t /\ reqs[q].copy.assigned = a
      BY <2>1 DEF ComesFirst
    <3>2. q # r
      BY <2>1, <3>1 DEF At
    <3> QED
      BY <1>1, <3>1, <3>2 DEF OneSlot, Known, ComesFirst, At
  <2>2. CASE t = u /\ h.pc = "firstAssignment" /\ h.copy.assigned = a
    <3>1. a \in Admins
      BY <1>t, <2>2 DEF HandlerOK, TicketRow
    <3>2. PICK e : e = [admin |-> a, from |-> h.now, to |-> Null, by |-> Null]
      OBVIOUS
    <3>3. assignments'[t] = Append(assignments[t], e)
      BY <1>1, <2>2, <3>2 DEF StepEffect, OneHistory
    <3>4. e \in Assignment /\ e.admin = a
      BY <1>t, <3>1, <3>2 DEF Assignment, Null
    <3> QED
      BY <3>3, <3>4, LastEntry DEF Known
  <2> QED
    BY <1>2, <2>1, <2>2, EntryStays DEF Known
<1>3. ASSUME h.pc = "insertAssignment"
      PROVE  Known(u, h.target)'
  <2>1. h.target \in Admins /\ h.actor \in Admins
    BY <1>3, <1>t DEF HandlerOK, StaffOps, Handler
  <2>2. PICK e : e = [admin |-> h.target, from |-> h.now, to |-> Null, by |-> h.actor]
    OBVIOUS
  <2>3. assignments'[u] = Append(assignments[u], e)
    BY <1>1, <1>3, <2>2 DEF StepEffect, OneHistory
  <2>4. e \in Assignment /\ e.admin = h.target
    BY <1>t, <2>1, <2>2 DEF Assignment, Null
  <2> QED
    BY <2>3, <2>4, LastEntry DEF Known
<1>4. \A t \in Tickets : Known(t, Null)'
  BY DEF Known
<1>5. ASSUME h.pc = "insertTicket"
      PROVE  Known(u, h.copy.assigned)'
  <2>1. CASE h.copy.assigned = Null
    BY <1>4, <2>1
  <2>2. CASE h.copy.assigned # Null
    <3>1. At(r, "firstAssignment")' /\ reqs'[r].ticket = u /\ reqs'[r].copy.assigned = h.copy.assigned
      BY <1>1, <1>5, <2>2 DEF StepEffect, Becomes, At
    <3> QED
      BY <3>1 DEF Known, ComesFirst
  <2> QED
    BY <2>1, <2>2
<1>6. /\ \A t \in Tickets \ Faulty : Known(t, tickets[t].assigned)
      /\ u \notin Faulty => Known(u, row.assigned) /\ Known(u, h.own.assigned)
      /\ u \notin Faulty => h.pc = "insertTicket" \/ Known(u, h.copy.assigned)
  BY <1>1, <1>t DEF KnownInv, At
<1>7. ASSUME NEW t \in Tickets \ Faulty
      PROVE  Known(t, tickets[t].assigned)'
  <2>1. \/ tickets'[t] = tickets[t]
        \/ t = u /\ h.pc = "insertTicket" /\ tickets'[t] = h.copy
        \/ t = u /\ h.pc = "write" /\ tickets'[t] = Merged(h.copy, h.base, row)
        \/ t = u /\ h.pc = "writeOwn" /\ tickets'[t] = Merged(h.own, h.base, row)
    BY <1>1 DEF StepEffect, OneRow, storage
  <2>2. \/ tickets'[t].assigned = tickets[t].assigned
        \/ t = u /\ h.pc = "insertTicket" /\ tickets'[t].assigned = h.copy.assigned
        \/ t = u /\ h.pc # "insertTicket"
             /\ tickets'[t].assigned \in {h.copy.assigned, h.own.assigned, row.assigned}
    BY <2>1, MergedAssignee
  <2>3. PICK a : a = tickets'[t].assigned
    OBVIOUS
  <2>4. ASSUME t = u, h.pc = "insertTicket", a = h.copy.assigned
        PROVE  Known(t, a)'
    BY <1>5, <2>4
  <2>5. ASSUME Known(t, a)
        PROVE  Known(t, a)'
    BY <1>2, <2>5
  <2>6. (t = u /\ h.pc = "insertTicket" /\ a = h.copy.assigned) \/ Known(t, a)
    BY <1>6, <2>2, <2>3
  <2>7. Known(t, a)'
    BY <2>4, <2>5, <2>6
  <2> QED
    BY <2>3, <2>7 DEF Known, ComesFirst, WasAssignedTo
(* The request of slot r keeps its copies or takes them from the row. *)
<1>8. ASSUME u \notin Faulty, reqs'[r].pc # "idle"
      PROVE  /\ \A a : a = reqs'[r].own.assigned => Known(u, a)'
             /\ \A a : a = reqs'[r].copy.assigned => Known(u, a)'
  <2>1. \/ reqs'[r].own.assigned \in {h.own.assigned, row.assigned, Null}
        \/ h.pc = "insertAssignment" /\ reqs'[r].own.assigned = h.target
    BY <1>1, <1>8, <1>t DEF StepEffect, Becomes, Idle, TicketRow
  <2>2. reqs'[r].copy.assigned = h.copy.assigned
    <3>1. ASSUME NEW n
          PROVE  /\ TouchedBySeller(h.copy, n).assigned = h.copy.assigned
                 /\ TouchedByStaff(h.copy, n).assigned = h.copy.assigned
                 /\ [h.copy EXCEPT !.seenAt = n].assigned = h.copy.assigned
      BY <1>t DEF TicketRow, TouchedBySeller, TouchedByStaff
    <3> QED
      BY <1>1, <1>8, <1>t, <3>1 DEF StepEffect, Becomes, Idle, TicketRow
  <2>3. ASSUME NEW a, a \in {h.own.assigned, row.assigned, Null}
        PROVE  Known(u, a)'
    <3>1. Known(u, a)
      BY <1>6, <1>8, <2>3 DEF Known
    <3> QED
      BY <1>2, <3>1
  <2>4. ASSUME NEW a, a = h.copy.assigned
        PROVE  Known(u, a)'
    BY <1>2, <1>5, <1>6, <1>8, <2>4
  <2> QED
    BY <1>3, <2>1, <2>2, <2>3, <2>4
<1>9. ASSUME NEW t \in Tickets \ Faulty, NEW q \in Requests,
             reqs'[q].ticket = t, reqs'[q].pc # "idle"
      PROVE  /\ \A a : a = reqs'[q].own.assigned => Known(t, a)'
             /\ reqs'[q].pc = "insertTicket" \/ \A a : a = reqs'[q].copy.assigned => Known(t, a)'
  <2>1. CASE q # r
    BY <1>1, <1>2, <1>9, <2>1 DEF OneSlot, KnownInv, At
  <2>2. CASE q = r
    <3>1. t = u
      BY <1>1, <1>9, <1>t, <2>2 DEF StepEffect, Becomes, Idle
    <3> QED
      BY <1>8, <1>9, <2>2, <3>1
  <2> QED
    BY <2>1, <2>2
<1> QED
  BY <1>7, <1>9 DEF KnownInv, At, Known, ComesFirst, WasAssignedTo

LEMMA NextKnown ==
  ASSUME TypeInv, TypeInv', KnownInv, [Next]_vars
  PROVE  KnownInv'
<1>1. ASSUME NEW r \in Requests, NEW u \in Tickets,
             \/ \E s \in Sellers : SellerRequest(r, s, u)
             \/ \E a \in Admins : StaffRequest(r, a, u)
      PROVE  KnownInv'
  <2>1. /\ OneSlot(r) /\ reqs[r] = Idle /\ reqs'[r].ticket = u
        /\ UNCHANGED <<tickets, assignments>> /\ RequestEffect(r, u, tickets[u])
    BY <1>1, RequestHasEffect DEF storage
  <2>2. ASSUME NEW t \in Tickets, NEW a, Known(t, a)
        PROVE  Known(t, a)'
    BY <2>1, <2>2 DEF Known, ComesFirst, WasAssignedTo, OneSlot, Idle, At
  <2>3. /\ reqs'[r].own.assigned \in {Null, tickets[u].assigned}
        /\ reqs'[r].pc = "insertTicket" \/ reqs'[r].copy.assigned \in {Null, tickets[u].assigned}
    <3>1. tickets[u] \in TicketRow
      BY DEF TypeInv, TypeOK
    <3>2. Reopened(tickets[u]).assigned = tickets[u].assigned
      BY <3>1 DEF Reopened, TicketRow
    <3>3. ASSUME NEW n
          PROVE  /\ Closed(tickets[u], n).assigned = tickets[u].assigned
                 /\ \A a : [Closed(tickets[u], n) EXCEPT !.closedBy = a].assigned = tickets[u].assigned
      BY <3>1 DEF Closed, TicketRow
    <3>4. NoRow.assigned = Null
      BY DEF NoRow
    <3>5. NoRow.assigned = Null /\ (reqs'[r].own = NoRow \/ reqs'[r].own = tickets[u])
      BY <2>1, <3>4 DEF RequestEffect, Begins
    <3>6. \/ reqs'[r].pc = "insertTicket" \/ reqs'[r].copy \in {NoRow, tickets[u], Reopened(tickets[u])}
          \/ reqs'[r].copy = Closed(tickets[u], clock')
          \/ \E a : reqs'[r].copy = [Closed(tickets[u], clock') EXCEPT !.closedBy = a]
      BY <2>1 DEF RequestEffect, Begins
    <3> QED
      BY <3>2, <3>3, <3>5, <3>6
  <2>4. ASSUME NEW t \in Tickets \ Faulty
        PROVE  Known(t, tickets[t].assigned)'
    <3>1. PICK a : a = tickets[t].assigned /\ Known(t, a)
      BY DEF KnownInv
    <3> QED
      BY <2>1, <2>2, <3>1 DEF Known, ComesFirst, WasAssignedTo
  <2>5. ASSUME NEW t \in Tickets \ Faulty, NEW q \in Requests,
               reqs'[q].ticket = t, reqs'[q].pc # "idle"
        PROVE  /\ \A a : a = reqs'[q].own.assigned => Known(t, a)'
               /\ reqs'[q].pc = "insertTicket" \/ \A a : a = reqs'[q].copy.assigned => Known(t, a)'
    <3>1. CASE q # r
      BY <2>1, <2>2, <2>5, <3>1 DEF OneSlot, KnownInv, At
    <3>2. CASE q = r
      <4>1. t = u /\ Known(u, Null) /\ Known(u, tickets[u].assigned)
        BY <2>1, <2>5, <3>2 DEF KnownInv, Known
      <4> QED
        BY <2>2, <2>3, <3>2, <4>1
    <3> QED
      BY <3>1, <3>2
  <2> QED
    BY <2>4, <2>5 DEF KnownInv, At, Known, ComesFirst, WasAssignedTo
<1>2. ASSUME NEW r \in Requests, reqs[r].ticket \in Faulty, OneSlot(r), reqs'[r] = Idle,
             UNCHANGED <<tickets, assignments>>
      PROVE  KnownInv'
  <2>1. ASSUME NEW t \in Tickets \ Faulty, NEW a, Known(t, a)
        PROVE  Known(t, a)'
    BY <1>2, <2>1 DEF Known, ComesFirst, WasAssignedTo, OneSlot, At
  <2>2. ASSUME NEW t \in Tickets \ Faulty
        PROVE  Known(t, tickets[t].assigned)'
    <3>1. PICK a : a = tickets[t].assigned /\ Known(t, a)
      BY DEF KnownInv
    <3> QED
      BY <1>2, <2>1, <3>1 DEF Known, ComesFirst, WasAssignedTo
  <2>3. ASSUME NEW t \in Tickets \ Faulty, NEW q \in Requests,
               reqs'[q].ticket = t, reqs'[q].pc # "idle"
        PROVE  /\ \A a : a = reqs'[q].own.assigned => Known(t, a)'
               /\ reqs'[q].pc = "insertTicket" \/ \A a : a = reqs'[q].copy.assigned => Known(t, a)'
    <3>1. q # r /\ reqs'[q] = reqs[q]
      BY <1>2, <2>3 DEF OneSlot, Idle
    <3> QED
      BY <2>1, <2>3, <3>1 DEF KnownInv, At
  <2> QED
    BY <2>2, <2>3 DEF KnownInv, At, Known, ComesFirst, WasAssignedTo
<1>3. CASE UNCHANGED <<tickets, assignments, reqs>>
  BY <1>3 DEF KnownInv, At, Known, ComesFirst, WasAssignedTo
<1> QED
  BY <1>1, <1>2, <1>3, OtherSteps, StepKeepsKnown

LEMMA InitKnown == Init => KnownInv
  BY DEF Init, KnownInv, Known, NoRow, Idle, At

(* Whatever overlaps, the assignee of a ticket on which no request is cut  *)
(* short is in its assignment history, once the request that created it    *)
(* has made both its inserts.                                              *)
THEOREM AssigneeIsInHistoryAlways == Spec => []AssigneeIsInHistory
<1>1. KnownInv => AssigneeIsInHistory
  BY DEF KnownInv, Known, ComesFirst, AssigneeIsInHistory
<1> QED
  BY <1>1, InitTypes, NextTypes, InitKnown, NextKnown, PTL DEF Spec

-------------------------------------------------------------------------------
(* Tickets on which requests wait for each other                           *)

Works(r, t) == reqs[r].ticket = t /\ ~At(r, "idle")

(* What is asked for decides where a request can be. *)
OpOK(h) ==
  /\ h.pc \in {"insertTicket", "firstAssignment"} => h.op = "create"
  /\ h.pc = "answers" => h.op = "view"
  /\ h.pc = "resolveAdmin" => h.op \in {"reply", "note"}
  /\ h.pc = "autoAssign" => h.op = "reply"
  /\ h.pc = "insertAnswer" => h.op \in {"answer", "reply", "note"}
  /\ h.pc \in {"history", "target", "insertAssignment", "saveOwn", "writeOwn"}
       => h.op \in {"reply", "assign"}
  /\ h.pc \in {"save", "write"}
       => h.op \in {"view", "answer", "reply", "close", "closeBySeller", "reopen", "reopenBySeller"}

AloneInv ==
  /\ \A r \in Requests : OpOK(reqs[r])
  /\ \A t \in Apart : \A r, q \in Requests : Works(r, t) /\ Works(q, t) => r = q

LEMMA NextAlone ==
  ASSUME TypeInv, AloneInv, [Next]_vars
  PROVE  AloneInv'
<1>0. OpOK(Idle) /\ Idle.pc = "idle"
  BY DEF OpOK, Idle
<1>1. ASSUME NEW r \in Requests, NEW u \in Tickets,
             \/ \E s \in Sellers : SellerRequest(r, s, u)
             \/ \E a \in Admins : StaffRequest(r, a, u)
      PROVE  AloneInv'
  <2>1. /\ OneSlot(r) /\ reqs[r] = Idle /\ reqs'[r].ticket = u
        /\ u \in Overlapping \/ \A q \in Requests : reqs[q].ticket # u
        /\ RequestEffect(r, u, tickets[u])
    BY <1>1, RequestHasEffect
  <2>2. OpOK(reqs'[r])
    BY <2>1 DEF RequestEffect, Begins, OpOK
  <2>3. \A q \in Requests : OpOK(reqs'[q])
    BY <2>1, <2>2 DEF OneSlot, AloneInv
  <2>4. ASSUME NEW t \in Apart, NEW p \in Requests, NEW q \in Requests, Works(p, t)', Works(q, t)'
        PROVE  p = q
    BY <2>1, <2>4 DEF OneSlot, AloneInv, Works, At, Apart
  <2> QED
    BY <2>3, <2>4 DEF AloneInv
<1>2. ASSUME NEW r \in Requests, OneSlot(r), reqs[r].pc # "idle",
             reqs'[r] = Idle \/ (reqs'[r].ticket = reqs[r].ticket /\ OpOK(reqs'[r]))
      PROVE  AloneInv'
  <2>1. \A q \in Requests : OpOK(reqs'[q])
    BY <1>0, <1>2 DEF OneSlot, AloneInv
  <2>2. ASSUME NEW t \in Apart, NEW q \in Requests, Works(q, t)'
        PROVE  Works(q, t)
    BY <1>0, <1>2, <2>2 DEF OneSlot, Works, At
  <2> QED
    BY <2>1, <2>2 DEF AloneInv
<1>3. ASSUME NEW r \in Requests, Step(r)
      PROVE  AloneInv'
  <2>1. PICK h : h = reqs[r]
    OBVIOUS
  <2>2. OneSlot(r) /\ h.pc # "idle" /\ StepEffect(r, h, h.ticket, tickets[h.ticket])
    BY <2>1, <1>3, StepHasEffect
  <2>3. OpOK(h)
    BY <2>1 DEF AloneInv
  <2>4. reqs'[r] = Idle \/ (reqs'[r].ticket = h.ticket /\ OpOK(reqs'[r]))
    BY <2>1, <2>2, <2>3 DEF StepEffect, Becomes, OpOK
  <2> QED
    BY <1>2, <2>1, <2>2, <2>4
<1>4. ASSUME NEW r \in Requests, OneSlot(r), reqs'[r] = Idle
      PROVE  AloneInv'
  <2>1. CASE reqs[r].pc = "idle"
    <3>1. \A q \in Requests : OpOK(reqs'[q])
      BY <1>0, <1>4 DEF OneSlot, AloneInv
    <3>2. ASSUME NEW t \in Apart, NEW q \in Requests, Works(q, t)'
          PROVE  Works(q, t)
      BY <1>0, <1>4, <3>2 DEF OneSlot, Works, At
    <3> QED
      BY <3>1, <3>2 DEF AloneInv
  <2> QED
    BY <1>2, <1>4, <2>1
<1>5. CASE UNCHANGED reqs
  BY <1>5 DEF AloneInv, Works, At
<1> QED
  BY <1>1, <1>3, <1>4, <1>5, OtherSteps

(* The steps of the system as such a ticket sees them: a request begins on *)
(* it, the one request on it goes on, or nothing happens to it, except     *)
(* that the request may be cut short.                                      *)
BeginsOn(r, t) ==
  /\ \A q \in Requests : ~Works(q, t)
  /\ OneSlot(r) /\ reqs'[r].ticket = t /\ RequestEffect(r, t, tickets[t])
  /\ UNCHANGED <<tickets, assignments, answers, delivered>>

GoesOn(r, t) ==
  /\ Works(r, t) /\ OneSlot(r) /\ StepEffect(r, reqs[r], t, tickets[t])
  /\ reqs'[r] = Idle \/ Works(r, t)'

Elsewhere(t) ==
  /\ tickets'[t] = tickets[t] /\ assignments'[t] = assignments[t] /\ answers'[t] = answers[t]
  /\ \A q \in Requests : Works(q, t)' => Works(q, t) /\ reqs'[q] = reqs[q]
  /\ t \notin Faulty => \A q \in Requests : Works(q, t) => Works(q, t)'
  /\ \A s \in Sellers, i \in Nat : <<t, i>> \in delivered'[s] <=> <<t, i>> \in delivered[s]

LEMMA StepElsewhere ==
  ASSUME TypeInv, NEW r \in Requests, Step(r), NEW t \in Tickets, reqs[r].ticket # t
  PROVE  Elsewhere(t)
<1> PICK h, u : h = reqs[r] /\ u = h.ticket
  OBVIOUS
<1>1. /\ OneSlot(r) /\ h.pc # "idle" /\ StepEffect(r, h, u, tickets[u]) /\ u \in Tickets
      /\ u # t
  BY StepHasEffect
<1>2. /\ tickets'[t] = tickets[t] /\ assignments'[t] = assignments[t] /\ answers'[t] = answers[t]
  BY <1>1 DEF StepEffect, OneRow, OneHistory, OneThread, storage
<1>3. reqs'[r].ticket = u \/ reqs'[r].pc = "idle"
  BY <1>1 DEF StepEffect, Becomes, Idle
<1>4. /\ \A q \in Requests : Works(q, t)' => Works(q, t) /\ reqs'[q] = reqs[q]
      /\ \A q \in Requests : Works(q, t) => Works(q, t)'
  BY <1>1, <1>3 DEF OneSlot, Works, At
<1>5. UNCHANGED delivered \/ \E k : Deliver(r, k)
  BY <1>1 DEF StepEffect
<1>6. ASSUME NEW k, Deliver(r, k), NEW s \in Sellers, NEW i \in Nat
      PROVE  <<t, i>> \in delivered'[s] <=> <<t, i>> \in delivered[s]
  <2>1. delivered'[s] = delivered[s]
        \/ delivered'[s] = delivered[s] \union {<<u, j>> : j \in PublicAnswers(u, k)}
    BY <1>6 DEF Deliver, TypeInv, TypeOK
  <2> QED
    BY <1>1, <2>1
<1>7. \A s \in Sellers, i \in Nat : <<t, i>> \in delivered'[s] <=> <<t, i>> \in delivered[s]
  <2>1. CASE UNCHANGED delivered
    BY <2>1
  <2> QED
    BY <1>5, <1>6, <2>1
<1> QED
  BY <1>2, <1>4, <1>7 DEF Elsewhere

LEMMA ApartSteps ==
  ASSUME TypeInv, AloneInv, [Next]_vars, NEW t \in Apart
  PROVE  /\ clock <= clock' /\ clock' \in Nat
         /\ \/ \E r \in Requests : BeginsOn(r, t)
            \/ \E r \in Requests : GoesOn(r, t)
            \/ Elsewhere(t)
<1>t. t \in Tickets /\ t \notin Overlapping /\ clock \in Nat /\ clock <= clock
  BY DEF Apart, TypeInv, TypeOK
<1>1. ASSUME NEW r \in Requests, NEW u \in Tickets,
             \/ \E s \in Sellers : SellerRequest(r, s, u)
             \/ \E a \in Admins : StaffRequest(r, a, u)
      PROVE  BeginsOn(r, t) \/ Elsewhere(t)
  <2>1. /\ OneSlot(r) /\ reqs[r] = Idle /\ reqs'[r].ticket = u
        /\ u \in Overlapping \/ \A q \in Requests : reqs[q].ticket # u
        /\ UNCHANGED <<tickets, assignments, answers, delivered>>
        /\ RequestEffect(r, u, tickets[u])
    BY <1>1, RequestHasEffect DEF storage
  <2>2. CASE u = t
    BY <1>t, <2>1, <2>2 DEF BeginsOn, Works
  <2>3. CASE u # t
    BY <2>1, <2>3 DEF Elsewhere, Works, OneSlot, At, Idle
  <2> QED
    BY <2>2, <2>3
<1>2. ASSUME NEW r \in Requests, Step(r)
      PROVE  GoesOn(r, t) \/ Elsewhere(t)
  <2>1. CASE reqs[r].ticket = t
    <3>1. /\ OneSlot(r) /\ reqs[r].pc # "idle" /\ StepEffect(r, reqs[r], t, tickets[t])
      BY <1>2, <2>1, StepHasEffect
    <3>2. reqs'[r] = Idle \/ (reqs'[r].ticket = t /\ reqs'[r].pc # "idle")
      BY <2>1, <3>1 DEF StepEffect, Becomes
    <3> QED
      BY <2>1, <3>1, <3>2 DEF GoesOn, Works, At
  <2>2. CASE reqs[r].ticket # t
    BY <1>2, <1>t, <2>2, StepElsewhere
  <2> QED
    BY <2>1, <2>2
<1>3. ASSUME NEW r \in Requests, reqs[r].ticket \in Faulty, OneSlot(r), reqs'[r] = Idle,
             UNCHANGED <<tickets, answers, assignments, clock, delivered>>
      PROVE  Elsewhere(t)
  BY <1>3 DEF Elsewhere, Works, OneSlot, At, Idle
<1>4. ASSUME UNCHANGED <<tickets, answers, assignments, clock, delivered, reqs>>
      PROVE  Elsewhere(t)
  BY <1>4 DEF Elsewhere, Works, At
<1>5. clock <= clock' /\ clock' \in Nat
  BY <1>t, OtherSteps, RequestHasEffect, StepHasEffect
<1> QED
  BY <1>1, <1>2, <1>3, <1>4, <1>5, OtherSteps

LEMMA NextClock ==
  ASSUME TypeInv, [Next]_vars
  PROVE  clock <= clock' /\ clock' \in Nat /\ clock \in Nat
<1>1. clock \in Nat /\ clock <= clock
  BY DEF TypeInv, TypeOK
<1> QED
  BY <1>1, OtherSteps, RequestHasEffect, StepHasEffect

(* Nobody else is at work on the ticket after such a step. *)
LEMMA NobodyElse ==
  ASSUME AloneInv, NEW t \in Apart, NEW r \in Requests, BeginsOn(r, t) \/ GoesOn(r, t),
         NEW q \in Requests, Works(q, t)'
  PROVE  q = r
BY DEF AloneInv, BeginsOn, GoesOn, OneSlot, Works, At

(* What the row of such a ticket looks like, and how far the copies of the *)
(* one request at work on it have moved away from it.                      *)

SameStatus(x, y) ==
  x.status = y.status /\ x.closedAt = y.closedAt /\ x.closedBy = y.closedBy
SameTalk(x, y) == x.lastAt = y.lastAt /\ x.lastSide = y.lastSide /\ x.seenAt = y.seenAt
IsFresh(x) ==
  x.status = "open" /\ x.closedAt = Null /\ x.closedBy = Null /\ x.lastSide = "user"

Replied(copy, row) ==
  /\ SameStatus(copy, row) /\ copy.seenAt = row.seenAt
  /\ copy.lastSide = "admin" /\ row.lastAt <= copy.lastAt

Saving(op, copy, row) ==
  /\ op = "view" => /\ SameStatus(copy, row)
                    /\ copy.lastAt = row.lastAt /\ copy.lastSide = row.lastSide
  /\ op = "answer" => SameStatus(copy, row) /\ copy.lastSide = "user"
  /\ op = "reply" => Replied(copy, row)
  /\ op \in {"close", "closeBySeller"}
       => SameTalk(copy, row) /\ copy.status = "closed" /\ copy.closedAt # Null
  /\ op \in {"reopen", "reopenBySeller"}
       => SameTalk(copy, row) /\ copy.status = "open" /\ copy.closedAt = Null /\ copy.closedBy = Null

RowOK(row, now) ==
  /\ row.status = "none" => row = NoRow
  /\ row.status = "open" => row.closedAt = Null /\ row.closedBy = Null
  /\ row.status = "closed" => row.closedAt # Null
  /\ row.lastAt <= now /\ row.seenAt <= now

Fits(h, row, now) ==
  /\ h.copy.lastAt <= now /\ h.copy.seenAt <= now
  /\ h.pc = "insertTicket" => row = NoRow /\ IsFresh(h.copy)
  /\ h.pc # "insertTicket" => row.status # "none"
  /\ h.op \in {"answer", "reply"} => row.status = "open"
  /\ h.pc \in {"firstAssignment", "answers", "resolveAdmin", "insertAnswer"} => h.copy = row
  /\ h.pc = "insertAnswer" /\ h.op \in {"answer", "reply"} => row.lastAt <= h.now /\ h.now <= now
  /\ h.pc \in {"autoAssign", "history", "target", "insertAssignment", "saveOwn", "writeOwn"}
       => (h.op = "reply" => Replied(h.copy, row))
  /\ h.pc \in {"history", "target", "insertAssignment"} => h.own = row
  /\ h.pc \in {"saveOwn", "writeOwn"} => SameStatus(h.own, row) /\ SameTalk(h.own, row)
  /\ h.pc \in {"save", "write"} => Saving(h.op, h.copy, row)
  /\ h.pc \in {"write", "writeOwn"} => h.base = row

CopiesInv ==
  /\ 1 <= clock
  /\ \A t \in Apart : RowOK(tickets[t], clock)
  /\ \A t \in Apart : \A r \in Requests : Works(r, t) => Fits(reqs[r], tickets[t], clock)

(* save() of a copy made from the row as it still is leaves the copy. *)
LEMMA MergedAlone ==
  ASSUME NEW mine, NEW row
  PROVE  /\ SameStatus(Merged(mine, row, row), mine) /\ SameTalk(Merged(mine, row, row), mine)
         /\ Merged(mine, row, row).assigned = mine.assigned
BY DEF Merged, Column, SameStatus, SameTalk

LEMMA TouchedFields ==
  ASSUME NEW row \in TicketRow, NEW n, NEW x,
         x = TouchedBySeller(row, n) \/ x = TouchedByStaff(row, n)
  PROVE  /\ SameStatus(x, row) /\ x.assigned = row.assigned /\ x.lastAt = n
         /\ x = TouchedBySeller(row, n) => x.lastSide = "user" /\ x.seenAt = n
         /\ x = TouchedByStaff(row, n) => x.lastSide = "admin" /\ x.seenAt = row.seenAt
BY DEF TicketRow, TouchedBySeller, TouchedByStaff, SameStatus

LEMMA SeenFields ==
  ASSUME NEW row \in TicketRow, NEW n, NEW x, x = [row EXCEPT !.seenAt = n]
  PROVE  /\ SameStatus(x, row) /\ x.assigned = row.assigned /\ x.seenAt = n
         /\ x.lastAt = row.lastAt /\ x.lastSide = row.lastSide
BY DEF TicketRow, SameStatus

LEMMA AssignedFields ==
  ASSUME NEW row \in TicketRow, NEW a, NEW x, x = [row EXCEPT !.assigned = a]
  PROVE  SameStatus(x, row) /\ SameTalk(x, row) /\ x.assigned = a
BY DEF TicketRow, SameStatus, SameTalk

LEMMA ClosedFields ==
  ASSUME NEW row \in TicketRow, NEW n
  PROVE  /\ SameTalk(Closed(row, n), row) /\ Closed(row, n).assigned = row.assigned
         /\ Closed(row, n).status = "closed" /\ Closed(row, n).closedAt = n
         /\ \A a : /\ SameTalk([Closed(row, n) EXCEPT !.closedBy = a], row)
                   /\ [Closed(row, n) EXCEPT !.closedBy = a].assigned = row.assigned
                   /\ [Closed(row, n) EXCEPT !.closedBy = a].status = "closed"
                   /\ [Closed(row, n) EXCEPT !.closedBy = a].closedAt = n
         /\ SameTalk(Reopened(row), row) /\ Reopened(row).assigned = row.assigned
         /\ Reopened(row).status = "open" /\ Reopened(row).closedAt = Null
         /\ Reopened(row).closedBy = Null
BY DEF TicketRow, Closed, Reopened, SameTalk

(* The rest of time. *)
LEMMA FitsLater ==
  ASSUME NEW h \in Handler, NEW row \in TicketRow, NEW m \in Nat, NEW n \in Nat, m <= n
  PROVE  (RowOK(row, m) => RowOK(row, n)) /\ (Fits(h, row, m) => Fits(h, row, n))
<1>1. h.copy \in TicketRow /\ h.now \in Nat
  BY DEF Handler
<1>2. \A x \in TicketRow : x.lastAt \in Nat /\ x.seenAt \in Nat
  BY DEF TicketRow
<1> QED
  BY <1>1, <1>2 DEF RowOK, Fits

(* A request that begins fits the row it has read. *)
LEMMA RequestFits ==
  ASSUME TypeInv, TypeInv', NEW r \in Requests, NEW t \in Tickets, NEW row \in TicketRow,
         RequestEffect(r, t, row), row = tickets[t], RowOK(row, clock),
         clock <= clock', 1 <= clock
  PROVE  \A h, n : h = reqs'[r] /\ n = clock' => Fits(h, row, n)
<1> SUFFICES ASSUME NEW h, NEW n, h = reqs'[r], n = clock'
             PROVE  Fits(h, row, n)
  OBVIOUS
<1>1. /\ h \in Handler /\ h.copy \in TicketRow /\ n \in Nat /\ clock \in Nat
      /\ row.lastAt \in Nat /\ row.seenAt \in Nat
  BY DEF TypeInv, TypeOK, Handler, TicketRow
<1>2. row.lastAt <= n /\ row.seenAt <= n /\ n # Null
  BY <1>1 DEF RowOK, Null
<1>3. (row.status = "none" <=> ~Exists(t)) /\ (row.status = "open" <=> IsOpen(t))
  BY DEF Exists, IsOpen
<1>4. NoRow.lastAt = 0 /\ NoRow.seenAt = 0
  BY DEF NoRow, Null
<1>5. PICK op, pc, copy, own : h.op = op /\ h.pc = pc /\ h.copy = copy /\ h.own = own
  OBVIOUS
<1>6. CASE op = "create"
  BY <1>1, <1>3, <1>5, <1>6 DEF RequestEffect, Begins, Fits, IsFresh, RowOK, TakesNow
<1>7. CASE op \in {"view", "note", "answer", "reply"}
  BY <1>1, <1>2, <1>3, <1>5, <1>7 DEF RequestEffect, Begins, Fits, TakesNow
<1>8. CASE op \in {"close", "closeBySeller", "reopen", "reopenBySeller"}
  <2>1. /\ row.status # "none" /\ pc = "save" /\ SameTalk(copy, row)
        /\ op \in {"close", "closeBySeller"} => copy.status = "closed" /\ copy.closedAt = n
        /\ op \in {"reopen", "reopenBySeller"}
             => copy.status = "open" /\ copy.closedAt = Null /\ copy.closedBy = Null
    <3>1. /\ row.status # "none" /\ pc = "save"
          /\ op \in {"close", "closeBySeller"}
               => copy = Closed(row, n) \/ \E a : copy = [Closed(row, n) EXCEPT !.closedBy = a]
          /\ op \in {"reopen", "reopenBySeller"} => copy = Reopened(row)
      BY <1>3, <1>5, <1>8 DEF RequestEffect, Begins
    <3>2. ASSUME copy = Closed(row, n)
          PROVE  SameTalk(copy, row) /\ copy.status = "closed" /\ copy.closedAt = n
      BY <3>2, ClosedFields
    <3>3. ASSUME NEW a, copy = [Closed(row, n) EXCEPT !.closedBy = a]
          PROVE  SameTalk(copy, row) /\ copy.status = "closed" /\ copy.closedAt = n
      BY <3>3, ClosedFields
    <3>4. ASSUME copy = Reopened(row)
          PROVE  /\ SameTalk(copy, row) /\ copy.status = "open"
                 /\ copy.closedAt = Null /\ copy.closedBy = Null
      BY <3>4, ClosedFields
    <3> QED
      BY <1>8, <3>1, <3>2, <3>3, <3>4
  <2> QED
    BY <1>1, <1>2, <1>5, <1>8, <2>1 DEF Fits, Saving, SameTalk
<1>9. CASE op = "assign"
  BY <1>1, <1>2, <1>3, <1>4, <1>5, <1>9 DEF RequestEffect, Begins, Fits
<1>10. op \in {"create", "view", "note", "answer", "reply", "close", "closeBySeller", "reopen",
               "reopenBySeller", "assign"}
  BY <1>5 DEF RequestEffect, Begins
<1> QED
  BY <1>6, <1>7, <1>8, <1>9, <1>10

(* So does one that goes on, with the row it leaves. *)
LEMMA StepFits ==
  ASSUME TypeInv, TypeInv', NEW r \in Requests, NEW t \in Tickets, NEW h, NEW row,
         h = reqs[r], h.pc # "idle", row = tickets[t], OpOK(h), 1 <= clock, clock <= clock',
         RowOK(row, clock), Fits(h, row, clock), StepEffect(r, h, t, row)
  PROVE  \A g, x, n : g = reqs'[r] /\ x = tickets'[t] /\ n = clock'
           => RowOK(x, n) /\ (g.pc = "idle" \/ Fits(g, x, n))
<1> SUFFICES ASSUME NEW g, NEW x, NEW n, g = reqs'[r], x = tickets'[t], n = clock'
             PROVE  RowOK(x, n) /\ (g.pc = "idle" \/ Fits(g, x, n))
  OBVIOUS
<1> PICK c : c = clock
  OBVIOUS
<1>1. /\ h \in Handler /\ h.copy \in TicketRow /\ h.own \in TicketRow /\ h.now \in Nat
      /\ h.copy.lastAt \in Nat /\ h.copy.seenAt \in Nat
      /\ g \in Handler /\ g.copy \in TicketRow /\ row \in TicketRow /\ x \in TicketRow
      /\ row.lastAt \in Nat /\ row.seenAt \in Nat /\ c \in Nat /\ n \in Nat
  BY DEF TypeInv, TypeOK, Handler, TicketRow
<1>2. c <= n /\ 1 <= c /\ RowOK(row, n) /\ Fits(h, row, n) /\ Fits(h, row, c) /\ n # Null
  BY <1>1, FitsLater DEF Null
<1>3. Idle.pc = "idle"
  BY DEF Idle
<1>4. CASE h.pc = "insertTicket"
  <2>1. x = h.copy /\ (g = Idle \/ (g.pc = "firstAssignment" /\ g.copy = h.copy /\ g.op = h.op))
    BY <1>4 DEF StepEffect, OneRow, Becomes
  <2>2. h.op = "create" /\ IsFresh(h.copy)
    BY <1>2, <1>4 DEF OpOK, Fits
  <2> QED
    BY <1>1, <1>2, <1>3, <2>1, <2>2 DEF Fits, RowOK, IsFresh
<1>5. CASE h.pc \in {"firstAssignment"}
  BY <1>2, <1>3, <1>5 DEF StepEffect
<1>6. CASE h.pc = "answers"
  <2>1. /\ x = row
        /\ \/ g = Idle
           \/ g.pc = "save" /\ g.copy = [h.copy EXCEPT !.seenAt = n] /\ g.op = h.op
    BY <1>6 DEF StepEffect, storage, Becomes
  <2>2. h.op = "view" /\ h.copy = row /\ row.status # "none"
    BY <1>2, <1>6 DEF OpOK, Fits
  <2>3. CASE g = Idle
    BY <1>2, <1>3, <2>1, <2>3
  <2>4. CASE g # Idle
    <3>0. g.copy = [row EXCEPT !.seenAt = n]
      BY <2>1, <2>2, <2>4
    <3>1. SameStatus(g.copy, row) /\ g.copy.lastAt = row.lastAt /\ g.copy.lastSide = row.lastSide
          /\ g.copy.seenAt = n
      BY <1>1, <3>0, SeenFields
    <3> QED
      BY <1>1, <1>2, <2>1, <2>2, <2>4, <3>1 DEF Fits, Saving, RowOK
  <2> QED
    BY <2>3, <2>4
<1>7. CASE h.pc = "resolveAdmin"
  <2>1. /\ x = row /\ g.pc = "insertAnswer" /\ g.copy = h.copy /\ g.op = h.op
        /\ g.now = n \/ g.op = "note"
    BY <1>7 DEF StepEffect, storage, Becomes, TakesNow
  <2> QED
    BY <1>1, <1>2, <1>7, <2>1 DEF OpOK, Fits, RowOK
<1>8. CASE h.pc = "insertAnswer"
  <2>1. /\ x = row
        /\ \/ g = Idle
           \/ /\ h.op = "answer" /\ g.op = h.op /\ g.pc = "save"
              /\ g.copy = TouchedBySeller(h.copy, h.now)
           \/ /\ h.op = "reply" /\ g.op = h.op /\ g.pc \in {"autoAssign", "save"}
              /\ g.copy = TouchedByStaff(h.copy, h.now)
    BY <1>8 DEF StepEffect, Becomes
  <2>2. CASE g = Idle
    BY <1>2, <1>3, <2>1, <2>2
  <2>3. CASE h.op = "answer" /\ g.copy = TouchedBySeller(h.copy, h.now) /\ g.pc = "save" /\ g.op = h.op
    BY <1>1, <1>2, <1>8, <2>1, <2>3, TouchedFields DEF Fits, Saving
  <2>4. CASE h.op = "reply" /\ g.copy = TouchedByStaff(h.copy, h.now) /\ g.op = h.op
             /\ g.pc \in {"autoAssign", "save"}
    <3>1. /\ SameStatus(g.copy, row) /\ g.copy.lastSide = "admin" /\ g.copy.lastAt = h.now
          /\ g.copy.seenAt = row.seenAt /\ row.lastAt <= h.now /\ h.now <= n
      BY <1>1, <1>2, <1>8, <2>4, TouchedFields DEF Fits
    <3> QED
      BY <1>1, <1>2, <1>8, <2>1, <2>4, <3>1 DEF Fits, Saving, Replied, RowOK
  <2> QED
    BY <2>1, <2>2, <2>3, <2>4
<1>9. CASE h.pc = "autoAssign"
  <2>1. x = row /\ g.pc = "history" /\ g.copy = h.copy /\ g.op = h.op /\ g.own = row
    BY <1>9 DEF StepEffect, storage, Becomes
  <2> QED
    BY <1>1, <1>2, <1>9, <2>1 DEF Fits, OpOK
<1>10. CASE h.pc \in {"history", "insertAssignment"}
  <2>1. PICK a : /\ x = row /\ g.copy = h.copy /\ g.op = h.op
                 /\ \/ g.pc = "saveOwn" /\ g.own = [h.own EXCEPT !.assigned = a]
                    \/ g.pc = "target" /\ g.own = h.own
    BY <1>10 DEF StepEffect, Becomes
  <2>2. g.pc = "saveOwn" => SameStatus(g.own, row) /\ SameTalk(g.own, row)
    BY <1>1, <1>2, <1>10, <2>1, AssignedFields DEF Fits
  <2> QED
    BY <1>1, <1>2, <1>10, <2>1, <2>2 DEF Fits, OpOK
<1>11. CASE h.pc = "target"
  <2>1. /\ x = row
        /\ \/ g = Idle
           \/ /\ g.copy = h.copy /\ g.op = h.op /\ g.own = h.own
              /\ g.pc = "insertAssignment" \/ (g.pc = "save" /\ h.op = "reply")
    BY <1>11 DEF StepEffect, storage, Becomes
  <2> QED
    BY <1>1, <1>2, <1>3, <1>11, <2>1 DEF Fits, OpOK, Saving
<1>12. CASE h.pc \in {"save", "saveOwn"}
  <2>1. /\ x = row /\ g.copy = h.copy /\ g.op = h.op /\ g.own = h.own /\ g.base = row
        /\ g.pc = IF h.pc = "save" THEN "write" ELSE "writeOwn"
    BY <1>12 DEF StepEffect, storage, Becomes
  <2> QED
    BY <1>1, <1>2, <1>12, <2>1 DEF Fits, OpOK
<1>13. CASE h.pc = "writeOwn"
  <2>1. /\ x = Merged(h.own, row, row)
        /\ g = Idle \/ (g.pc = "save" /\ h.op = "reply" /\ g.copy = h.copy /\ g.op = h.op)
    BY <1>2, <1>13 DEF StepEffect, OneRow, Becomes, Fits
  <2>2. SameStatus(x, row) /\ SameTalk(x, row) /\ row.status # "none"
    BY <1>2, <1>13, <2>1, MergedAlone DEF Fits, SameStatus, SameTalk
  <2>3. RowOK(x, n)
    BY <1>2, <2>2 DEF RowOK, SameStatus, SameTalk
  <2>4. Replied(h.copy, row) => Replied(h.copy, x)
    BY <2>2 DEF Replied, SameStatus, SameTalk
  <2> QED
    BY <1>1, <1>2, <1>3, <1>13, <2>1, <2>2, <2>3, <2>4 DEF Fits, Saving, SameStatus
<1>14. CASE h.pc = "write"
  <2>1. x = Merged(h.copy, row, row) /\ g = Idle
    BY <1>2, <1>14 DEF StepEffect, OneRow, Fits
  <2>2. SameStatus(x, h.copy) /\ SameTalk(x, h.copy) /\ Saving(h.op, h.copy, row) /\ row.status # "none"
    BY <1>2, <1>14, <2>1, MergedAlone DEF Fits
  <2>3. h.copy.lastAt <= n /\ h.copy.seenAt <= n
    BY <1>2 DEF Fits
  <2>4. RowOK(x, n)
    BY <1>2, <1>14, <2>2, <2>3 DEF RowOK, SameStatus, SameTalk, Saving, Replied, OpOK
  <2> QED
    BY <1>3, <2>1, <2>4
<1>15. h.pc \in {"idle", "answers", "insertTicket", "firstAssignment", "resolveAdmin",
                 "insertAnswer", "autoAssign", "history", "target", "insertAssignment",
                 "saveOwn", "writeOwn", "save", "write"}
  BY <1>1 DEF Handler
<1> QED
  BY <1>4, <1>5, <1>6, <1>7, <1>8, <1>9, <1>10, <1>11, <1>12, <1>13, <1>14, <1>15

LEMMA NextCopies ==
  ASSUME TypeInv, TypeInv', AloneInv, CopiesInv, [Next]_vars
  PROVE  CopiesInv'
<1> DEFINE Good(t, x, n) ==
             /\ RowOK(x, n)
             /\ \A r \in Requests : Works(r, t)' => \A g : g = reqs'[r] => Fits(g, x, n)
<1>1. ASSUME NEW t \in Apart, NEW x, NEW n, x = tickets'[t], n = clock'
      PROVE  Good(t, x, n)
  <2>0. t \in Tickets /\ tickets[t] \in TicketRow /\ 1 <= clock /\ RowOK(tickets[t], clock)
    BY DEF Apart, TypeInv, TypeOK, CopiesInv
  <2>1. clock <= clock' /\ clock' \in Nat /\ clock \in Nat
    BY ApartSteps DEF TypeInv, TypeOK
  <2>2. RowOK(tickets[t], n)
    BY <1>1, <2>0, <2>1, FitsLater, ConstantTypes
  <2>3. ASSUME NEW r \in Requests, BeginsOn(r, t)
        PROVE  Good(t, x, n)
    <3>1. x = tickets[t] /\ \A h : h = reqs'[r] => Fits(h, x, n)
      BY <1>1, <2>0, <2>1, <2>3, RequestFits DEF BeginsOn
    <3> QED
      BY <2>2, <2>3, <3>1, NobodyElse
  <2>4. ASSUME NEW r \in Requests, GoesOn(r, t)
        PROVE  Good(t, x, n)
    <3>1. Works(r, t) /\ StepEffect(r, reqs[r], t, tickets[t]) /\ Fits(reqs[r], tickets[t], clock)
          /\ OpOK(reqs[r]) /\ reqs[r].pc # "idle"
      BY <2>4 DEF GoesOn, CopiesInv, AloneInv, Works, At
    <3>2. \A g : g = reqs'[r] => RowOK(x, n) /\ (g.pc = "idle" \/ Fits(g, x, n))
      BY <1>1, <2>0, <2>1, <3>1, StepFits
    <3>3. Works(r, t)' => reqs'[r].pc # "idle"
      BY DEF Works, At
    <3> QED
      BY <2>4, <3>2, <3>3, NobodyElse
  <2>5. ASSUME Elsewhere(t)
        PROVE  Good(t, x, n)
    <3>1. ASSUME NEW r \in Requests, Works(r, t)', NEW g, g = reqs'[r]
          PROVE  Fits(g, x, n)
      <4>1. Fits(g, x, clock) /\ x \in TicketRow /\ g \in Handler
        BY <1>1, <2>0, <2>5, <3>1 DEF Elsewhere, CopiesInv, TypeInv, TypeOK
      <4> QED
        BY <1>1, <2>1, <4>1, FitsLater
    <3> QED
      BY <1>1, <2>2, <2>5, <3>1 DEF Elsewhere
  <2> QED
    BY <2>3, <2>4, <2>5, ApartSteps
<1>2. 1 <= clock'
  BY <1>1, NextClock DEF CopiesInv, TypeInv, TypeOK
<1> QED
  BY <1>1, <1>2 DEF CopiesInv, Works, At

LEMMA InitApart == Init => AloneInv /\ CopiesInv
<1>1. Init => \A r \in Requests : reqs[r] = Idle /\ OpOK(reqs[r])
  BY DEF Init, OpOK, Idle
<1>2. \A n \in Nat : RowOK(NoRow, n)
  BY DEF RowOK, NoRow, Null
<1> QED
  BY <1>1, <1>2 DEF Init, AloneInv, CopiesInv, Works, At, Apart, Idle

ApartInv == TypeInv /\ AloneInv /\ CopiesInv

LEMMA ApartInvAlways == Spec => []ApartInv
<1>1. Init => ApartInv
  BY InitTypes, InitApart DEF ApartInv
<1>2. ApartInv /\ [Next]_vars => ApartInv'
  BY NextTypes, NextAlone, NextCopies DEF ApartInv
<1> QED
  BY <1>1, <1>2, PTL DEF Spec

(* Status and closing columns of a ticket on which requests wait for each  *)
(* other always agree.                                                     *)
THEOREM ClosingColumnsAgreeAlways == Spec => []ClosingColumnsAgree
<1>1. ApartInv => ClosingColumnsAgree
  BY DEF ApartInv, CopiesInv, RowOK, ClosingColumnsAgree, IsOpen
<1> QED
  BY <1>1, ApartInvAlways, PTL

(* What becomes of the row. *)
LEMMA RowChanges ==
  ASSUME ApartInv, NEW t \in Apart, NEW r \in Requests, GoesOn(r, t),
         NEW h, NEW row, NEW x, h = reqs[r], row = tickets[t], x = tickets'[t]
  PROVE  \/ x = row /\ h.pc \notin {"insertTicket", "writeOwn", "write"}
         \/ /\ h.pc = "insertTicket" /\ h.op = "create" /\ row = NoRow /\ IsFresh(x)
            /\ UNCHANGED <<answers, assignments, delivered>>
         \/ /\ h.pc = "writeOwn" /\ SameStatus(x, row) /\ SameTalk(x, row)
            /\ x.assigned = h.own.assigned
         \/ /\ h.pc = "write" /\ SameStatus(x, h.copy) /\ SameTalk(x, h.copy)
            /\ x.assigned = h.copy.assigned /\ Saving(h.op, h.copy, row)
            /\ reqs'[r] = Idle /\ UNCHANGED <<answers, assignments>>
<1>1. Fits(h, row, clock) /\ OpOK(h) /\ StepEffect(r, h, t, row)
  BY DEF ApartInv, CopiesInv, AloneInv, GoesOn
<1>2. CASE h.pc = "insertTicket"
  BY <1>1, <1>2 DEF Fits, OpOK, StepEffect, OneRow
<1>3. CASE h.pc = "writeOwn"
  <2>1. x = Merged(h.own, row, row) /\ SameStatus(h.own, row) /\ SameTalk(h.own, row)
    BY <1>1, <1>3 DEF Fits, StepEffect, OneRow
  <2> QED
    BY <1>3, <2>1, MergedAlone DEF SameStatus, SameTalk
<1>4. CASE h.pc = "write"
  <2>1. /\ x = Merged(h.copy, row, row) /\ Saving(h.op, h.copy, row) /\ reqs'[r] = Idle
        /\ UNCHANGED <<answers, assignments>>
    BY <1>1, <1>4 DEF Fits, StepEffect, OneRow
  <2> QED
    BY <1>4, <2>1, MergedAlone
<1>5. CASE h.pc \notin {"insertTicket", "writeOwn", "write"}
  BY <1>1, <1>5 DEF StepEffect, storage
<1> QED
  BY <1>2, <1>3, <1>4, <1>5

LEMMA NextStatus ==
  ASSUME ApartInv, [Next]_vars, NEW t \in Apart
  PROVE  /\ tickets[t].status = "open" /\ tickets'[t].status = "closed"
              => \E r \in Requests : reqs[r].ticket = t /\ Moves(r, {"close", "closeBySeller"})
         /\ tickets[t].status = "closed" /\ tickets'[t].status = "open"
              => \E r \in Requests : reqs[r].ticket = t /\ Moves(r, {"reopen", "reopenBySeller"})
         /\ IsUnreadForSeller(tickets[t]) /\ ~IsUnreadForSeller(tickets'[t])
              => \E r \in Requests : reqs[r].ticket = t /\ Moves(r, {"view", "answer"})
<1> PICK row, x : row = tickets[t] /\ x = tickets'[t]
  OBVIOUS
<1>1. CASE x = row
  BY <1>1
<1>2. ASSUME NEW r \in Requests, GoesOn(r, t), x # row
      PROVE  /\ row.status = "open" /\ x.status = "closed"
                  => reqs[r].ticket = t /\ Moves(r, {"close", "closeBySeller"})
             /\ row.status = "closed" /\ x.status = "open"
                  => reqs[r].ticket = t /\ Moves(r, {"reopen", "reopenBySeller"})
             /\ IsUnreadForSeller(row) /\ ~IsUnreadForSeller(x)
                  => reqs[r].ticket = t /\ Moves(r, {"view", "answer"})
  <2> PICK h : h = reqs[r]
    OBVIOUS
  <2>0. h \in Handler /\ row \in TicketRow /\ OpOK(h) /\ reqs[r].ticket = t
    BY <1>2 DEF ApartInv, AloneInv, TypeInv, TypeOK, Apart, GoesOn, Works
  <2>1. CASE h.pc = "insertTicket"
    BY <1>2, <2>1, RowChanges DEF NoRow, IsUnreadForSeller
  <2>2. CASE h.pc = "writeOwn" \/ x = row
    BY <1>2, <2>2, RowChanges DEF SameStatus, SameTalk, IsUnreadForSeller
  <2>3. CASE h.pc = "write"
    <3>1. /\ SameStatus(x, h.copy) /\ SameTalk(x, h.copy) /\ Saving(h.op, h.copy, row)
          /\ reqs'[r] # h
      BY <1>2, <2>3, RowChanges DEF Idle
    <3>2. h.op \in {"view", "answer", "reply", "close", "closeBySeller", "reopen", "reopenBySeller"}
      BY <2>0, <2>3 DEF OpOK
    <3>3. CASE h.op \in {"view", "answer"}
      BY <2>0, <3>1, <3>3 DEF Saving, SameStatus, Moves
    <3>4. CASE h.op = "reply"
      <4>1. /\ x.status = row.status /\ x.lastSide = "admin" /\ x.seenAt = row.seenAt
            /\ row.lastAt <= x.lastAt
        BY <3>1, <3>4 DEF Saving, Replied, SameStatus, SameTalk
      <4>2. row.lastAt \in Nat /\ row.seenAt \in Nat /\ x.lastAt \in Nat
        BY <2>0, <3>1 DEF Handler, TicketRow, SameTalk
      <4> QED
        BY <4>1, <4>2 DEF IsUnreadForSeller
    <3>5. CASE h.op \in {"close", "closeBySeller", "reopen", "reopenBySeller"}
      BY <2>0, <3>1, <3>5 DEF Saving, SameStatus, SameTalk, Moves, IsUnreadForSeller
    <3> QED
      BY <3>2, <3>3, <3>4, <3>5
  <2> QED
    BY <1>2, <2>1, <2>2, <2>3, RowChanges
<1>3. x # row => \E r \in Requests : GoesOn(r, t)
  BY ApartSteps DEF ApartInv, BeginsOn, Elsewhere
<1> QED
  BY <1>1, <1>2, <1>3

(* No answer, view or assignment brings an old status back to a ticket on  *)
(* which requests wait for each other.                                     *)
THEOREM StatusChangesOnRequestAlways == Spec => StatusChangesOnRequest
<1>1. ApartInv /\ [Next]_vars =>
        [\A t \in Apart :
           /\ tickets[t].status = "open" /\ tickets'[t].status = "closed"
                => \E r \in Requests : reqs[r].ticket = t /\ Moves(r, {"close", "closeBySeller"})
           /\ tickets[t].status = "closed" /\ tickets'[t].status = "open"
                => \E r \in Requests : reqs[r].ticket = t /\ Moves(r, {"reopen", "reopenBySeller"})]_vars
  BY NextStatus
<1> QED
  BY <1>1, ApartInvAlways, PTL DEF Spec, StatusChangesOnRequest

(* Nor does one take the unread badge away behind the seller's back: a     *)
(* close, a reopening, an assignment or a further reply leaves it.         *)
THEOREM BadgeClearedBySellerAlways == Spec => BadgeClearedBySeller
<1>1. ApartInv /\ [Next]_vars =>
        [\A t \in Apart :
           IsUnreadForSeller(tickets[t]) /\ ~IsUnreadForSeller(tickets'[t])
             => \E r \in Requests : reqs[r].ticket = t /\ Moves(r, {"view", "answer"})]_vars
  BY NextStatus
<1> QED
  BY <1>1, ApartInvAlways, PTL DEF Spec, BadgeClearedBySeller

-------------------------------------------------------------------------------
(* The assignment history of such a ticket                                 *)

NoneActive(q) == \A i \in DOMAIN q : q[i].to # Null
StartedBy(q, n) == \A i \in DOMAIN q : q[i].from <= n
ActiveNames(q, a) == \A i \in DOMAIN q : q[i].to = Null => q[i].admin = a

LogOK(q, now) ==
  /\ \A i, j \in DOMAIN q : q[i].to = Null /\ q[j].to = Null => i = j
  /\ \A i \in DOMAIN q : q[i].to = Null \/ q[i].from <= q[i].to
  /\ StartedBy(q, now)

LogFits(h, q, now) ==
  /\ h.pc \in {"insertTicket", "firstAssignment"} => q = << >>
  /\ h.pc \in {"insertTicket", "firstAssignment", "history", "target", "insertAssignment"}
       => 1 <= h.now /\ h.now <= now
  /\ h.pc = "history" => StartedBy(q, h.now)
  /\ h.pc \in {"target", "insertAssignment"} => NoneActive(q)
  /\ h.pc \in {"saveOwn", "writeOwn"} => ActiveNames(q, h.target) /\ h.own.assigned = h.target

LogInv ==
  \A t \in Apart :
    /\ tickets[t].status = "none" => assignments[t] = << >>
    /\ LogOK(assignments[t], clock)
    /\ \A r \in Requests : Works(r, t) => LogFits(reqs[r], assignments[t], clock)

(* Ending what is active leaves nothing active and the rest as it was. *)
LEMMA Ended ==
  ASSUME NEW q \in Seq(Assignment), NEW n \in Nat, 1 <= n, NEW p, p = EndActive(q, n)
  PROVE  /\ DOMAIN p = DOMAIN q /\ NoneActive(p)
         /\ \A i \in DOMAIN q : /\ p[i].from = q[i].from
                                /\ q[i].to = Null => p[i].to = n
                                /\ q[i].to # Null => p[i] = q[i]
<1>1. DOMAIN p = DOMAIN q
  BY DEF EndActive
<1>2. ASSUME NEW i \in DOMAIN q
      PROVE  /\ p[i].from = q[i].from /\ p[i].to # Null
             /\ q[i].to = Null => p[i].to = n
             /\ q[i].to # Null => p[i] = q[i]
  <2>1. q[i] \in Assignment /\ n # Null
    BY DEF Null
  <2>2. p[i] = IF q[i].to = Null THEN [q[i] EXCEPT !.to = n] ELSE q[i]
    BY <1>1 DEF EndActive
  <2> QED
    BY <2>1, <2>2 DEF Assignment
<1> QED
  BY <1>1, <1>2 DEF NoneActive

(* An entry added to a log that has nothing active is the active one. *)
LEMMA Added ==
  ASSUME NEW q \in Seq(Assignment), NEW e \in Assignment, NEW n \in Nat, LogOK(q, n),
         NoneActive(q), e.to = Null, e.from <= n, NEW p, p = Append(q, e)
  PROVE  LogOK(p, n) /\ ActiveNames(p, e.admin)
<1>1. DOMAIN p = 1..(Len(q) + 1) /\ DOMAIN q = 1..Len(q) /\ Len(q) \in Nat
  OBVIOUS
<1>2. p[Len(q) + 1] = e /\ \A i \in DOMAIN q : p[i] = q[i]
  OBVIOUS
<1>3. \A i \in DOMAIN p : i = Len(q) + 1 \/ i \in DOMAIN q
  BY <1>1
<1> QED
  BY <1>2, <1>3 DEF LogOK, NoneActive, StartedBy, ActiveNames

LEMMA LogLater ==
  ASSUME NEW h \in Handler, NEW q \in Seq(Assignment), NEW m \in Nat, NEW n \in Nat, m <= n
  PROVE  (LogOK(q, m) => LogOK(q, n)) /\ (LogFits(h, q, m) => LogFits(h, q, n))
<1>1. h.now \in Nat
  BY DEF Handler
<1>2. \A i \in DOMAIN q : q[i] \in Assignment
  OBVIOUS
<1>3. \A i \in DOMAIN q : q[i].from \in Nat
  BY <1>2 DEF Assignment
<1> QED
  BY <1>1, <1>3 DEF LogOK, LogFits, StartedBy

LEMMA StepLogs ==
  ASSUME TypeInv, TypeInv', NEW r \in Requests, NEW t \in Tickets, NEW h, NEW q,
         h = reqs[r], h.pc # "idle", q = assignments[t], HandlerOK(h), 1 <= clock, clock <= clock',
         LogOK(q, clock), LogFits(h, q, clock), StepEffect(r, h, t, tickets[t])
  PROVE  \A g, p, n : g = reqs'[r] /\ p = assignments'[t] /\ n = clock'
           => LogOK(p, n) /\ (g.pc = "idle" \/ LogFits(g, p, n))
<1> SUFFICES ASSUME NEW g, NEW p, NEW n, g = reqs'[r], p = assignments'[t], n = clock'
             PROVE  LogOK(p, n) /\ (g.pc = "idle" \/ LogFits(g, p, n))
  OBVIOUS
<1> PICK c : c = clock
  OBVIOUS
<1>1. /\ h \in Handler /\ h.now \in Nat /\ q \in Seq(Assignment) /\ p \in Seq(Assignment)
      /\ g \in Handler /\ h.own \in TicketRow /\ h.copy \in TicketRow /\ c \in Nat /\ n \in Nat
  BY DEF TypeInv, TypeOK, Handler
<1>2. /\ c <= n /\ 1 <= c /\ LogOK(q, n) /\ LogFits(h, q, n) /\ LogFits(h, q, c) /\ LogOK(q, c)
      /\ Idle.pc = "idle"
  BY <1>1, LogLater DEF Idle
<1>3. CASE h.pc \in {"insertTicket", "answers", "resolveAdmin", "insertAnswer", "save", "write", "writeOwn"}
  <2>1. /\ p = q
        /\ \/ g = Idle
           \/ h.pc = "insertTicket" /\ g.pc = "firstAssignment" /\ g.now = h.now
           \/ g.pc \in {"save", "insertAnswer", "autoAssign", "write"}
    BY <1>3 DEF StepEffect, Becomes, KeepsNow, storage
  <2> QED
    BY <1>1, <1>2, <2>1 DEF LogFits
<1>4. CASE h.pc = "autoAssign"
  <2>1. p = q /\ g.pc = "history" /\ g.now = n
    BY <1>4 DEF StepEffect, Becomes, TakesNow, storage
  <2> QED
    BY <1>1, <1>2, <2>1 DEF LogFits, LogOK
<1>5. CASE h.pc = "firstAssignment"
  <2>1. PICK e : e = [admin |-> h.copy.assigned, from |-> h.now, to |-> Null, by |-> Null]
    OBVIOUS
  <2>2. g = Idle /\ p = Append(q, e)
    BY <1>5, <2>1 DEF StepEffect, OneHistory
  <2>3. e \in Assignment /\ e.to = Null /\ e.from = h.now /\ h.now <= n
    BY <1>1, <1>2, <1>5, <2>1 DEF Assignment, TicketRow, HandlerOK, LogFits, Null
  <2>4. NoneActive(q)
    BY <1>2, <1>5 DEF LogFits, NoneActive
  <2> QED
    BY <1>1, <1>2, <2>2, <2>3, <2>4, Added
<1>6. CASE h.pc = "history"
  <2>1. /\ p = EndActive(q, h.now) /\ g.now = h.now
        /\ \/ g.pc = "saveOwn" /\ g.own = [h.own EXCEPT !.assigned = Null] /\ g.target = Null
           \/ g.pc = "target"
    BY <1>6 DEF StepEffect, OneHistory, Becomes, KeepsNow
  <2>2. 1 <= h.now /\ h.now <= n /\ StartedBy(q, h.now)
    BY <1>2, <1>6 DEF LogFits
  <2>3. DOMAIN p = DOMAIN q /\ NoneActive(p)
    BY <1>1, <2>1, <2>2, Ended
  <2>4. ASSUME NEW i \in DOMAIN q
        PROVE  p[i].from = q[i].from /\ p[i].from <= p[i].to
    <3>1. /\ p[i].from = q[i].from
          /\ q[i].to = Null => p[i].to = h.now
          /\ q[i].to # Null => p[i] = q[i]
      BY <1>1, <2>1, <2>2, Ended
    <3> QED
      BY <1>2, <2>2, <3>1 DEF LogOK, StartedBy
  <2>5. LogOK(p, n)
    BY <1>2, <2>3, <2>4 DEF LogOK, NoneActive, StartedBy
  <2>6. g.pc = "saveOwn" => g.own.assigned = Null /\ g.target = Null
    BY <1>1, <2>1, AssignedFields
  <2>7. ActiveNames(p, Null)
    BY <2>3 DEF ActiveNames, NoneActive
  <2> QED
    BY <1>2, <2>1, <2>2, <2>3, <2>5, <2>6, <2>7 DEF LogFits
<1>7. CASE h.pc = "target"
  <2>1. p = q /\ (g = Idle \/ g.pc = "save" \/ (g.pc = "insertAssignment" /\ g.now = h.now))
    BY <1>7 DEF StepEffect, Becomes, KeepsNow, storage
  <2> QED
    BY <1>1, <1>2, <1>7, <2>1 DEF LogFits
<1>8. CASE h.pc = "insertAssignment"
  <2>1. PICK e : e = [admin |-> h.target, from |-> h.now, to |-> Null, by |-> h.actor]
    OBVIOUS
  <2>2. /\ p = Append(q, e) /\ g.pc = "saveOwn" /\ g.own = [h.own EXCEPT !.assigned = h.target]
        /\ g.target = h.target
    BY <1>8, <2>1 DEF StepEffect, OneHistory, Becomes
  <2>3. h.target \in Admins /\ h.actor \in Admins /\ h.now <= n /\ NoneActive(q)
    BY <1>1, <1>2, <1>8 DEF HandlerOK, StaffOps, Handler, LogFits
  <2>4. e \in Assignment /\ e.to = Null /\ e.from = h.now /\ e.admin = h.target
    BY <1>1, <2>1, <2>3 DEF Assignment, Null
  <2>5. LogOK(p, n) /\ ActiveNames(p, h.target)
    BY <1>1, <1>2, <2>2, <2>3, <2>4, Added
  <2>6. g.own.assigned = h.target
    BY <1>1, <2>2, AssignedFields
  <2> QED
    BY <2>2, <2>5, <2>6 DEF LogFits
<1>9. CASE h.pc = "saveOwn"
  <2>1. p = q /\ g.pc = "writeOwn" /\ g.own = h.own /\ g.target = h.target
    BY <1>9 DEF StepEffect, Becomes, storage
  <2> QED
    BY <1>2, <1>9, <2>1 DEF LogFits
<1>10. h.pc \in {"idle", "answers", "insertTicket", "firstAssignment", "resolveAdmin",
                 "insertAnswer", "autoAssign", "history", "target", "insertAssignment",
                 "saveOwn", "writeOwn", "save", "write"}
  BY <1>1 DEF Handler
<1> QED
  BY <1>3, <1>4, <1>5, <1>6, <1>7, <1>8, <1>9, <1>10

LEMMA NextLog ==
  ASSUME ApartInv, TypeInv', LogInv, [Next]_vars
  PROVE  LogInv'
<1> DEFINE Good(t, x, p, n) ==
             /\ x.status = "none" => p = << >>
             /\ LogOK(p, n)
             /\ \A r \in Requests : Works(r, t)' => \A g : g = reqs'[r] => LogFits(g, p, n)
<1>1. ASSUME NEW t \in Apart, NEW x, NEW p, NEW n, x = tickets'[t], p = assignments'[t], n = clock'
      PROVE  Good(t, x, p, n)
  <2> PICK row, q : row = tickets[t] /\ q = assignments[t]
    OBVIOUS
  <2>0. /\ TypeInv /\ AloneInv /\ t \in Tickets /\ q \in Seq(Assignment) /\ 1 <= clock
        /\ LogOK(q, clock) /\ (row.status = "none" => q = << >>)
    BY DEF ApartInv, Apart, TypeInv, TypeOK, LogInv, CopiesInv
  <2>1. clock <= clock' /\ clock' \in Nat /\ clock \in Nat
    BY <2>0, NextClock
  <2>2. LogOK(q, n)
    BY <1>1, <2>0, <2>1, LogLater, ConstantTypes
  <2>3. ASSUME NEW r \in Requests, BeginsOn(r, t)
        PROVE  Good(t, x, p, n)
    <3>1. x = row /\ p = q /\ RequestEffect(r, t, row)
      BY <1>1, <2>3 DEF BeginsOn
    <3>2. ASSUME NEW g, g = reqs'[r]
          PROVE  LogFits(g, q, n)
      <4>1. \/ g.pc \in {"answers", "insertAnswer", "save", "resolveAdmin"}
            \/ g.pc = "insertTicket" /\ row.status = "none" /\ g.now = n
            \/ g.pc = "history" /\ g.now = n
        BY <1>1, <3>1, <3>2 DEF RequestEffect, Begins, TakesNow, Exists
      <4> QED
        BY <1>1, <2>0, <2>1, <2>2, <4>1 DEF LogFits, LogOK
    <3> QED
      BY <2>0, <2>2, <2>3, <3>1, <3>2, NobodyElse
  <2>4. ASSUME NEW r \in Requests, GoesOn(r, t)
        PROVE  Good(t, x, p, n)
    <3>1. /\ Works(r, t) /\ StepEffect(r, reqs[r], t, tickets[t]) /\ LogFits(reqs[r], q, clock)
          /\ HandlerOK(reqs[r]) /\ reqs[r].pc # "idle"
      BY <2>0, <2>4 DEF GoesOn, LogInv, TypeInv, Works, At
    <3>2. \A g : g = reqs'[r] => LogOK(p, n) /\ (g.pc = "idle" \/ LogFits(g, p, n))
      BY <1>1, <2>0, <2>1, <3>1, StepLogs
    <3>3. Works(r, t)' => reqs'[r].pc # "idle"
      BY DEF Works, At
    <3>4. x.status = "none" => row.status = "none" /\ p = q
      <4>1. Fits(reqs[r], row, clock) /\ OpOK(reqs[r])
        BY <3>1 DEF ApartInv, CopiesInv, AloneInv
      <4>2. CASE x = row
        BY <1>1, <4>1, <4>2, <3>1, <2>0 DEF Fits, StepEffect
      <4>3. CASE x # row
        BY <1>1, <2>4, <4>1, <4>3, RowChanges DEF SameStatus, IsFresh, Saving, Replied, OpOK, Fits
      <4> QED
        BY <4>2, <4>3
    <3> QED
      BY <2>0, <2>4, <3>2, <3>3, <3>4, NobodyElse
  <2>5. ASSUME Elsewhere(t)
        PROVE  Good(t, x, p, n)
    <3>1. ASSUME NEW r \in Requests, Works(r, t)', NEW g, g = reqs'[r]
          PROVE  LogFits(g, p, n)
      <4>1. LogFits(g, p, clock) /\ p \in Seq(Assignment) /\ g \in Handler
        BY <1>1, <2>0, <2>5, <3>1 DEF Elsewhere, LogInv, TypeInv, TypeOK
      <4> QED
        BY <1>1, <2>1, <4>1, LogLater
    <3> QED
      BY <1>1, <2>0, <2>2, <2>5, <3>1 DEF Elsewhere
  <2> QED
    BY <2>0, <2>3, <2>4, <2>5, ApartSteps
<1> QED
  BY <1>1 DEF LogInv, Works, At

LogApartInv == ApartInv /\ LogInv

LEMMA LogInvAlways == Spec => []LogApartInv
<1>1. Init => LogInv
  BY DEF Init, LogInv, LogOK, StartedBy, Works, At, Idle, Apart
<1>2. Init => LogApartInv
  BY <1>1, InitTypes, InitApart DEF LogApartInv, ApartInv
<1>3. LogApartInv /\ [Next]_vars => LogApartInv'
  BY NextTypes, NextAlone, NextCopies, NextLog DEF LogApartInv, ApartInv
<1> QED
  BY <1>2, <1>3, PTL DEF Spec

(* A ticket on which requests wait for each other has one assignee in its  *)
(* history at a time, and no entry ends before it starts, even where       *)
(* requests are cut short.                                                 *)
THEOREM OneActiveAssignmentAlways == Spec => []OneActiveAssignment
<1>1. LogApartInv => OneActiveAssignment
  BY DEF LogApartInv, LogInv, LogOK, OneActiveAssignment, IsActive
<1> QED
  BY <1>1, LogInvAlways, PTL

-------------------------------------------------------------------------------
(* Tickets on which, besides, no request is cut short                      *)

(* An assignee a reply takes for nobody matches whatever is active. *)
Matches(q, a) == a \in {Null} \union ZeroId \/ ActiveNames(q, a)

MatchFits(h, row, q) ==
  /\ h.pc \in {"answers", "resolveAdmin", "insertAnswer"} => Matches(q, row.assigned)
  /\ h.pc \in {"autoAssign", "history", "target", "insertAssignment", "saveOwn", "writeOwn"}
       => (h.op = "reply" => LooksUnassigned(h.copy))
  /\ h.pc \in {"save", "write"} => Matches(q, h.copy.assigned)

(* Between requests the assignee matches the active entry; a request that  *)
(* parts them carries what brings them together again.                     *)
MatchInv ==
  \A t \in Undisturbed :
    /\ (\A r \in Requests : ~Works(r, t)) => Matches(assignments[t], tickets[t].assigned)
    /\ \A r \in Requests : Works(r, t) => MatchFits(reqs[r], tickets[t], assignments[t])

LEMMA StepMatches ==
  ASSUME LogApartInv, TypeInv', NEW t \in Apart, NEW r \in Requests, GoesOn(r, t),
         MatchFits(reqs[r], tickets[t], assignments[t])
  PROVE  \A g, x, p : g = reqs'[r] /\ x = tickets'[t] /\ p = assignments'[t]
           => MatchFits(g, x, p) /\ (g.pc = "idle" => Matches(p, x.assigned))
<1> SUFFICES ASSUME NEW g, NEW x, NEW p, g = reqs'[r], x = tickets'[t], p = assignments'[t]
             PROVE  MatchFits(g, x, p) /\ (g.pc = "idle" => Matches(p, x.assigned))
  OBVIOUS
<1> PICK h, row, q : h = reqs[r] /\ row = tickets[t] /\ q = assignments[t]
  OBVIOUS
<1>1. /\ h \in Handler /\ HandlerOK(h) /\ h.copy \in TicketRow /\ h.own \in TicketRow
      /\ q \in Seq(Assignment) /\ row \in TicketRow /\ h.now \in Nat
  BY DEF LogApartInv, ApartInv, TypeInv, TypeOK, Handler, Apart
<1>2. /\ StepEffect(r, h, t, row) /\ Fits(h, row, clock) /\ LogFits(h, q, clock) /\ OpOK(h)
      /\ MatchFits(h, row, q) /\ h.pc # "idle"
  BY DEF GoesOn, LogApartInv, ApartInv, CopiesInv, LogInv, AloneInv, Works, At
<1>3. Idle.pc = "idle" /\ \A q1 : Matches(q1, Null)
  BY DEF Idle, Matches
<1>4. NoneActive(p) => \A a : Matches(p, a)
  BY DEF NoneActive, Matches, ActiveNames
<1>5. CASE h.pc = "insertTicket"
  <2>1. /\ p = q /\ x = h.copy /\ q = << >>
        /\ g = Idle \/ g.pc = "firstAssignment"
    BY <1>2, <1>5 DEF StepEffect, OneRow, Becomes, LogFits
  <2>2. NoneActive(p)
    BY <2>1 DEF NoneActive
  <2> QED
    BY <1>3, <1>4, <2>1, <2>2 DEF MatchFits
<1>6. CASE h.pc = "firstAssignment"
  <2>1. PICK e : e = [admin |-> h.copy.assigned, from |-> h.now, to |-> Null, by |-> Null]
    OBVIOUS
  <2>2. /\ g = Idle /\ p = Append(q, e) /\ x = row /\ row = h.copy
        /\ \A i \in DOMAIN q : FALSE
    BY <1>2, <1>6, <2>1 DEF StepEffect, OneHistory, Fits, LogFits
  <2>3. e \in Assignment /\ e.admin = h.copy.assigned /\ e.to = Null
    BY <1>1, <1>6, <2>1 DEF Assignment, TicketRow, HandlerOK, Null
  <2>4. LogOK(q, h.now) /\ NoneActive(q) /\ e.from <= h.now
    BY <1>1, <2>1, <2>2 DEF LogOK, NoneActive, StartedBy
  <2>5. ActiveNames(p, h.copy.assigned)
    BY <1>1, <2>2, <2>3, <2>4, Added
  <2> QED
    BY <1>3, <2>2, <2>5 DEF MatchFits, Matches
<1>7. CASE h.pc = "answers"
  <2>1. x = row /\ p = q /\ (g = Idle \/ (g.pc = "save" /\ g.copy = [h.copy EXCEPT !.seenAt = clock']))
    BY <1>2, <1>7 DEF StepEffect, storage, Becomes
  <2>2. Matches(q, row.assigned) /\ h.copy = row
    BY <1>2, <1>7 DEF MatchFits, Fits
  <2>3. g = Idle \/ (g.pc = "save" /\ g.copy.assigned = row.assigned)
    <3>1. ASSUME g.copy = [row EXCEPT !.seenAt = clock']
          PROVE  g.copy.assigned = row.assigned
      BY <1>1, <3>1, SeenFields
    <3> QED
      BY <2>1, <2>2, <3>1
  <2> QED
    BY <1>3, <2>1, <2>2, <2>3 DEF MatchFits
<1>8. CASE h.pc = "resolveAdmin"
  <2>1. x = row /\ p = q /\ g.pc = "insertAnswer"
    BY <1>2, <1>8 DEF StepEffect, storage, Becomes
  <2> QED
    BY <1>2, <1>8, <2>1 DEF MatchFits
<1>9. CASE h.pc = "insertAnswer"
  <2>1. /\ x = row /\ p = q
        /\ \/ g = Idle
           \/ g.pc = "save" /\ g.copy = TouchedBySeller(h.copy, h.now)
           \/ /\ g.pc = IF LooksUnassigned(h.copy) THEN "autoAssign" ELSE "save"
              /\ g.copy = TouchedByStaff(h.copy, h.now)
    BY <1>2, <1>9 DEF StepEffect, Becomes
  <2>2. Matches(q, row.assigned) /\ h.copy = row
    BY <1>2, <1>9 DEF MatchFits, Fits
  <2>3. g = Idle \/ g.copy.assigned = row.assigned
    BY <1>1, <2>1, <2>2, TouchedFields
  <2> QED
    BY <1>3, <2>1, <2>2, <2>3 DEF MatchFits, LooksUnassigned
<1>10. CASE h.pc \in {"autoAssign", "history", "insertAssignment", "saveOwn"}
  <2>1. g.pc \in {"history", "saveOwn", "target", "writeOwn"} /\ g.copy = h.copy /\ g.op = h.op
    BY <1>2, <1>10 DEF StepEffect, Becomes
  <2> QED
    BY <1>2, <1>10, <2>1 DEF MatchFits
<1>11. CASE h.pc = "target"
  <2>1. /\ p = q /\ NoneActive(q)
        /\ g = Idle \/ (g.pc \in {"insertAssignment", "save"} /\ g.copy = h.copy /\ g.op = h.op)
    BY <1>2, <1>11 DEF StepEffect, storage, Becomes, LogFits
  <2> QED
    BY <1>2, <1>3, <1>4, <1>11, <2>1 DEF MatchFits
<1>12. CASE h.pc = "save"
  <2>1. p = q /\ g.pc = "write" /\ g.copy = h.copy
    BY <1>2, <1>12 DEF StepEffect, storage, Becomes
  <2> QED
    BY <1>2, <1>12, <2>1 DEF MatchFits
<1>13. CASE h.pc = "writeOwn"
  <2>1. /\ p = q /\ ActiveNames(q, x.assigned)
        /\ g = Idle \/ (g.pc = "save" /\ g.copy = h.copy /\ h.op = "reply")
    <3>1. x.assigned = h.own.assigned
      BY <1>2, <1>13, RowChanges DEF LogApartInv
    <3> QED
      BY <1>2, <1>13, <3>1 DEF StepEffect, Becomes, LogFits
  <2>2. h.op = "reply" => Matches(q, h.copy.assigned)
    BY <1>2, <1>13 DEF MatchFits, Matches, LooksUnassigned
  <2> QED
    BY <1>3, <2>1, <2>2 DEF MatchFits, Matches
<1>14. CASE h.pc = "write"
  <2>1. p = q /\ g = Idle /\ x.assigned = h.copy.assigned
    BY <1>14, RowChanges DEF LogApartInv
  <2> QED
    BY <1>2, <1>3, <1>14, <2>1 DEF MatchFits
<1>15. h.pc \in {"idle", "answers", "insertTicket", "firstAssignment", "resolveAdmin",
                 "insertAnswer", "autoAssign", "history", "target", "insertAssignment",
                 "saveOwn", "writeOwn", "save", "write"}
  BY <1>1 DEF Handler
<1> QED
  BY <1>2, <1>5, <1>6, <1>7, <1>8, <1>9, <1>10, <1>11, <1>12, <1>13, <1>14, <1>15

LEMMA NextMatch ==
  ASSUME LogApartInv, TypeInv', MatchInv, [Next]_vars
  PROVE  MatchInv'
<1> DEFINE Good(t, x, p) ==
             /\ (\A r \in Requests : ~Works(r, t)') => Matches(p, x.assigned)
             /\ \A r \in Requests : Works(r, t)' => \A g : g = reqs'[r] => MatchFits(g, x, p)
<1>1. ASSUME NEW t \in Undisturbed, NEW x, NEW p, x = tickets'[t], p = assignments'[t]
      PROVE  Good(t, x, p)
  <2> PICK row, q : row = tickets[t] /\ q = assignments[t]
    OBVIOUS
  <2>0. t \in Apart /\ t \notin Faulty /\ TypeInv /\ AloneInv
    BY DEF Undisturbed, LogApartInv, ApartInv
  <2>1. ASSUME NEW r \in Requests, BeginsOn(r, t)
        PROVE  Good(t, x, p)
    <3>1. x = row /\ p = q /\ RequestEffect(r, t, row) /\ Matches(q, row.assigned)
      BY <1>1, <2>1 DEF BeginsOn, MatchInv
    <3>2. row \in TicketRow
      BY <2>0 DEF TypeInv, TypeOK, Apart
    <3>3. ASSUME NEW g, g = reqs'[r]
          PROVE  MatchFits(g, row, q) /\ g.pc # "idle"
      <4>1. \/ g.pc \in {"answers", "insertAnswer", "resolveAdmin", "insertTicket"}
            \/ g.pc = "history" /\ g.op = "assign"
            \/ /\ g.pc = "save"
               /\ \/ g.copy = Closed(row, clock') \/ g.copy = Reopened(row)
                  \/ \E a : g.copy = [Closed(row, clock') EXCEPT !.closedBy = a]
        BY <3>1, <3>3 DEF RequestEffect, Begins
      <4>2. ASSUME g.copy = Closed(row, clock') \/ g.copy = Reopened(row)
            PROVE  g.copy.assigned = row.assigned
        BY <3>2, <4>2, ClosedFields
      <4>3. ASSUME NEW a, g.copy = [Closed(row, clock') EXCEPT !.closedBy = a]
            PROVE  g.copy.assigned = row.assigned
        BY <3>2, <4>3, ClosedFields
      <4>4. g.pc = "save" => g.copy.assigned = row.assigned
        BY <4>1, <4>2, <4>3
      <4> QED
        BY <3>1, <4>1, <4>4 DEF MatchFits
    <3>4. Works(r, t)'
      BY <2>1, <3>3 DEF BeginsOn, Works, At
    <3> QED
      BY <2>0, <2>1, <3>1, <3>3, <3>4, NobodyElse
  <2>2. ASSUME NEW r \in Requests, GoesOn(r, t)
        PROVE  Good(t, x, p)
    <3>1. MatchFits(reqs[r], tickets[t], assignments[t])
      BY <2>2 DEF GoesOn, MatchInv
    <3>2. \A g : g = reqs'[r] => MatchFits(g, x, p) /\ (g.pc = "idle" => Matches(p, x.assigned))
      BY <1>1, <2>0, <2>2, <3>1, StepMatches
    <3>3. reqs'[r].pc = "idle" \/ Works(r, t)'
      BY <2>2 DEF GoesOn, Idle
    <3> QED
      BY <2>0, <2>2, <3>2, <3>3, NobodyElse
  <2>3. ASSUME Elsewhere(t)
        PROVE  Good(t, x, p)
    BY <1>1, <2>0, <2>3 DEF Elsewhere, MatchInv
  <2> QED
    BY <2>0, <2>1, <2>2, <2>3, ApartSteps
<1> QED
  BY <1>1 DEF MatchInv, Works, At

(* The assignee and the active entry of a ticket at rest name the same     *)
(* admin, if its requests wait for each other and none is cut short: the   *)
(* step back to an earlier assignee that staffReply takes with its old     *)
(* copy is harmless unless that assignee is the admin with id 0.           *)
THEOREM AssigneeMatchesActiveAlways == Spec => []AssigneeMatchesActive
<1>1. Init => LogApartInv /\ MatchInv
  <2>1. Init => LogInv
    BY DEF Init, LogInv, LogOK, StartedBy, Works, At, Idle, Apart
  <2>2. Init => MatchInv
    BY DEF Init, MatchInv, Matches, NoRow, Works, At, Idle, Undisturbed, Apart
  <2> QED
    BY <2>1, <2>2, InitTypes, InitApart DEF LogApartInv, ApartInv
<1>2. LogApartInv /\ MatchInv /\ [Next]_vars => (LogApartInv /\ MatchInv)'
  BY NextTypes, NextAlone, NextCopies, NextLog, NextMatch DEF LogApartInv, ApartInv
<1>3. MatchInv => AssigneeMatchesActive
  BY DEF MatchInv, AssigneeMatchesActive, Matches, ActiveNames, IsActive, Quiet, Works
<1> QED
  BY <1>1, <1>2, <1>3, PTL DEF Spec

-------------------------------------------------------------------------------
(* What the seller is told                                                 *)

UnseenIn(a, sent, t, i) ==
  /\ i \in DOMAIN a /\ a[i].side = "admin"
  /\ \A j \in DOMAIN a : j > i => a[j].side = "internal"
  /\ ~\E s \in Sellers : <<t, i>> \in sent[s]

AllSeen(a, sent, t) == \A i \in DOMAIN a : ~UnseenIn(a, sent, t, i)
Tells(a, sent, t, row) == AllSeen(a, sent, t) \/ IsUnreadForSeller(row)
LastFrom(a, side) == Len(a) \in DOMAIN a /\ a[Len(a)].side = side

(* The answer is in the thread, the row does not tell of it yet. *)
Posted(h) == h.op \in {"answer", "reply"} /\ h.pc \notin {"resolveAdmin", "insertAnswer"}

NewsFits(h, row, a, sent, t) ==
  /\ h.op = "view" => h.actor \in Sellers
  /\ h.op = "view" /\ h.pc \in {"save", "write"}
       => h.page = Len(a) /\ IsUnreadForSeller(row) /\ ~IsUnreadForSeller(h.copy)
  /\ h.op = "reply" /\ h.pc = "insertAnswer" => row.seenAt < h.now
  /\ Posted(h) /\ h.op = "answer" => LastFrom(a, "user")
  /\ Posted(h) /\ h.op = "reply" => LastFrom(a, "admin") /\ IsUnreadForSeller(h.copy)
  /\ ~Posted(h) => Tells(a, sent, t, row)

NewsInv ==
  \A t \in Undisturbed :
    /\ tickets[t].status = "none" => answers[t] = << >>
    /\ (\A r \in Requests : ~Works(r, t)) => Tells(answers[t], delivered, t, tickets[t])
    /\ \A r \in Requests : Works(r, t) => NewsFits(reqs[r], tickets[t], answers[t], delivered, t)

(* What is sent is seen, and an answer of the seller's leaves nothing      *)
(* unseen.                                                                 *)
LEMMA SentIsSeen ==
  ASSUME TypeInv, NEW r \in Requests, NEW t \in Tickets, reqs[r].ticket = t,
         reqs[r].actor \in Sellers, NEW a, a = answers[t], Deliver(r, Len(a))
  PROVE  \A sent : sent = delivered' => AllSeen(a, sent, t)
<1> SUFFICES ASSUME NEW sent, sent = delivered', NEW i \in DOMAIN a, UnseenIn(a, sent, t, i)
             PROVE  FALSE
  BY DEF AllSeen
<1>1. a \in Seq(Answer) /\ delivered \in [Sellers -> SUBSET (Tickets \X Nat)]
  BY DEF TypeInv, TypeOK
<1>2. i \in 1..Len(a) /\ i <= Len(a)
  BY <1>1
<1>3. i \in PublicAnswers(t, Len(a))
  BY <1>2 DEF UnseenIn, PublicAnswers
<1>4. PICK s : s = reqs[r].actor
  OBVIOUS
<1>5. sent[s] = delivered[s] \union {<<t, j>> : j \in PublicAnswers(t, Len(a))}
  BY <1>1, <1>4 DEF Deliver
<1>6. <<t, i>> \in sent[s]
  BY <1>3, <1>5
<1> QED
  BY <1>4, <1>6 DEF UnseenIn

LEMMA AnsweredIsSeen ==
  ASSUME NEW a \in Seq(Answer), LastFrom(a, "user"), NEW sent, NEW t
  PROVE  AllSeen(a, sent, t)
<1> SUFFICES ASSUME NEW i \in DOMAIN a, UnseenIn(a, sent, t, i)
             PROVE  FALSE
  BY DEF AllSeen
<1>1. i \in Nat /\ Len(a) \in Nat /\ i <= Len(a)
  OBVIOUS
<1>2. i = Len(a) \/ Len(a) > i
  BY <1>1
<1> QED
  BY <1>2 DEF UnseenIn, LastFrom

(* A note hides nothing. *)
LEMMA NoteHidesNothing ==
  ASSUME NEW a \in Seq(Answer), NEW e \in Answer, e.side = "internal", NEW b, b = Append(a, e),
         NEW sent, NEW t, AllSeen(a, sent, t)
  PROVE  AllSeen(b, sent, t)
<1> SUFFICES ASSUME NEW i \in DOMAIN b, UnseenIn(b, sent, t, i)
             PROVE  FALSE
  BY DEF AllSeen
<1>1. DOMAIN b = 1..(Len(a) + 1) /\ DOMAIN a = 1..Len(a) /\ Len(a) \in Nat
  OBVIOUS
<1>2. b[Len(a) + 1] = e /\ \A j \in DOMAIN a : b[j] = a[j]
  OBVIOUS
<1>3. i # Len(a) + 1
  BY <1>2 DEF UnseenIn
<1>4. i \in DOMAIN a
  BY <1>1, <1>3
<1>5. UnseenIn(a, sent, t, i)
  BY <1>1, <1>2, <1>4 DEF UnseenIn
<1> QED
  BY <1>4, <1>5 DEF AllSeen

LEMMA PostIsLast ==
  ASSUME NEW a \in Seq(Answer), NEW e \in Answer, NEW b, b = Append(a, e)
  PROVE  LastFrom(b, e.side)
<1>1. Len(b) = Len(a) + 1 /\ Len(a) \in Nat /\ DOMAIN b = 1..Len(b) /\ b[Len(a) + 1] = e
  OBVIOUS
<1> QED
  BY <1>1 DEF LastFrom

LEMMA SameBadge ==
  ASSUME NEW x, NEW y, SameTalk(x, y)
  PROVE  IsUnreadForSeller(x) <=> IsUnreadForSeller(y)
BY DEF SameTalk, IsUnreadForSeller

LEMMA StepNews ==
  ASSUME ApartInv, TypeInv', 0 \notin Elapse, clock <= clock', NEW t \in Apart,
         NEW r \in Requests, GoesOn(r, t), NewsFits(reqs[r], tickets[t], answers[t], delivered, t),
         tickets[t].status = "none" => answers[t] = << >>
  PROVE  \A g, x, b, sent : g = reqs'[r] /\ x = tickets'[t] /\ b = answers'[t] /\ sent = delivered'
           => /\ x.status = "none" => b = << >>
              /\ g.pc = "idle" => Tells(b, sent, t, x)
              /\ g.pc # "idle" => NewsFits(g, x, b, sent, t)
<1> SUFFICES ASSUME NEW g, NEW x, NEW b, NEW sent,
                    g = reqs'[r], x = tickets'[t], b = answers'[t], sent = delivered'
             PROVE  /\ x.status = "none" => b = << >>
                    /\ g.pc = "idle" => Tells(b, sent, t, x)
                    /\ g.pc # "idle" => NewsFits(g, x, b, sent, t)
  OBVIOUS
<1> PICK h, row, a, old, c, n :
      /\ h = reqs[r] /\ row = tickets[t] /\ a = answers[t] /\ old = delivered
      /\ c = clock /\ n = clock'
  OBVIOUS
<1>1. /\ h \in Handler /\ HandlerOK(h) /\ h.copy \in TicketRow /\ a \in Seq(Answer) /\ b \in Seq(Answer)
      /\ row \in TicketRow /\ h.now \in Nat /\ TypeInv /\ h.ticket = t /\ c \in Nat /\ n \in Nat
      /\ TypeOK /\ t \in Tickets /\ g \in Handler
  BY DEF ApartInv, TypeInv, TypeOK, Handler, Apart, GoesOn, Works
<1>2. /\ StepEffect(r, h, t, row) /\ Fits(h, row, c) /\ OpOK(h) /\ RowOK(row, c)
      /\ NewsFits(h, row, a, old, t) /\ h.pc # "idle" /\ (row.status = "none" => a = << >>)
  BY DEF GoesOn, ApartInv, CopiesInv, AloneInv, Works, At
<1>3. Idle.pc = "idle" /\ row.lastAt \in Nat /\ row.seenAt \in Nat
  BY <1>1 DEF Idle, TicketRow
<1>4. CASE h.pc = "insertTicket"
  <2>1. /\ x = h.copy /\ b = a /\ sent = old /\ a = << >> /\ x.status = "open"
        /\ g = Idle \/ (g.pc = "firstAssignment" /\ g.op = h.op /\ h.op = "create")
    BY <1>2, <1>4 DEF StepEffect, OneRow, Becomes, Fits, IsFresh, NoRow, OpOK
  <2>2. AllSeen(b, sent, t)
    BY <2>1 DEF AllSeen
  <2> QED
    BY <1>3, <2>1, <2>2 DEF NewsFits, Posted, Tells
<1>5. CASE h.pc = "answers"
  <2>1. /\ x = row /\ b = a /\ h.op = "view" /\ h.copy = row /\ h.actor \in Sellers
        /\ row.status # "none"
    BY <1>2, <1>5 DEF StepEffect, storage, OpOK, Fits, NewsFits
  <2>2. CASE g = Idle /\ Deliver(r, Len(a))
    <3>1. AllSeen(b, sent, t)
      BY <1>1, <2>1, <2>2, SentIsSeen
    <3> QED
      BY <1>3, <2>1, <2>2, <3>1 DEF Tells
  <2>3. CASE IsUnreadForSeller(row) /\ sent = old /\ g.pc = "save" /\ g.op = h.op /\ g.actor = h.actor
             /\ g.copy = [row EXCEPT !.seenAt = n] /\ g.page = Len(a)
    <3>1. g.copy.seenAt = n /\ g.copy.lastAt = row.lastAt
      BY <1>1, <2>3, SeenFields
    <3>2. row.lastAt <= c /\ c <= n
      BY <1>2 DEF RowOK
    <3>3. ~IsUnreadForSeller(g.copy)
      BY <1>1, <1>3, <3>1, <3>2 DEF IsUnreadForSeller
    <3> QED
      BY <1>2, <1>3, <2>1, <2>3, <3>3 DEF NewsFits, Posted, Tells
  <2> QED
    BY <1>2, <1>5, <2>1, <2>2, <2>3 DEF StepEffect, Becomes
<1>6. CASE h.pc = "resolveAdmin"
  <2>1. /\ x = row /\ b = a /\ sent = old /\ g.pc = "insertAnswer" /\ g.op = h.op
        /\ \/ h.op = "reply" /\ g.now = n /\ n \in Instants
           \/ h.op = "note"
    BY <1>2, <1>6 DEF StepEffect, storage, Becomes, TakesNow
  <2>2. ASSUME h.op = "reply" PROVE c < n
    <3>1. PICK d \in Elapse : n = c + d
      BY <2>1, <2>2 DEF Instants
    <3> QED
      BY <1>1, <3>1, ElapseIsTime
  <2>3. Tells(a, old, t, row) /\ (h.op = "reply" => row.seenAt < n)
    BY <1>1, <1>2, <1>3, <1>6, <2>2 DEF RowOK, NewsFits, Posted
  <2> QED
    BY <1>2, <2>1, <2>3 DEF NewsFits, Posted
<1>7. CASE h.pc = "insertAnswer"
  <2>1. PICK e : /\ x = row /\ b = Append(a, e) /\ sent = old /\ e \in Answer /\ row.status # "none"
                 /\ \/ h.op = "answer" /\ e.side = "user" /\ g.pc = "save" /\ g.op = h.op
                    \/ h.op = "reply" /\ e.side = "admin" /\ g.op = h.op
                         /\ g.copy = TouchedByStaff(row, h.now) /\ g.pc \in {"save", "autoAssign"}
                    \/ h.op = "note" /\ e.side = "internal" /\ g = Idle
    <3>1. PICK side : /\ b = Append(a, [side |-> side, at |-> clock]) /\ x = row /\ sent = old
                      /\ \/ h.op = "answer" /\ side = "user" /\ g.pc = "save" /\ g.op = h.op
                         \/ h.op = "reply" /\ side = "admin" /\ g.op = h.op
                              /\ g.copy = TouchedByStaff(h.copy, h.now) /\ g.pc \in {"save", "autoAssign"}
                         \/ h.op = "note" /\ side = "internal" /\ g = Idle
      BY <1>2, <1>7 DEF StepEffect, OneThread, Becomes
    <3>2. PICK e : e = [side |-> side, at |-> clock]
      OBVIOUS
    <3>3. e \in Answer /\ e.side = side
      BY <1>1, <3>1, <3>2 DEF Answer
    <3>4. h.copy = row /\ row.status # "none"
      BY <1>2, <1>7 DEF Fits
    <3> QED
      BY <3>1, <3>2, <3>3, <3>4
  <2>2. LastFrom(b, e.side)
    BY <1>1, <2>1, PostIsLast
  <2>3. CASE h.op = "answer"
    BY <1>2, <2>1, <2>2, <2>3 DEF NewsFits, Posted
  <2>4. CASE h.op = "reply"
    <3>1. row.seenAt < h.now
      BY <1>2, <1>7, <2>4 DEF NewsFits
    <3>2. g.copy = TouchedByStaff(row, h.now) /\ row \in TicketRow
      BY <1>1, <2>1, <2>4
    <3>4. /\ g.copy.lastAt = h.now /\ g.copy.lastSide = "admin" /\ g.copy.seenAt = row.seenAt
      <4> PICK y, m : y = g.copy /\ m = h.now
        OBVIOUS
      <4>1. y = TouchedByStaff(row, m)
        BY <3>2
      <4>2. y.lastAt = m /\ y.lastSide = "admin" /\ y.seenAt = row.seenAt
        BY <3>2, <4>1, TouchedFields, SMTT(30)
      <4> QED
        BY <4>2
    <3>3. IsUnreadForSeller(g.copy)
      BY <1>1, <1>3, <3>1, <3>4 DEF IsUnreadForSeller
    <3> QED
      BY <1>2, <2>1, <2>2, <2>4, <3>3 DEF NewsFits, Posted
  <2>5. CASE h.op = "note"
    <3>1. Tells(a, old, t, row)
      BY <1>2, <2>5 DEF NewsFits, Posted
    <3>2. Tells(b, sent, t, x)
      BY <1>1, <2>1, <2>5, <3>1, NoteHidesNothing DEF Tells
    <3> QED
      BY <1>3, <2>1, <2>5, <3>2
  <2> QED
    BY <2>1, <2>3, <2>4, <2>5
<1>8. CASE h.pc \in {"autoAssign", "history", "target", "insertAssignment", "firstAssignment", "saveOwn", "writeOwn"}
  <2>1. /\ b = a /\ sent = old /\ row.status # "none" /\ h.op \in {"create", "reply", "assign"}
        /\ x = row \/ (SameTalk(x, row) /\ SameStatus(x, row))
        /\ \/ g = Idle /\ h.op # "reply"
           \/ /\ g.pc \in {"history", "target", "insertAssignment", "saveOwn", "writeOwn", "save"}
              /\ g.op = h.op /\ g.copy = h.copy
    <3>1. x = row \/ (SameTalk(x, row) /\ SameStatus(x, row))
      BY <1>8, RowChanges
    <3>2. b = a /\ sent = old
      BY <1>2, <1>8 DEF StepEffect, storage
    <3>3. \/ g = Idle /\ h.op # "reply"
          \/ /\ g.pc \in {"history", "target", "insertAssignment", "saveOwn", "writeOwn", "save"}
             /\ g.op = h.op /\ g.copy = h.copy
      BY <1>2, <1>8 DEF StepEffect, Becomes, OpOK
    <3> QED
      BY <1>2, <1>8, <3>1, <3>2, <3>3 DEF Fits, OpOK
  <2>2. IsUnreadForSeller(x) <=> IsUnreadForSeller(row)
    BY <2>1, SameBadge
  <2>3. x.status = row.status
    BY <2>1 DEF SameStatus
  <2>4. CASE h.op = "reply"
    BY <1>2, <1>3, <1>8, <2>1, <2>3, <2>4 DEF NewsFits, Posted
  <2>5. CASE h.op # "reply"
    BY <1>2, <1>3, <1>8, <2>1, <2>2, <2>3, <2>5 DEF NewsFits, Posted, Tells
  <2> QED
    BY <2>4, <2>5
<1>9. CASE h.pc = "save"
  <2>1. /\ x = row /\ b = a /\ sent = old /\ g.pc = "write" /\ g.op = h.op /\ g.copy = h.copy
        /\ g.actor = h.actor /\ g.page = h.page /\ row.status # "none"
    BY <1>2, <1>9 DEF StepEffect, storage, Becomes, Fits
  <2> QED
    BY <1>2, <1>9, <2>1 DEF NewsFits, Posted
<1>10. CASE h.pc = "write"
  <2>1. /\ b = a /\ g = Idle /\ SameTalk(x, h.copy) /\ SameStatus(x, h.copy)
        /\ Saving(h.op, h.copy, row) /\ row.status # "none"
        /\ (h.op = "view" /\ Deliver(r, h.page)) \/ (h.op # "view" /\ sent = old)
        /\ h.op \in {"view", "answer", "reply", "close", "closeBySeller", "reopen", "reopenBySeller"}
    <3>1. /\ g = Idle /\ SameTalk(x, h.copy) /\ SameStatus(x, h.copy) /\ Saving(h.op, h.copy, row)
      BY <1>10, RowChanges
    <3> QED
      BY <1>2, <1>10, <3>1 DEF StepEffect, Fits, OpOK
  <2>2. x.status # "none"
    BY <2>1 DEF Saving, Replied, SameStatus
  <2>3. CASE h.op = "view"
    <3>1. AllSeen(b, sent, t)
      BY <1>1, <1>2, <1>10, <2>1, <2>3, SentIsSeen DEF NewsFits
    <3> QED
      BY <1>3, <2>1, <2>2, <3>1 DEF Tells
  <2>4. CASE h.op = "answer"
    <3>1. AllSeen(b, sent, t)
      BY <1>1, <1>2, <1>10, <2>1, <2>4, AnsweredIsSeen DEF NewsFits, Posted
    <3> QED
      BY <1>3, <2>1, <2>2, <3>1 DEF Tells
  <2>5. CASE h.op = "reply"
    <3>1. IsUnreadForSeller(x)
      BY <1>2, <1>10, <2>1, <2>5, SameBadge DEF NewsFits, Posted
    <3> QED
      BY <1>3, <2>1, <2>2, <3>1 DEF Tells
  <2>6. CASE h.op \in {"close", "closeBySeller", "reopen", "reopenBySeller"}
    <3>1. SameTalk(x, row) /\ Tells(a, old, t, row)
      BY <1>2, <1>10, <2>1, <2>6 DEF NewsFits, Posted, Saving, SameTalk
    <3>2. Tells(b, sent, t, x)
      BY <2>1, <2>6, <3>1, SameBadge DEF Tells
    <3> QED
      BY <1>3, <2>1, <2>2, <3>2
  <2> QED
    BY <2>1, <2>3, <2>4, <2>5, <2>6
<1>11. h.pc \in {"idle", "answers", "insertTicket", "firstAssignment", "resolveAdmin",
                 "insertAnswer", "autoAssign", "history", "target", "insertAssignment",
                 "saveOwn", "writeOwn", "save", "write"}
  BY <1>1 DEF Handler
<1> QED
  BY <1>2, <1>4, <1>5, <1>6, <1>7, <1>8, <1>9, <1>10, <1>11

LEMMA NextNews ==
  ASSUME ApartInv, TypeInv', NewsInv, 0 \notin Elapse, [Next]_vars
  PROVE  NewsInv'
<1> DEFINE Good(t, x, b, sent) ==
             /\ x.status = "none" => b = << >>
             /\ (\A r \in Requests : ~Works(r, t)') => Tells(b, sent, t, x)
             /\ \A r \in Requests : Works(r, t)' => \A g : g = reqs'[r] => NewsFits(g, x, b, sent, t)
<1>1. ASSUME NEW t \in Undisturbed, NEW x, NEW b, NEW sent,
             x = tickets'[t], b = answers'[t], sent = delivered'
      PROVE  Good(t, x, b, sent)
  <2> PICK row, a, old : row = tickets[t] /\ a = answers[t] /\ old = delivered
    OBVIOUS
  <2>0. /\ t \in Apart /\ t \notin Faulty /\ TypeInv /\ AloneInv /\ clock <= clock'
        /\ row.status = "none" => a = << >>
    BY NextClock DEF Undisturbed, ApartInv, NewsInv
  <2>1. ASSUME NEW r \in Requests, BeginsOn(r, t)
        PROVE  Good(t, x, b, sent)
    <3>1. x = row /\ b = a /\ sent = old /\ RequestEffect(r, t, row) /\ Tells(a, old, t, row)
      BY <1>1, <2>1 DEF BeginsOn, NewsInv
    <3>2. ASSUME NEW g, g = reqs'[r]
          PROVE  NewsFits(g, row, a, old, t) /\ g.pc # "idle"
      BY <3>1, <3>2 DEF RequestEffect, Begins, NewsFits, Posted
    <3>3. Works(r, t)'
      BY <2>1, <3>2 DEF BeginsOn, Works, At
    <3> QED
      BY <2>0, <2>1, <3>1, <3>2, <3>3, NobodyElse
  <2>2. ASSUME NEW r \in Requests, GoesOn(r, t)
        PROVE  Good(t, x, b, sent)
    <3>1. NewsFits(reqs[r], tickets[t], answers[t], delivered, t)
      BY <2>2 DEF GoesOn, NewsInv
    <3>2. /\ x.status = "none" => b = << >>
          /\ \A g : g = reqs'[r] => /\ g.pc = "idle" => Tells(b, sent, t, x)
                                    /\ g.pc # "idle" => NewsFits(g, x, b, sent, t)
      BY <1>1, <2>0, <2>2, <3>1, StepNews
    <3>3. reqs'[r].pc = "idle" \/ Works(r, t)'
      BY <2>2 DEF GoesOn, Idle
    <3> QED
      BY <2>0, <2>2, <3>2, <3>3, NobodyElse DEF Works, At
  <2>3. ASSUME Elsewhere(t)
        PROVE  Good(t, x, b, sent)
    <3>1. x = row /\ b = a /\ \A s \in Sellers, i \in Nat : <<t, i>> \in sent[s] <=> <<t, i>> \in old[s]
      BY <1>1, <2>3 DEF Elsewhere
    <3>2. a \in Seq(Answer)
      BY <2>0 DEF TypeInv, TypeOK, Apart
    <3>3. \A i \in DOMAIN a : i \in Nat
      BY <3>2
    <3>4. AllSeen(a, old, t) <=> AllSeen(a, sent, t)
      BY <3>1, <3>3 DEF AllSeen, UnseenIn
    <3>5. Tells(a, old, t, row) <=> Tells(b, sent, t, x)
      BY <3>1, <3>4 DEF Tells
    <3>6. \A g : NewsFits(g, row, a, old, t) <=> NewsFits(g, x, b, sent, t)
      BY <3>1, <3>5 DEF NewsFits
    <3>7. /\ \A r \in Requests : Works(r, t)' => Works(r, t) /\ reqs'[r] = reqs[r]
          /\ \A r \in Requests : Works(r, t) => Works(r, t)'
      BY <2>0, <2>3 DEF Elsewhere
    <3>8. ASSUME \A r \in Requests : ~Works(r, t)'
          PROVE  Tells(b, sent, t, x)
      BY <3>5, <3>7, <3>8 DEF NewsInv
    <3>9. ASSUME NEW r \in Requests, Works(r, t)'
          PROVE  \A g : g = reqs'[r] => NewsFits(g, x, b, sent, t)
      BY <3>6, <3>7, <3>9 DEF NewsInv
    <3> QED
      BY <2>0, <3>1, <3>8, <3>9
  <2> QED
    BY <2>0, <2>1, <2>2, <2>3, ApartSteps
<1> QED
  BY <1>1 DEF NewsInv, Works, At

NewsApartInv == ApartInv /\ NewsInv

LEMMA InitNews == Init => NewsApartInv
<1>1. Init => NewsInv
  <2> SUFFICES ASSUME Init, NEW t \in Undisturbed
               PROVE  /\ answers[t] = << >>
                      /\ \A r \in Requests : ~Works(r, t)
    BY DEF NewsInv, Tells, AllSeen
  <2> QED
    BY DEF Init, Works, At, Idle, Undisturbed, Apart
<1> QED
  BY <1>1, InitTypes, InitApart DEF NewsApartInv, ApartInv

(* The read cursor serves the badge: on a ticket at rest whose requests    *)
(* wait for each other and run to their end, the newest public answer is   *)
(* either one its seller has been sent or wrote, or the ticket is unread,  *)
(* given that two time stamps are never the same. With equal time stamps   *)
(* a view just before a reply would hide it.                               *)
THEOREM UnseenReplyIsUnreadAlways ==
  ASSUME 0 \notin Elapse
  PROVE  Spec => []UnseenReplyIsUnread
<1>1. NewsApartInv /\ [Next]_vars => NewsApartInv'
  BY NextTypes, NextAlone, NextCopies, NextNews DEF NewsApartInv, ApartInv
<1>2. NewsApartInv => UnseenReplyIsUnread
  BY DEF NewsApartInv, NewsInv, Tells, AllSeen, UnseenIn, UnseenReplyIsUnread, UnseenReply, Shown,
         Quiet, Works
<1> QED
  BY <1>1, <1>2, InitNews, PTL DEF Spec

-------------------------------------------------------------------------------
(* The atomic desk. Where the thread of a ticket stands for TicketDesk: the*)
(* sides of its first k answers.                                           *)

Sides == {"user", "admin", "internal"}
Settled(a, k) == [i \in 1..k |-> a[i].side]
SettledLen(a, posted) == IF posted THEN Len(a) - 1 ELSE Len(a)

(* A step of TicketDesk on one ticket, or none.                            *)
Turn(s, th, bd, s1, th1, bd1) ==
  \/ s1 = s /\ th1 = th /\ (bd1 <=> bd)
  \/ s = "none" /\ s1 = "open" /\ th1 = th /\ (bd1 <=> bd)
  \/ s = "open" /\ s1 = s /\ th1 = Append(th, "user") /\ ~bd1
  \/ s = "open" /\ s1 = s /\ th1 = Append(th, "admin") /\ bd1
  \/ s # "none" /\ s1 = s /\ th1 = Append(th, "internal") /\ (bd1 <=> bd)
  \/ bd /\ ~bd1 /\ s1 = s /\ th1 = th
  \/ s = "open" /\ s1 = "closed" /\ th1 = th /\ (bd1 <=> bd)
  \/ s = "closed" /\ s1 = "open" /\ th1 = th /\ (bd1 <=> bd)

LEMMA SettledType ==
  ASSUME NEW a \in Seq(Answer), NEW k \in Nat, k <= Len(a)
  PROVE  /\ Settled(a, k) \in Seq(Sides) /\ Len(Settled(a, k)) = k
         /\ \A i \in 1..k : Settled(a, k)[i] = a[i].side
<1>1. \A i \in 1..k : i \in 1..Len(a) /\ a[i] \in Answer
  OBVIOUS
<1>2. \A i \in 1..k : Settled(a, k)[i] = a[i].side /\ a[i].side \in Sides
  BY <1>1 DEF Settled, Answer, Sides
<1>3. Settled(a, k) \in [1..k -> Sides]
  BY <1>2 DEF Settled
<1>4. Settled(a, k) \in Seq(Sides)
  BY <1>3, SeqDef
<1>5. DOMAIN Settled(a, k) = 1..k
  BY DEF Settled
<1> QED
  BY <1>2, <1>4, <1>5, LenProperties

(* The answer at the end of a thread joins the settled part of it. *)
LEMMA LastSettles ==
  ASSUME NEW a \in Seq(Answer), NEW side \in Sides, LastFrom(a, side)
  PROVE  Settled(a, Len(a)) = Append(Settled(a, Len(a) - 1), side)
<1>1. Len(a) \in Nat /\ Len(a) - 1 \in Nat /\ Len(a) - 1 <= Len(a) /\ a[Len(a)].side = side
  BY DEF LastFrom
<1> PICK k : k = Len(a) - 1
  OBVIOUS
<1> DEFINE th == Settled(a, k)
           th1 == Settled(a, k + 1)
<1>2. k \in Nat /\ Len(a) = k + 1 /\ k + 1 \in Nat /\ k <= Len(a) /\ k + 1 <= Len(a)
  BY <1>1
<1>3. th \in Seq(Sides) /\ Len(th) = k /\ \A i \in 1..k : th[i] = a[i].side
  BY <1>2, SettledType
<1>4. th1 \in Seq(Sides) /\ Len(th1) = k + 1 /\ \A i \in 1..(k + 1) : th1[i] = a[i].side
  BY <1>2, SettledType
<1>5. /\ Append(th, side) \in Seq(Sides) /\ Len(Append(th, side)) = k + 1
      /\ \A i \in 1..k : Append(th, side)[i] = th[i]
      /\ Append(th, side)[k + 1] = side
  BY <1>3, AppendProperties
<1>6. \A i \in 1..(k + 1) : th1[i] = Append(th, side)[i]
  <2>1. \A i \in 1..(k + 1) : i \in 1..k \/ i = k + 1
    BY <1>2
  <2>2. a[k + 1].side = side /\ k + 1 \in 1..(k + 1)
    BY <1>1, <1>2
  <2> QED
    BY <1>3, <1>4, <1>5, <2>1, <2>2
<1>7. th1 = Append(th, side)
  BY <1>4, <1>5, <1>6, SeqEqual
<1> QED
  BY <1>2, <1>7

(* An answer that is not settled yet changes nothing. *)
LEMMA PostUnsettled ==
  ASSUME NEW a \in Seq(Answer), NEW e \in Answer, NEW b, b = Append(a, e)
  PROVE  /\ b \in Seq(Answer) /\ Len(b) = Len(a) + 1 /\ Settled(b, Len(b) - 1) = Settled(a, Len(a))
         /\ Settled(b, Len(b)) = Append(Settled(a, Len(a)), e.side)
<1>1. /\ b \in Seq(Answer) /\ Len(b) = Len(a) + 1 /\ Len(a) \in Nat /\ Len(b) - 1 = Len(a)
      /\ \A i \in 1..Len(a) : b[i] = a[i]
  OBVIOUS
<1>2. Settled(b, Len(a)) = Settled(a, Len(a))
  BY <1>1 DEF Settled
<1>3. LastFrom(b, e.side) /\ e.side \in Sides
  BY PostIsLast DEF Answer, Sides
<1>4. Settled(b, Len(b)) = Append(Settled(b, Len(b) - 1), e.side)
  BY <1>1, <1>3, LastSettles
<1> QED
  BY <1>1, <1>2, <1>4

(* Each step of a request is a step of the desk on its ticket, or none. *)
LEMMA StepTurns ==
  ASSUME ApartInv, TypeInv', 0 \notin Elapse, clock <= clock', NEW t \in Apart,
         NEW r \in Requests, GoesOn(r, t), NewsFits(reqs[r], tickets[t], answers[t], delivered, t)
  PROVE  \A h, g, row, x, a, b :
           /\ h = reqs[r] /\ row = tickets[t] /\ a = answers[t]
           /\ g = reqs'[r] /\ x = tickets'[t] /\ b = answers'[t]
           => Turn(row.status, Settled(a, SettledLen(a, Posted(h))), IsUnreadForSeller(row),
                   x.status, Settled(b, SettledLen(b, g # Idle /\ Posted(g))), IsUnreadForSeller(x))
<1> SUFFICES ASSUME NEW h, NEW g, NEW row, NEW x, NEW a, NEW b,
                    h = reqs[r], row = tickets[t], a = answers[t],
                    g = reqs'[r], x = tickets'[t], b = answers'[t]
             PROVE  Turn(row.status, Settled(a, SettledLen(a, Posted(h))), IsUnreadForSeller(row),
                         x.status, Settled(b, SettledLen(b, g # Idle /\ Posted(g))), IsUnreadForSeller(x))
  OBVIOUS
<1> PICK old, c, n : old = delivered /\ c = clock /\ n = clock'
  OBVIOUS
<1>1. /\ h \in Handler /\ HandlerOK(h) /\ h.copy \in TicketRow /\ a \in Seq(Answer) /\ b \in Seq(Answer)
      /\ row \in TicketRow /\ h.now \in Nat /\ TypeInv /\ h.ticket = t /\ c \in Nat /\ n \in Nat
      /\ TypeOK /\ t \in Tickets
  BY DEF ApartInv, TypeInv, TypeOK, Handler, Apart, GoesOn, Works
<1>2. /\ StepEffect(r, h, t, row) /\ Fits(h, row, c) /\ OpOK(h) /\ RowOK(row, c)
      /\ NewsFits(h, row, a, old, t) /\ h.pc # "idle"
  BY DEF GoesOn, ApartInv, CopiesInv, AloneInv, Works, At
<1>3. Idle.pc = "idle" /\ ~Posted(Idle) /\ row.status \in {"none", "open", "closed"}
  BY <1>1 DEF Idle, Posted, TicketRow
<1>q. ASSUME x = row \/ (SameTalk(x, row) /\ SameStatus(x, row)), b = a,
             Posted(h) <=> g # Idle /\ Posted(g)
      PROVE  Turn(row.status, Settled(a, SettledLen(a, Posted(h))), IsUnreadForSeller(row),
                  x.status, Settled(b, SettledLen(b, g # Idle /\ Posted(g))), IsUnreadForSeller(x))
  BY <1>q, SameBadge DEF Turn, SameStatus, SettledLen
<1>4. CASE h.pc = "insertTicket"
  <2>1. /\ x = h.copy /\ b = a /\ IsFresh(x) /\ row = NoRow /\ h.op = "create"
        /\ g = Idle \/ g.op = h.op
    BY <1>2, <1>4 DEF StepEffect, OneRow, Becomes, Fits, OpOK
  <2>2. ~IsUnreadForSeller(row) /\ ~IsUnreadForSeller(x) /\ row.status = "none" /\ x.status = "open"
    BY <2>1 DEF IsFresh, NoRow, IsUnreadForSeller
  <2>3. ~Posted(h) /\ ~(g # Idle /\ Posted(g))
    BY <2>1 DEF Posted
  <2> QED
    BY <2>1, <2>2, <2>3 DEF Turn, SettledLen
<1>5. CASE h.pc \in {"answers", "resolveAdmin", "save"}
  <2>1. x = row /\ b = a
    BY <1>2, <1>5 DEF StepEffect, storage
  <2>2. Posted(h) <=> g # Idle /\ Posted(g)
    BY <1>2, <1>3, <1>5 DEF StepEffect, Becomes, Posted, OpOK
  <2> QED
    BY <1>q, <2>1, <2>2
<1>7. CASE h.pc = "insertAnswer"
  <2>1. PICK e : /\ x = row /\ b = Append(a, e) /\ e \in Answer /\ row.status # "none"
                 /\ \/ h.op \in {"answer", "reply"} /\ g.op = h.op /\ g.pc \in {"save", "autoAssign"}
                    \/ h.op = "note" /\ e.side = "internal" /\ g = Idle
    <3>1. PICK side : /\ b = Append(a, [side |-> side, at |-> clock]) /\ x = row
                      /\ \/ /\ h.op \in {"answer", "reply"} /\ side \in {"user", "admin"}
                            /\ g.op = h.op /\ g.pc \in {"save", "autoAssign"}
                         \/ h.op = "note" /\ side = "internal" /\ g = Idle
      BY <1>2, <1>7 DEF StepEffect, OneThread, Becomes
    <3>2. PICK e : e = [side |-> side, at |-> clock]
      OBVIOUS
    <3>3. e \in Answer /\ e.side = side
      BY <1>1, <3>1, <3>2 DEF Answer
    <3>4. row.status # "none"
      BY <1>2, <1>7 DEF Fits
    <3> QED
      BY <3>1, <3>2, <3>3, <3>4
  <2>2. /\ Settled(b, Len(b) - 1) = Settled(a, Len(a))
        /\ Settled(b, Len(b)) = Append(Settled(a, Len(a)), e.side)
    BY <1>1, <2>1, PostUnsettled
  <2>3. ~Posted(h)
    BY <1>7 DEF Posted
  <2>4. CASE h.op = "note"
    <3>1. ~(g # Idle /\ Posted(g)) /\ e.side = "internal"
      BY <2>1, <2>4
    <3> QED
      BY <2>1, <2>2, <2>3, <3>1 DEF Turn, SettledLen
  <2>5. CASE h.op \in {"answer", "reply"}
    <3>1. g # Idle /\ Posted(g)
      BY <1>3, <2>1, <2>5 DEF Posted
    <3> QED
      BY <2>1, <2>2, <2>3, <3>1 DEF Turn, SettledLen
  <2> QED
    BY <2>1, <2>4, <2>5
<1>8. CASE h.pc \in {"autoAssign", "history", "target", "insertAssignment", "firstAssignment", "saveOwn", "writeOwn"}
  <2>1. x = row \/ (SameTalk(x, row) /\ SameStatus(x, row))
    BY <1>8, RowChanges
  <2>2. b = a
    BY <1>2, <1>8 DEF StepEffect, storage
  <2>3. \/ g = Idle /\ h.op # "reply"
        \/ /\ g.pc \in {"history", "target", "insertAssignment", "saveOwn", "writeOwn", "save"}
           /\ g.op = h.op
    BY <1>2, <1>8 DEF StepEffect, Becomes, OpOK
  <2>4. h.op \in {"create", "reply", "assign"}
    BY <1>2, <1>8 DEF OpOK
  <2>5. Posted(h) <=> g # Idle /\ Posted(g)
    BY <1>3, <1>8, <2>3, <2>4 DEF Posted
  <2> QED
    BY <1>q, <2>1, <2>2, <2>5
<1>10. CASE h.pc = "write"
  <2>1. /\ b = a /\ g = Idle /\ SameTalk(x, h.copy) /\ SameStatus(x, h.copy)
        /\ Saving(h.op, h.copy, row) /\ row.status # "none"
        /\ h.op \in {"view", "answer", "reply", "close", "closeBySeller", "reopen", "reopenBySeller"}
        /\ h.op \in {"answer", "reply"} => row.status = "open"
    <3>1. /\ g = Idle /\ SameTalk(x, h.copy) /\ SameStatus(x, h.copy) /\ Saving(h.op, h.copy, row)
      BY <1>10, RowChanges
    <3> QED
      BY <1>2, <1>10, <3>1 DEF StepEffect, Fits, OpOK
  <2>2. IsUnreadForSeller(x) <=> IsUnreadForSeller(h.copy)
    BY <2>1, SameBadge
  <2>3. CASE h.op = "view"
    <3>1. /\ x.status = row.status /\ ~Posted(h)
          /\ IsUnreadForSeller(row) /\ ~IsUnreadForSeller(x)
      BY <1>2, <1>10, <2>1, <2>2, <2>3 DEF Saving, SameStatus, NewsFits, Posted
    <3> QED
      BY <2>1, <3>1 DEF Turn, SettledLen
  <2>4. CASE h.op = "answer"
    <3>1. x.status = row.status /\ row.status = "open" /\ Posted(h) /\ LastFrom(a, "user")
      BY <1>2, <1>10, <2>1, <2>4 DEF Saving, SameStatus, NewsFits, Posted
    <3>2. ~IsUnreadForSeller(x)
      BY <2>1, <2>4 DEF Saving, SameTalk, IsUnreadForSeller
    <3>3. Settled(a, Len(a)) = Append(Settled(a, Len(a) - 1), "user")
      BY <1>1, <3>1, LastSettles DEF Sides
    <3> QED
      BY <2>1, <3>1, <3>2, <3>3 DEF Turn, SettledLen
  <2>5. CASE h.op = "reply"
    <3>1. /\ x.status = row.status /\ row.status = "open" /\ Posted(h) /\ LastFrom(a, "admin")
          /\ IsUnreadForSeller(x)
      BY <1>2, <1>10, <2>1, <2>2, <2>5 DEF Saving, Replied, SameStatus, NewsFits, Posted
    <3>3. Settled(a, Len(a)) = Append(Settled(a, Len(a) - 1), "admin")
      BY <1>1, <3>1, LastSettles DEF Sides
    <3> QED
      BY <2>1, <3>1, <3>3 DEF Turn, SettledLen
  <2>6. CASE h.op \in {"close", "closeBySeller", "reopen", "reopenBySeller"}
    <3>1. SameTalk(h.copy, row) /\ x.status \in {"open", "closed"} /\ ~Posted(h)
      BY <2>1, <2>6 DEF Saving, Posted, SameStatus
    <3>2. IsUnreadForSeller(x) <=> IsUnreadForSeller(row)
      BY <2>2, <3>1, SameBadge
    <3> QED
      BY <1>3, <2>1, <3>1, <3>2 DEF Turn, SettledLen
  <2> QED
    BY <2>1, <2>3, <2>4, <2>5, <2>6
<1>11. h.pc \in {"idle", "answers", "insertTicket", "firstAssignment", "resolveAdmin",
                 "insertAnswer", "autoAssign", "history", "target", "insertAssignment",
                 "saveOwn", "writeOwn", "save", "write"}
  BY <1>1 DEF Handler
<1> QED
  BY <1>2, <1>4, <1>5, <1>7, <1>8, <1>10, <1>11

(* A slot without a request holds nothing of the last one. *)
IdleInv == \A r \in Requests : At(r, "idle") => reqs[r] = Idle

LEMMA NextIdle ==
  ASSUME TypeInv, IdleInv, [Next]_vars
  PROVE  IdleInv'
<1>1. ASSUME NEW r \in Requests, NEW u \in Tickets,
             \/ \E s \in Sellers : SellerRequest(r, s, u)
             \/ \E a \in Admins : StaffRequest(r, a, u)
      PROVE  IdleInv'
  <2>1. OneSlot(r) /\ RequestEffect(r, u, tickets[u])
    BY <1>1, RequestHasEffect
  <2>2. reqs'[r].pc # "idle"
    BY <2>1 DEF RequestEffect, Begins
  <2> QED
    BY <2>1, <2>2 DEF OneSlot, IdleInv, At
<1>2. ASSUME NEW r \in Requests, Step(r)
      PROVE  IdleInv'
  <2>1. OneSlot(r) /\ StepEffect(r, reqs[r], reqs[r].ticket, tickets[reqs[r].ticket])
    BY <1>2, StepHasEffect
  <2>2. reqs'[r] = Idle \/ reqs'[r].pc # "idle"
    BY <2>1 DEF StepEffect, Becomes
  <2> QED
    BY <2>1, <2>2 DEF OneSlot, IdleInv, At
<1>3. ASSUME NEW r \in Requests, OneSlot(r), reqs'[r] = Idle
      PROVE  IdleInv'
  BY <1>3 DEF OneSlot, IdleInv, At
<1>4. CASE UNCHANGED reqs
  BY <1>4 DEF IdleInv, At
<1> QED
  BY <1>1, <1>2, <1>3, <1>4, OtherSteps

(* A step of the system happens on one ticket, or on none. *)
LEMMA OnOneTicket ==
  ASSUME TypeInv, Overlapping = {}, Faulty = {}, [Next]_vars
  PROVE  \/ \A t \in Tickets : Elsewhere(t)
         \/ \E t \in Tickets : /\ \A u \in Tickets \ {t} : Elsewhere(u)
                               /\ \E r \in Requests : BeginsOn(r, t) \/ GoesOn(r, t)
<1>1. ASSUME NEW r \in Requests, NEW t \in Tickets,
             \/ \E s \in Sellers : SellerRequest(r, s, t)
             \/ \E a \in Admins : StaffRequest(r, a, t)
      PROVE  BeginsOn(r, t) /\ \A u \in Tickets \ {t} : Elsewhere(u)
  <2>1. /\ OneSlot(r) /\ reqs[r] = Idle /\ reqs'[r].ticket = t
        /\ \A q \in Requests : reqs[q].ticket # t
        /\ UNCHANGED <<tickets, assignments, answers, delivered>>
        /\ RequestEffect(r, t, tickets[t])
    BY <1>1, RequestHasEffect DEF storage
  <2>2. BeginsOn(r, t)
    BY <2>1 DEF BeginsOn, Works
  <2>3. \A u \in Tickets \ {t} : Elsewhere(u)
    BY <2>1 DEF Elsewhere, Works, OneSlot, At, Idle
  <2> QED
    BY <2>2, <2>3
<1>2. ASSUME NEW r \in Requests, Step(r)
      PROVE  \E t \in Tickets : GoesOn(r, t) /\ \A u \in Tickets \ {t} : Elsewhere(u)
  <2> PICK t : t = reqs[r].ticket
    OBVIOUS
  <2>1. /\ OneSlot(r) /\ reqs[r].pc # "idle" /\ StepEffect(r, reqs[r], t, tickets[t]) /\ t \in Tickets
    BY <1>2, StepHasEffect
  <2>2. reqs'[r] = Idle \/ (reqs'[r].ticket = t /\ reqs'[r].pc # "idle")
    BY <2>1 DEF StepEffect, Becomes
  <2>3. GoesOn(r, t)
    BY <2>1, <2>2 DEF GoesOn, Works, At
  <2>4. \A u \in Tickets \ {t} : Elsewhere(u)
    BY <1>2, StepElsewhere
  <2> QED
    BY <2>1, <2>3, <2>4
<1>3. ASSUME UNCHANGED <<tickets, answers, assignments, clock, delivered, reqs>>
      PROVE  \A t \in Tickets : Elsewhere(t)
  BY <1>3 DEF Elsewhere, Works, At
<1> QED
  BY <1>1, <1>2, <1>3, OtherSteps

TurnOn(t) ==
  Turn(tickets[t].status, SettledThread(t), IsUnreadForSeller(tickets[t]),
       tickets'[t].status, SettledThread(t)', IsUnreadForSeller(tickets'[t]))

(* What the mapping makes of a ticket nobody works on, or one request. *)
LEMMA PostingBy ==
  ASSUME IdleInv, NEW t \in Tickets
  PROVE  Posting(t) <=> \E r \in Requests : Works(r, t) /\ Posted(reqs[r])
<1>1. \A r \in Requests : At(r, "idle") => ~Posted(reqs[r])
  BY DEF IdleInv, Idle, Posted
<1> QED
  BY <1>1 DEF Posting, Works, Posted

LEMMA ElsewhereSettled ==
  ASSUME IdleInv, IdleInv', Faulty = {}, NEW t \in Tickets, Elsewhere(t)
  PROVE  /\ tickets'[t].status = tickets[t].status /\ SettledThread(t)' = SettledThread(t)
         /\ IsUnreadForSeller(tickets'[t]) <=> IsUnreadForSeller(tickets[t])
<1>1. Posting(t) <=> \E r \in Requests : Works(r, t) /\ Posted(reqs[r])
  BY PostingBy
<1>2. Posting(t)' <=> \E r \in Requests : Works(r, t)' /\ Posted(reqs'[r])
  <2>1. \A r \in Requests : reqs'[r].pc = "idle" => ~Posted(reqs'[r])
    BY DEF IdleInv, Idle, Posted, At
  <2> QED
    BY <2>1 DEF Posting, Works, Posted, At
<1>3. Posting(t)' <=> Posting(t)
  BY <1>1, <1>2 DEF Elsewhere
<1>4. tickets'[t] = tickets[t] /\ answers'[t] = answers[t]
  BY DEF Elsewhere
<1> QED
  BY <1>3, <1>4 DEF SettledThread

LEMMA BusyTurns ==
  ASSUME NewsApartInv, IdleInv, IdleInv', TypeInv', 0 \notin Elapse, clock <= clock',
         Overlapping = {}, Faulty = {}, NEW t \in Tickets, NEW r \in Requests,
         BeginsOn(r, t) \/ GoesOn(r, t)
  PROVE  TurnOn(t)
<1> PICK h, row, a : h = reqs[r] /\ row = tickets[t] /\ a = answers[t]
  OBVIOUS
<1>0. t \in Apart /\ t \in Undisturbed /\ ApartInv /\ AloneInv /\ NewsInv
  BY DEF NewsApartInv, ApartInv, Undisturbed, Apart
<1>1. Posting(t) <=> \E q \in Requests : Works(q, t) /\ Posted(reqs[q])
  BY PostingBy
<1>2. Posting(t)' <=> \E q \in Requests : Works(q, t)' /\ Posted(reqs'[q])
  <2>1. \A q \in Requests : reqs'[q].pc = "idle" => ~Posted(reqs'[q])
    BY DEF IdleInv, Idle, Posted, At
  <2> QED
    BY <2>1 DEF Posting, Works, Posted, At
<1>3. Posting(t)' <=> Works(r, t)' /\ Posted(reqs'[r])
  BY <1>0, <1>2, NobodyElse
<1>4. SettledThread(t) = Settled(a, SettledLen(a, Posting(t)))
  BY DEF SettledThread, Settled, SettledLen
<1>5. \A b : b = answers'[t] => SettledThread(t)' = Settled(b, SettledLen(b, Posting(t)'))
  BY DEF SettledThread, Settled, SettledLen
<1>6. CASE BeginsOn(r, t)
  <2>1. ~Posting(t) /\ tickets'[t] = row /\ answers'[t] = a
    BY <1>1, <1>6 DEF BeginsOn
  <2>2. ~Posted(reqs'[r])
    BY <1>6 DEF BeginsOn, RequestEffect, Begins, Posted
  <2>3. ~Posting(t)'
    BY <1>3, <2>2
  <2>4. SettledThread(t) = Settled(a, Len(a))
    BY <1>4, <2>1 DEF SettledLen
  <2>5. SettledThread(t)' = Settled(a, Len(a))
    BY <1>5, <2>1, <2>3 DEF SettledLen
  <2> QED
    BY <2>1, <2>4, <2>5 DEF TurnOn, Turn
<1>7. CASE GoesOn(r, t)
  <2> PICK g, x, b : g = reqs'[r] /\ x = tickets'[t] /\ b = answers'[t]
    OBVIOUS
  <2>1. Works(r, t) /\ (g = Idle \/ Works(r, t)')
    BY <1>7 DEF GoesOn
  <2>2. Posting(t) <=> Posted(h)
    BY <1>0, <1>1, <2>1 DEF AloneInv
  <2>3. Posting(t)' <=> g # Idle /\ Posted(g)
    BY <1>3, <2>1 DEF Idle, Posted
  <2>4. Turn(row.status, Settled(a, SettledLen(a, Posted(h))), IsUnreadForSeller(row),
             x.status, Settled(b, SettledLen(b, g # Idle /\ Posted(g))), IsUnreadForSeller(x))
    <3>1. NewsFits(reqs[r], tickets[t], answers[t], delivered, t)
      BY <1>0, <2>1 DEF NewsInv
    <3> QED
      BY <1>0, <1>7, <3>1, StepTurns
  <2>5. SettledThread(t) = Settled(a, SettledLen(a, Posted(h)))
    BY <1>4, <2>2 DEF SettledLen
  <2>6. SettledThread(t)' = Settled(b, SettledLen(b, g # Idle /\ Posted(g)))
    BY <1>5, <2>3 DEF SettledLen
  <2> QED
    BY <2>4, <2>5, <2>6 DEF TurnOn
<1> QED
  BY <1>6, <1>7

(* The state of the desk. *)
Statuses == [t \in Tickets |-> tickets[t].status]
Threads == [t \in Tickets |-> SettledThread(t)]
Badges == [t \in Tickets |-> IsUnreadForSeller(tickets[t])]

LEMMA MappedDesk ==
  /\ Desk!deskVars = <<Statuses, Threads, Badges>>
  /\ Desk!deskVars' = <<Statuses', Threads', Badges'>>
BY DEF Desk!deskVars, Statuses, Threads, Badges

LEMMA BadgeMoves ==
  ASSUME NEW t \in Tickets, NEW bd \in BOOLEAN, IsUnreadForSeller(tickets'[t]) <=> bd,
         \A u \in Tickets \ {t} : IsUnreadForSeller(tickets'[u]) <=> IsUnreadForSeller(tickets[u])
  PROVE  Badges' = [Badges EXCEPT ![t] = bd]
<1> DEFINE was(u) == IsUnreadForSeller(tickets[u])
           is(u) == IsUnreadForSeller(tickets'[u])
<1>1. \A u \in Tickets : was(u) \in BOOLEAN /\ is(u) \in BOOLEAN
  BY DEF IsUnreadForSeller
<1>2. is(t) = bd /\ \A u \in Tickets \ {t} : is(u) = was(u)
  BY <1>1
<1>3. Badges' = [u \in Tickets |-> is(u)] /\ Badges = [u \in Tickets |-> was(u)]
  BY DEF Badges
<1> HIDE DEF was, is
<1> QED
  BY <1>2, <1>3

LEMMA BadgesStay ==
  ASSUME \A u \in Tickets : IsUnreadForSeller(tickets'[u]) <=> IsUnreadForSeller(tickets[u])
  PROVE  Badges' = Badges
<1> DEFINE was(u) == IsUnreadForSeller(tickets[u])
           is(u) == IsUnreadForSeller(tickets'[u])
<1>1. \A u \in Tickets : was(u) \in BOOLEAN /\ is(u) \in BOOLEAN
  BY DEF IsUnreadForSeller
<1>2. \A u \in Tickets : is(u) = was(u)
  BY <1>1
<1>3. Badges' = [u \in Tickets |-> is(u)] /\ Badges = [u \in Tickets |-> was(u)]
  BY DEF Badges
<1> HIDE DEF was, is
<1> QED
  BY <1>2, <1>3

LEMMA DeskTurns ==
  ASSUME NEW t \in Tickets, TurnOn(t),
         \A u \in Tickets \ {t} : /\ tickets'[u].status = tickets[u].status
                                  /\ SettledThread(u)' = SettledThread(u)
                                  /\ IsUnreadForSeller(tickets'[u]) <=> IsUnreadForSeller(tickets[u])
  PROVE  [Desk!Next]_(Desk!deskVars)
<1>1. ASSUME NEW s, tickets'[t].status = s
      PROVE  Statuses' = [Statuses EXCEPT ![t] = s]
  BY <1>1 DEF Statuses
<1>2. ASSUME NEW th, SettledThread(t)' = th
      PROVE  Threads' = [Threads EXCEPT ![t] = th]
  BY <1>2 DEF Threads
<1>3. ASSUME NEW bd \in BOOLEAN, IsUnreadForSeller(tickets'[t]) <=> bd
      PROVE  Badges' = [Badges EXCEPT ![t] = bd]
  BY <1>3, BadgeMoves
<1>4. /\ tickets'[t].status = tickets[t].status => Statuses' = Statuses
      /\ SettledThread(t)' = SettledThread(t) => Threads' = Threads
      /\ (IsUnreadForSeller(tickets'[t]) <=> IsUnreadForSeller(tickets[t])) => Badges' = Badges
  <2>1. tickets'[t].status = tickets[t].status => Statuses' = Statuses
    BY DEF Statuses
  <2>2. SettledThread(t)' = SettledThread(t) => Threads' = Threads
    BY DEF Threads
  <2>3. ASSUME IsUnreadForSeller(tickets'[t]) <=> IsUnreadForSeller(tickets[t])
        PROVE  Badges' = Badges
    BY <2>3, BadgesStay
  <2> QED
    BY <2>1, <2>2, <2>3
<1>5. /\ Statuses[t] = tickets[t].status /\ Threads[t] = SettledThread(t)
      /\ Badges[t] <=> IsUnreadForSeller(tickets[t])
  BY DEF Statuses, Threads, Badges
<1>6. CASE tickets'[t].status = tickets[t].status /\ SettledThread(t)' = SettledThread(t)
           /\ (IsUnreadForSeller(tickets'[t]) <=> IsUnreadForSeller(tickets[t]))
  BY <1>4, <1>6, MappedDesk
<1>7. CASE tickets[t].status = "none" /\ tickets'[t].status = "open" /\ SettledThread(t)' = SettledThread(t)
           /\ (IsUnreadForSeller(tickets'[t]) <=> IsUnreadForSeller(tickets[t]))
  <2>1. Desk!Open(t)
    BY <1>1, <1>4, <1>5, <1>7 DEF Desk!Open, Statuses, Threads, Badges
  <2> QED
    BY <2>1 DEF Desk!Next
<1>8. CASE tickets[t].status = "open" /\ tickets'[t].status = tickets[t].status
           /\ SettledThread(t)' = Append(SettledThread(t), "user") /\ ~IsUnreadForSeller(tickets'[t])
  <2>1. Desk!SellerAnswers(t)
    BY <1>2, <1>3, <1>4, <1>5, <1>8 DEF Desk!SellerAnswers, Desk!Post, Statuses, Threads, Badges
  <2> QED
    BY <2>1 DEF Desk!Next
<1>9. CASE tickets[t].status = "open" /\ tickets'[t].status = tickets[t].status
           /\ SettledThread(t)' = Append(SettledThread(t), "admin") /\ IsUnreadForSeller(tickets'[t])
  <2>1. Desk!StaffReplies(t)
    BY <1>2, <1>3, <1>4, <1>5, <1>9 DEF Desk!StaffReplies, Desk!Post, Statuses, Threads, Badges
  <2> QED
    BY <2>1 DEF Desk!Next
<1>10. CASE tickets[t].status # "none" /\ tickets'[t].status = tickets[t].status
            /\ SettledThread(t)' = Append(SettledThread(t), "internal")
            /\ (IsUnreadForSeller(tickets'[t]) <=> IsUnreadForSeller(tickets[t]))
  <2>1. Desk!StaffNotes(t)
    BY <1>2, <1>4, <1>5, <1>10 DEF Desk!StaffNotes, Desk!Post, Statuses, Threads, Badges
  <2> QED
    BY <2>1 DEF Desk!Next
<1>11. CASE IsUnreadForSeller(tickets[t]) /\ ~IsUnreadForSeller(tickets'[t])
            /\ tickets'[t].status = tickets[t].status /\ SettledThread(t)' = SettledThread(t)
  <2>1. Desk!SellerLooks(t)
    BY <1>3, <1>4, <1>5, <1>11 DEF Desk!SellerLooks, Statuses, Threads, Badges
  <2> QED
    BY <2>1 DEF Desk!Next
<1>12. ASSUME NEW from, NEW to, tickets[t].status = from, tickets'[t].status = to,
              SettledThread(t)' = SettledThread(t),
              IsUnreadForSeller(tickets'[t]) <=> IsUnreadForSeller(tickets[t])
       PROVE  Desk!SetStatus(t, from, to)
  BY <1>1, <1>4, <1>5, <1>12 DEF Desk!SetStatus, Statuses, Threads, Badges
<1>13. CASE \/ /\ tickets[t].status = "open" /\ tickets'[t].status = "closed"
               /\ SettledThread(t)' = SettledThread(t)
               /\ (IsUnreadForSeller(tickets'[t]) <=> IsUnreadForSeller(tickets[t]))
            \/ /\ tickets[t].status = "closed" /\ tickets'[t].status = "open"
               /\ SettledThread(t)' = SettledThread(t)
               /\ (IsUnreadForSeller(tickets'[t]) <=> IsUnreadForSeller(tickets[t]))
  BY <1>12, <1>13 DEF Desk!Next
<1> QED
  BY <1>6, <1>7, <1>8, <1>9, <1>10, <1>11, <1>13 DEF TurnOn, Turn

(* Given one request at a time on each ticket, none of them cut short, and *)
(* time passing between time stamps, the handlers with all their awaits    *)
(* behave as the atomic desk: each request is one step of it, taken at the *)
(* write that ends the request, or for a note and a new ticket at the      *)
(* insert, and nothing happens on any ticket besides.                      *)
THEOREM ImplementsDeskAlways ==
  ASSUME Overlapping = {}, Faulty = {}, 0 \notin Elapse
  PROVE  Spec => ImplementsDesk
<1>1. Init => Desk!Init
  <2> SUFFICES ASSUME Init PROVE Desk!Init
    OBVIOUS
  <2>1. \A t \in Tickets : tickets[t].status = "none" /\ ~IsUnreadForSeller(tickets[t])
    BY DEF Init, NoRow, IsUnreadForSeller
  <2>2. \A t \in Tickets : SettledThread(t) = << >>
    BY DEF Init, SettledThread, Posting, Idle
  <2>3. [t \in Tickets |-> IsUnreadForSeller(tickets[t])] = [t \in Tickets |-> FALSE]
    <3> DEFINE unread(t) == IsUnreadForSeller(tickets[t])
    <3>1. \A t \in Tickets : unread(t) = FALSE
      BY <2>1
    <3> HIDE DEF unread
    <3>2. [t \in Tickets |-> unread(t)] = [t \in Tickets |-> FALSE]
      BY <3>1
    <3> QED
      BY <3>2 DEF unread
  <2> QED
    BY <2>1, <2>2, <2>3 DEF Desk!Init
<1>2. Init => NewsApartInv /\ IdleInv
  BY InitNews DEF Init, IdleInv
<1>3. NewsApartInv /\ IdleInv /\ [Next]_vars => (NewsApartInv /\ IdleInv)'
  BY NextTypes, NextAlone, NextCopies, NextNews, NextIdle DEF NewsApartInv, ApartInv
<1>4. ASSUME NewsApartInv, IdleInv, (NewsApartInv /\ IdleInv)', [Next]_vars
      PROVE  [Desk!Next]_(Desk!deskVars)
  <2>0. TypeInv /\ TypeInv' /\ clock <= clock'
    BY <1>4, NextClock DEF NewsApartInv, ApartInv
  <2>1. CASE \A t \in Tickets : Elsewhere(t)
    <3>1. \A t \in Tickets : /\ tickets'[t].status = tickets[t].status
                             /\ SettledThread(t)' = SettledThread(t)
                             /\ IsUnreadForSeller(tickets'[t]) <=> IsUnreadForSeller(tickets[t])
      BY <1>4, <2>1, ElsewhereSettled
    <3>2. Statuses' = Statuses /\ Threads' = Threads /\ Badges' = Badges
      BY <3>1, BadgesStay DEF Statuses, Threads
    <3> QED
      BY <3>2, MappedDesk
  <2>2. ASSUME NEW t \in Tickets, \A u \in Tickets \ {t} : Elsewhere(u),
               NEW r \in Requests, BeginsOn(r, t) \/ GoesOn(r, t)
        PROVE  [Desk!Next]_(Desk!deskVars)
    <3>1. \A u \in Tickets \ {t} : /\ tickets'[u].status = tickets[u].status
                                   /\ SettledThread(u)' = SettledThread(u)
                                   /\ IsUnreadForSeller(tickets'[u]) <=> IsUnreadForSeller(tickets[u])
      BY <1>4, <2>2, ElsewhereSettled
    <3>2. TurnOn(t)
      BY <1>4, <2>0, <2>2, BusyTurns
    <3> QED
      BY <3>1, <3>2, DeskTurns
  <2> QED
    BY <1>4, <2>0, <2>1, <2>2, OnOneTicket
<1> QED
  BY <1>1, <1>2, <1>3, <1>4, PTL DEF Spec, ImplementsDesk, Desk!Spec

===============================================================================
