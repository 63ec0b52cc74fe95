---------------------------- MODULE TicketingProofs ----------------------------
(***************************************************************************)
(* Theorems about Ticketing, for every set of sellers, admins, tickets and *)
(* slots, whether or not requests overlap or are cut short.                *)
(***************************************************************************)
EXTENDS TicketingProperties, SequenceTheorems, TLAPS

-------------------------------------------------------------------------------
(* Types. TypeOK alone is not inductive: what a handler stores depends on  *)
(* how far it has come and on whose request it is.                         *)

StaffOps == {"reply", "note", "close", "reopen", "assign"}

HandlerOK(h) ==
  /\ h.pc # "idle" => h.ticket \in Tickets
  /\ h.op \in StaffOps => h.actor \in Admins
  /\ h.pc = "autoAssign" => h.op = "reply"
  /\ h.pc \in {"history", "target", "insertAssignment", "saveOwn", "writeOwn"}
       => h.op \in {"reply", "assign"}
  /\ h.pc = "firstAssignment" => h.copy.assigned # Null
  /\ h.pc \in {"target", "insertAssignment"} => h.target # Null

TypeInv == TypeOK /\ \A r \in Requests : HandlerOK(reqs[r])

(* What the row helpers return is a row again. *)
LEMMA RowTypes ==
  ASSUME NEW row \in TicketRow, NEW n \in Nat
  PROVE  /\ Closed(row, n) \in TicketRow
         /\ Reopened(row) \in TicketRow
         /\ TouchedBySeller(row, n) \in TicketRow
         /\ TouchedByStaff(row, n) \in TicketRow
         /\ [row EXCEPT !.seenAt = n] \in TicketRow
         /\ \A a \in Admins \union {Null} : [row EXCEPT !.assigned = a] \in TicketRow
         /\ \A a \in Admins : [Closed(row, n) EXCEPT !.closedBy = a] \in TicketRow
BY DEF TicketRow, Closed, Reopened, TouchedBySeller, TouchedByStaff, Null

(* The row save() leaves is a row, whatever its SELECT saw. *)
LEMMA MergedType ==
  ASSUME NEW mine \in TicketRow, NEW base \in TicketRow, NEW cur \in TicketRow
  PROVE  Merged(mine, base, cur) \in TicketRow
BY DEF TicketRow, Merged, Column

LEMMA ConstantTypes == NoRow \in TicketRow /\ Idle \in Handler /\ HandlerOK(Idle)
<1>1. NoRow \in TicketRow
  BY DEF NoRow, TicketRow, Null
<1>2. Idle \in Handler
  BY <1>1 DEF Idle, Handler, Null
<1>3. HandlerOK(Idle)
  BY DEF Idle, HandlerOK, StaffOps
<1> QED
  BY <1>1, <1>2, <1>3

(* A freshly loaded handler is well typed. *)
LEMMA LoadedType ==
  ASSUME NEW t \in Tickets, NEW row \in TicketRow,
         NEW actor \in Sellers \union Admins,
         NEW op \in {"create", "view", "answer", "closeBySeller", "reopenBySeller",
                     "reply", "note", "close", "reopen", "assign"},
         NEW pc \in {"answers", "insertTicket", "resolveAdmin", "insertAnswer", "history", "save"},
         op \in StaffOps => actor \in Admins,
         pc = "history" => op = "assign"
  PROVE  /\ Loaded(op, t, actor, pc, row) \in Handler
         /\ HandlerOK(Loaded(op, t, actor, pc, row))
         /\ Loaded(op, t, actor, pc, row).pc = pc
<1>1. Loaded(op, t, actor, pc, row) \in Handler
  BY ConstantTypes DEF Loaded, Handler, Idle
<1>2. HandlerOK(Loaded(op, t, actor, pc, row))
  BY ConstantTypes DEF Loaded, HandlerOK, Idle, StaffOps
<1>3. Loaded(op, t, actor, pc, row).pc = pc
  BY DEF Loaded, Idle
<1> QED
  BY <1>1, <1>2, <1>3

LEMMA StartTypes ==
  ASSUME TypeInv, NEW r \in Requests, NEW h \in Handler, HandlerOK(h), Start(r, h)
  PROVE  reqs' \in [Requests -> Handler] /\ \A q \in Requests : HandlerOK(reqs'[q])
BY DEF TypeInv, TypeOK, Start

LEMMA FinishTypes ==
  ASSUME TypeInv, NEW r \in Requests, Finish(r)
  PROVE  reqs' \in [Requests -> Handler] /\ \A q \in Requests : HandlerOK(reqs'[q])
BY ConstantTypes DEF TypeInv, TypeOK, Finish

LEMMA InstantsAreNat ==
  ASSUME TypeOK, NEW n \in Instants
  PROVE  n \in Nat
<1>1. PICK d \in Elapse : n = clock + d
  BY DEF Instants
<1>2. d \in Nat /\ clock \in Nat
  BY ElapseIsTime DEF TypeOK
<1> QED
  BY <1>1, <1>2

LEMMA EndActiveType ==
  ASSUME NEW history \in Seq(Assignment), NEW n \in Nat
  PROVE  /\ EndActive(history, n) \in Seq(Assignment)
         /\ Len(EndActive(history, n)) = Len(history)
<1>1. \A i \in DOMAIN history : history[i] \in Assignment
  OBVIOUS
<1>2. \A i \in DOMAIN history : EndActive(history, n)[i] \in Assignment
  BY <1>1 DEF EndActive, Assignment
<1>3. DOMAIN EndActive(history, n) = 1..Len(history)
  BY DEF EndActive
<1> QED
  BY <1>2, <1>3, SeqDef, LenProperties DEF EndActive


(* A request that starts a handler and touches no table. *)
LEMMA AcceptedTypes ==
  ASSUME TypeInv, NEW r \in Requests, NEW t \in Tickets, NEW h \in Handler,
         Accept(r, t), Start(r, h), HandlerOK(h),
         clock' \in Nat, UNCHANGED <<storage, delivered>>
  PROVE  TypeInv'
BY StartTypes DEF TypeInv, TypeOK, Accept, storage

LEMMA SellerRequestTypes ==
  ASSUME TypeInv, NEW r \in Requests, NEW s \in Sellers, NEW t \in Tickets,
         SellerRequest(r, s, t)
  PROVE  TypeInv'
<1> USE DEF StaffOps
<1>t. tickets[t] \in TicketRow /\ clock \in Nat
  BY DEF TypeInv, TypeOK
<1>1. CASE CreateSellerTicket(r, s, t)
  <2>1. PICK n \in Instants, a \in Admins \union {Null} :
          /\ clock' = n
          /\ Start(r, [Loaded("create", t, s, "insertTicket",
                         [user |-> s, status |-> "open", closedAt |-> Null,
                          closedBy |-> Null, assigned |-> a, lastAt |-> n,
                          lastSide |-> "user", seenAt |-> n]) EXCEPT !.now = n])
    BY <1>1 DEF CreateSellerTicket
  <2> DEFINE row == [user |-> s, status |-> "open", closedAt |-> Null,
                     closedBy |-> Null, assigned |-> a, lastAt |-> n,
                     lastSide |-> "user", seenAt |-> n]
             base == Loaded("create", t, s, "insertTicket", row)
  <2>2. n \in Nat
    BY InstantsAreNat DEF TypeInv
  <2>3. row \in TicketRow
    BY <2>2 DEF TicketRow, Null
  <2> HIDE DEF row
  <2>4. base \in Handler /\ HandlerOK(base) /\ base.pc = "insertTicket"
    BY <2>3, LoadedType
  <2> HIDE DEF base
  <2>5. [base EXCEPT !.now = n] \in Handler /\ HandlerOK([base EXCEPT !.now = n])
    BY <2>2, <2>4 DEF Handler, HandlerOK
  <2> QED
    BY <1>1, <2>1, <2>2, <2>5, AcceptedTypes DEF CreateSellerTicket, base, row
<1>2. CASE GetSellerTicket(r, s, t)
  BY <1>2, <1>t, LoadedType, AcceptedTypes DEF GetSellerTicket
<1>3. CASE AnswerSellerTicket(r, s, t)
  <2>1. PICK n \in Instants :
          /\ clock' = n
          /\ Start(r, [Loaded("answer", t, s, "insertAnswer", tickets[t]) EXCEPT !.now = n])
    BY <1>3 DEF AnswerSellerTicket
  <2> DEFINE base == Loaded("answer", t, s, "insertAnswer", tickets[t])
  <2>2. n \in Nat
    BY InstantsAreNat DEF TypeInv
  <2>3. base \in Handler /\ HandlerOK(base)
    BY <1>t, LoadedType
  <2> HIDE DEF base
  <2>4. [base EXCEPT !.now = n] \in Handler /\ HandlerOK([base EXCEPT !.now = n])
    BY <2>2, <2>3 DEF Handler, HandlerOK
  <2> QED
    BY <1>3, <2>1, <2>2, <2>4, AcceptedTypes DEF AnswerSellerTicket, base
<1>4. CASE CloseSellerTicket(r, s, t)
  <2>1. PICK n \in Instants :
          /\ clock' = n
          /\ Start(r, Loaded("closeBySeller", t, s, "save", Closed(tickets[t], n)))
    BY <1>4 DEF CloseSellerTicket
  <2>2. n \in Nat
    BY InstantsAreNat DEF TypeInv
  <2>3. Closed(tickets[t], n) \in TicketRow
    BY <1>t, <2>2, RowTypes
  <2> QED
    BY <1>4, <2>1, <2>2, <2>3, LoadedType, AcceptedTypes DEF CloseSellerTicket
<1>5. CASE ReopenSellerTicket(r, s, t)
  <2>1. Reopened(tickets[t]) \in TicketRow
    BY <1>t, RowTypes
  <2> QED
    BY <1>5, <1>t, <2>1, LoadedType, AcceptedTypes DEF ReopenSellerTicket
<1> QED
  BY <1>1, <1>2, <1>3, <1>4, <1>5 DEF SellerRequest

LEMMA StaffRequestTypes ==
  ASSUME TypeInv, NEW r \in Requests, NEW a \in Admins, NEW t \in Tickets,
         StaffRequest(r, a, t)
  PROVE  TypeInv'
<1> USE DEF StaffOps
<1>t. tickets[t] \in TicketRow /\ clock \in Nat
  BY DEF TypeInv, TypeOK
<1>1. CASE StaffReply(r, a, t)
  BY <1>1, <1>t, LoadedType, AcceptedTypes DEF StaffReply
<1>2. CASE AddInternalNote(r, a, t)
  BY <1>2, <1>t, LoadedType, AcceptedTypes DEF AddInternalNote
<1>3. CASE CloseTicket(r, a, t)
  <2>1. PICK n \in Instants :
          /\ clock' = n
          /\ Start(r, Loaded("close", t, a, "save", [Closed(tickets[t], n) EXCEPT !.closedBy = a]))
    BY <1>3 DEF CloseTicket
  <2>2. n \in Nat
    BY InstantsAreNat DEF TypeInv
  <2>3. [Closed(tickets[t], n) EXCEPT !.closedBy = a] \in TicketRow
    BY <1>t, <2>2, RowTypes
  <2> QED
    BY <1>3, <2>1, <2>2, <2>3, LoadedType, AcceptedTypes DEF CloseTicket
<1>4. CASE ReopenTicket(r, a, t)
  <2>1. Reopened(tickets[t]) \in TicketRow
    BY <1>t, RowTypes
  <2> QED
    BY <1>4, <1>t, <2>1, LoadedType, AcceptedTypes DEF ReopenTicket
<1>5. ASSUME NEW target \in Admins \union {Null}, AssignTicket(r, a, t, target)
      PROVE  TypeInv'
  <2>1. PICK n \in Instants :
          /\ clock' = n
          /\ Start(r, [Loaded("assign", t, a, "history", NoRow)
                         EXCEPT !.own = tickets[t], !.target = target, !.now = n])
    BY <1>5 DEF AssignTicket
  <2> DEFINE base == Loaded("assign", t, a, "history", NoRow)
             h == [base EXCEPT !.own = tickets[t], !.target = target, !.now = n]
  <2>2. n \in Nat
    BY InstantsAreNat DEF TypeInv
  <2>3. base \in Handler /\ HandlerOK(base) /\ base.pc = "history"
    BY ConstantTypes, LoadedType
  <2> HIDE DEF base
  <2>4. h \in Handler /\ HandlerOK(h)
    BY <1>t, <2>2, <2>3 DEF Handler, HandlerOK
  <2> QED
    BY <1>5, <2>1, <2>2, <2>4, AcceptedTypes DEF AssignTicket, base
<1> QED
  BY <1>1, <1>2, <1>3, <1>4, <1>5 DEF StaffRequest

(* A step of a running handler that leaves admins and served alone. *)
LEMMA StepTypesFrom ==
  ASSUME TypeInv,
         reqs' \in [Requests -> Handler], \A q \in Requests : HandlerOK(reqs'[q]),
         tickets' \in [Tickets -> TicketRow], answers' \in [Tickets -> Seq(Answer)],
         assignments' \in [Tickets -> Seq(Assignment)], clock' \in Nat,
         delivered' \in [Sellers -> SUBSET (Tickets \X Nat)],
         UNCHANGED <<admins, served>>
  PROVE  TypeInv'
BY DEF TypeInv, TypeOK

LEMMA DeliverTypes ==
  ASSUME TypeInv, NEW r \in Requests, reqs[r].ticket \in Tickets,
         NEW k \in Nat, Deliver(r, k)
  PROVE  delivered' \in [Sellers -> SUBSET (Tickets \X Nat)]
<1> DEFINE new == {<<reqs[r].ticket, i>> : i \in PublicAnswers(reqs[r].ticket, k)}
<1>1. new \subseteq Tickets \X Nat
  BY DEF PublicAnswers
<1>2. delivered' = [delivered EXCEPT ![reqs[r].actor] = @ \union new]
  BY DEF Deliver
<1> HIDE DEF new
<1> QED
  BY <1>1, <1>2 DEF TypeInv, TypeOK

LEMMA StepTypes ==
  ASSUME TypeInv, NEW r \in Requests, Step(r)
  PROVE  TypeInv'
<1> DEFINE h == reqs[r]
<1>h. h \in Handler /\ HandlerOK(h)
  BY DEF TypeInv, TypeOK
<1>r. /\ tickets \in [Tickets -> TicketRow] /\ answers \in [Tickets -> Seq(Answer)]
      /\ assignments \in [Tickets -> Seq(Assignment)] /\ clock \in Nat
      /\ delivered \in [Sellers -> SUBSET (Tickets \X Nat)]
      /\ reqs \in [Requests -> Handler]
  BY DEF TypeInv, TypeOK
<1>f. /\ h.copy \in TicketRow /\ h.own \in TicketRow /\ h.base \in TicketRow
      /\ h.now \in Nat /\ h.page \in Nat
  BY <1>h DEF Handler
<1>n. \A n \in Instants : n \in Nat
  BY InstantsAreNat DEF TypeInv
<1> HIDE DEF h
<1>1. CASE InsertTicket(r)
  <2>1. h.pc = "insertTicket" /\ h.ticket \in Tickets
    BY <1>1, <1>h DEF InsertTicket, At, HandlerOK, h
  <2>2. tickets' \in [Tickets -> TicketRow]
    BY <1>1, <1>r, <1>f, <2>1 DEF InsertTicket, h
  <2>3. CASE h.copy.assigned = Null
    BY <1>1, <1>r, <2>2, <2>3, FinishTypes, StepTypesFrom DEF InsertTicket, h
  <2>4. CASE h.copy.assigned # Null
    <3>1. [h EXCEPT !.pc = "firstAssignment"] \in Handler
      BY <1>h DEF Handler
    <3>2. HandlerOK([h EXCEPT !.pc = "firstAssignment"])
      BY <1>h, <2>1, <2>4 DEF HandlerOK, Handler
    <3>3. Start(r, [h EXCEPT !.pc = "firstAssignment"])
      BY <1>1, <1>r, <2>4 DEF InsertTicket, Goto, Start, h
    <3> QED
      BY <1>1, <1>r, <2>2, <3>1, <3>2, <3>3, StartTypes, StepTypesFrom DEF InsertTicket
  <2> QED
    BY <2>3, <2>4
<1>2. CASE InsertFirstAssignment(r)
  <2>1. h.copy.assigned \in Admins /\ h.ticket \in Tickets
    BY <1>2, <1>h, <1>f DEF InsertFirstAssignment, At, HandlerOK, TicketRow, h
  <2>2. [admin |-> h.copy.assigned, from |-> h.now, to |-> Null, by |-> Null] \in Assignment
    BY <1>f, <2>1 DEF Assignment, Null
  <2>3. assignments' \in [Tickets -> Seq(Assignment)]
    BY <1>2, <1>r, <2>1, <2>2 DEF InsertFirstAssignment, h
  <2> QED
    BY <1>2, <1>r, <2>3, FinishTypes, StepTypesFrom DEF InsertFirstAssignment
<1>3. CASE ReadAnswers(r)
  <2>1. h.ticket \in Tickets /\ h.pc = "answers"
    BY <1>3, <1>h DEF ReadAnswers, At, HandlerOK, h
  <2>2. Len(answers[h.ticket]) \in Nat
    BY <1>r, <2>1
  <2>3. CASE IsUnreadForSeller(h.copy)
    <3>1. PICK n \in Instants :
            /\ clock' = n
            /\ Start(r, [h EXCEPT !.pc = "save", !.page = Len(answers[h.ticket]), !.copy.seenAt = n])
      BY <1>3, <2>3 DEF ReadAnswers, h
    <3> DEFINE g == [h EXCEPT !.pc = "save", !.page = Len(answers[h.ticket]), !.copy.seenAt = n]
    <3>2. [h.copy EXCEPT !.seenAt = n] \in TicketRow
      BY <1>f, <1>n, RowTypes
    <3>3. g \in Handler
      BY <1>h, <2>2, <3>2 DEF Handler
    <3>4. HandlerOK(g)
      BY <1>h, <2>1 DEF HandlerOK, Handler, StaffOps
    <3> HIDE DEF g
    <3>5. clock' \in Nat /\ Start(r, g)
      BY <1>n, <3>1 DEF g
    <3> QED
      BY <1>3, <1>r, <2>3, <3>3, <3>4, <3>5, StartTypes, StepTypesFrom DEF ReadAnswers, storage, h
  <2>4. CASE ~IsUnreadForSeller(h.copy)
    <3>1. Deliver(r, Len(answers[h.ticket])) /\ Finish(r) /\ UNCHANGED clock
      BY <1>3, <2>4 DEF ReadAnswers, h
    <3>2. delivered' \in [Sellers -> SUBSET (Tickets \X Nat)]
      BY <2>1, <2>2, <3>1, DeliverTypes DEF h
    <3> QED
      BY <1>3, <1>r, <3>1, <3>2, FinishTypes, StepTypesFrom DEF ReadAnswers, storage
  <2> QED
    BY <2>3, <2>4
<1>4. CASE ResolveAdmin(r)
  <2>1. h.pc = "resolveAdmin"
    BY <1>4 DEF ResolveAdmin, At, h
  <2>2. PICK n \in Nat : /\ Start(r, [h EXCEPT !.pc = "insertAnswer", !.now = n])
                         /\ clock' = n \/ UNCHANGED clock
    <3>1. CASE h.op = "reply"
      BY <1>4, <1>n, <3>1 DEF ResolveAdmin, h
    <3>2. CASE h.op = "note"
      <4>1. Start(r, [h EXCEPT !.pc = "insertAnswer"]) /\ UNCHANGED clock
        BY <1>4, <3>2 DEF ResolveAdmin, h
      <4>2. h.now \in Nat /\ [h EXCEPT !.pc = "insertAnswer"] = [h EXCEPT !.pc = "insertAnswer", !.now = h.now]
        BY <1>h DEF Handler
      <4> QED
        BY <4>1, <4>2
    <3> QED
      BY <1>4, <3>1, <3>2 DEF ResolveAdmin, h
  <2>3. [h EXCEPT !.pc = "insertAnswer", !.now = n] \in Handler
    BY <1>h DEF Handler
  <2>4. HandlerOK([h EXCEPT !.pc = "insertAnswer", !.now = n])
    BY <1>h, <2>1 DEF HandlerOK, Handler, StaffOps
  <2>5. clock' \in Nat
    BY <2>2 DEF TypeInv, TypeOK
  <2> QED
    BY <1>4, <1>r, <2>2, <2>3, <2>4, <2>5, StartTypes, StepTypesFrom DEF ResolveAdmin, storage
<1>5. CASE InsertAnswer(r)
  <2>1. h.ticket \in Tickets /\ h.pc = "insertAnswer"
    BY <1>5, <1>h DEF InsertAnswer, At, HandlerOK, h
  <2>2. PICK side \in {"user", "admin", "internal"} :
          answers' = [answers EXCEPT ![h.ticket] = Append(@, [side |-> side, at |-> clock])]
    BY <1>5 DEF InsertAnswer, h
  <2>3. answers' \in [Tickets -> Seq(Answer)]
    <3>1. [side |-> side, at |-> clock] \in Answer
      BY <1>r DEF Answer
    <3> QED
      BY <1>r, <2>1, <2>2, <3>1
  <2>4. reqs' \in [Requests -> Handler] /\ \A q \in Requests : HandlerOK(reqs'[q])
    <3>1. TouchedBySeller(h.copy, h.now) \in TicketRow /\ TouchedByStaff(h.copy, h.now) \in TicketRow
      BY <1>f, RowTypes
    <3>2. CASE h.op = "answer"
      <4> DEFINE g == [h EXCEPT !.pc = "save", !.copy = TouchedBySeller(h.copy, h.now)]
      <4>1. g \in Handler /\ HandlerOK(g)
        BY <1>h, <2>1, <3>1 DEF Handler, HandlerOK, StaffOps
      <4>2. Start(r, g)
        BY <1>5, <3>2 DEF InsertAnswer, h
      <4> QED
        BY <4>1, <4>2, StartTypes
    <3>3. CASE h.op = "reply"
      <4> DEFINE g == [h EXCEPT !.pc = IF LooksUnassigned(h.copy) THEN "autoAssign" ELSE "save",
                                !.copy = TouchedByStaff(h.copy, h.now)]
      <4>1. g \in Handler
        BY <1>h, <3>1 DEF Handler
      <4>2. HandlerOK(g)
        BY <1>h, <2>1, <3>3 DEF HandlerOK, Handler, StaffOps
      <4>3. Start(r, g)
        BY <1>5, <3>3 DEF InsertAnswer, h
      <4> QED
        BY <4>1, <4>2, <4>3, StartTypes
    <3>4. CASE h.op = "note"
      BY <1>5, <3>4, FinishTypes DEF InsertAnswer, h
    <3> QED
      BY <1>5, <3>2, <3>3, <3>4 DEF InsertAnswer, h
  <2> QED
    BY <1>5, <1>r, <2>3, <2>4, StepTypesFrom DEF InsertAnswer
<1>6. CASE AutoAssign(r)
  <2>1. h.pc = "autoAssign" /\ h.ticket \in Tickets /\ h.op = "reply" /\ h.actor \in Admins
    BY <1>6, <1>h DEF AutoAssign, At, HandlerOK, StaffOps, h
  <2>2. PICK n \in Instants :
          /\ clock' = n
          /\ Start(r, [h EXCEPT !.pc = "history", !.own = tickets[h.ticket],
                                !.target = h.actor, !.now = n])
    BY <1>6 DEF AutoAssign, h
  <2> DEFINE g == [h EXCEPT !.pc = "history", !.own = tickets[h.ticket],
                            !.target = h.actor, !.now = n]
  <2>3. g \in Handler
    BY <1>h, <1>r, <1>n, <2>1 DEF Handler
  <2>4. HandlerOK(g)
    BY <1>h, <2>1 DEF HandlerOK, Handler, StaffOps
  <2> HIDE DEF g
  <2>5. Start(r, g) /\ clock' \in Nat
    BY <1>n, <2>2 DEF g
  <2> QED
    BY <1>6, <1>r, <2>3, <2>4, <2>5, StartTypes, StepTypesFrom DEF AutoAssign, storage
<1>7. CASE EndAssignments(r)
  <2>1. h.pc = "history" /\ h.ticket \in Tickets
    BY <1>7, <1>h DEF EndAssignments, At, HandlerOK, h
  <2>2. assignments' \in [Tickets -> Seq(Assignment)]
    BY <1>7, <1>r, <1>f, <2>1, EndActiveType DEF EndAssignments, h
  <2> DEFINE g == IF h.target = Null THEN [h EXCEPT !.pc = "saveOwn", !.own.assigned = Null]
                                     ELSE [h EXCEPT !.pc = "target"]
  <2>3. [h.own EXCEPT !.assigned = Null] \in TicketRow
    BY <1>f, RowTypes
  <2>4. g \in Handler
    BY <1>h, <2>3 DEF Handler
  <2>5. HandlerOK(g)
    BY <1>h, <2>1 DEF HandlerOK, Handler, StaffOps
  <2>6. Start(r, g)
    BY <1>7 DEF EndAssignments, h
  <2> HIDE DEF g
  <2> QED
    BY <1>7, <1>r, <2>2, <2>4, <2>5, <2>6, StartTypes, StepTypesFrom DEF EndAssignments
<1>8. CASE FindTarget(r)
  <2>1. h.pc = "target"
    BY <1>8 DEF FindTarget, At, h
  <2>2. /\ [h EXCEPT !.pc = "insertAssignment"] \in Handler
        /\ [h EXCEPT !.pc = "save"] \in Handler
    BY <1>h DEF Handler
  <2>3. /\ HandlerOK([h EXCEPT !.pc = "insertAssignment"])
        /\ HandlerOK([h EXCEPT !.pc = "save"])
    BY <1>h, <2>1 DEF HandlerOK, Handler, StaffOps
  <2>4. \/ Start(r, [h EXCEPT !.pc = "insertAssignment"])
        \/ Start(r, [h EXCEPT !.pc = "save"])
        \/ Finish(r)
    BY <1>8, <1>r DEF FindTarget, Goto, Start, h
  <2>5. reqs' \in [Requests -> Handler] /\ \A q \in Requests : HandlerOK(reqs'[q])
    BY <2>2, <2>3, <2>4, StartTypes, FinishTypes
  <2> QED
    BY <1>8, <1>r, <2>5, StepTypesFrom DEF FindTarget, storage
<1>9. CASE InsertAssignment(r)
  <2>1. /\ h.pc = "insertAssignment" /\ h.ticket \in Tickets
        /\ h.target \in Admins /\ h.actor \in Admins
    BY <1>9, <1>h DEF InsertAssignment, At, HandlerOK, StaffOps, Handler, h
  <2>2. [admin |-> h.target, from |-> h.now, to |-> Null, by |-> h.actor] \in Assignment
    BY <1>f, <2>1 DEF Assignment, Null
  <2>3. assignments' \in [Tickets -> Seq(Assignment)]
    BY <1>9, <1>r, <2>1, <2>2 DEF InsertAssignment, h
  <2> DEFINE g == [h EXCEPT !.pc = "saveOwn", !.own.assigned = h.target]
  <2>4. [h.own EXCEPT !.assigned = h.target] \in TicketRow
    BY <1>f, <2>1, RowTypes
  <2>5. g \in Handler
    BY <1>h, <2>4 DEF Handler
  <2>6. HandlerOK(g)
    BY <1>h, <2>1 DEF HandlerOK, Handler, StaffOps
  <2>7. Start(r, g)
    BY <1>9 DEF InsertAssignment, h
  <2> HIDE DEF g
  <2> QED
    BY <1>9, <1>r, <2>3, <2>5, <2>6, <2>7, StartTypes, StepTypesFrom DEF InsertAssignment
<1>10. CASE SelectForSave(r)
  <2> DEFINE g(pc) == [h EXCEPT !.pc = pc, !.base = tickets[h.ticket]]
  <2>1. h.pc \in {"save", "saveOwn"} /\ h.ticket \in Tickets
    BY <1>10, <1>h DEF SelectForSave, At, HandlerOK, h
  <2>2. h.pc = "save" => g("write") \in Handler /\ HandlerOK(g("write"))
    BY <1>h, <1>r, <2>1 DEF Handler, HandlerOK, StaffOps
  <2>3. h.pc = "saveOwn" => g("writeOwn") \in Handler /\ HandlerOK(g("writeOwn"))
    BY <1>h, <1>r, <2>1 DEF Handler, HandlerOK, StaffOps
  <2>4. \/ h.pc = "save" /\ Start(r, g("write"))
        \/ h.pc = "saveOwn" /\ Start(r, g("writeOwn"))
    BY <1>10 DEF SelectForSave, At, h
  <2> HIDE DEF g
  <2>5. reqs' \in [Requests -> Handler] /\ \A q \in Requests : HandlerOK(reqs'[q])
    BY <2>2, <2>3, <2>4, StartTypes
  <2> QED
    BY <1>10, <1>r, <2>5, StepTypesFrom DEF SelectForSave, storage
<1>11. CASE UpdateOwn(r)
  <2>1. h.pc = "writeOwn" /\ h.ticket \in Tickets
    BY <1>11, <1>h DEF UpdateOwn, At, HandlerOK, h
  <2>2. tickets' \in [Tickets -> TicketRow]
    BY <1>11, <1>r, <1>f, <2>1, MergedType DEF UpdateOwn, h
  <2>3. [h EXCEPT !.pc = "save"] \in Handler
    BY <1>h DEF Handler
  <2>4. HandlerOK([h EXCEPT !.pc = "save"])
    BY <1>h, <2>1 DEF HandlerOK, Handler, StaffOps
  <2>5. Start(r, [h EXCEPT !.pc = "save"]) \/ Finish(r)
    BY <1>11, <1>r DEF UpdateOwn, Goto, Start, h
  <2>6. reqs' \in [Requests -> Handler] /\ \A q \in Requests : HandlerOK(reqs'[q])
    BY <2>3, <2>4, <2>5, StartTypes, FinishTypes
  <2> QED
    BY <1>11, <1>r, <2>2, <2>6, StepTypesFrom DEF UpdateOwn
<1>12. CASE Update(r)
  <2>1. h.pc = "write" /\ h.ticket \in Tickets
    BY <1>12, <1>h DEF Update, At, HandlerOK, h
  <2>2. tickets' \in [Tickets -> TicketRow]
    BY <1>12, <1>r, <1>f, <2>1, MergedType DEF Update, h
  <2>3. delivered' \in [Sellers -> SUBSET (Tickets \X Nat)]
    BY <1>12, <1>r, <1>f, <2>1, DeliverTypes DEF Update, h
  <2> QED
    BY <1>12, <1>r, <2>2, <2>3, FinishTypes, StepTypesFrom DEF Update
<1> QED
  BY <1>1, <1>2, <1>3, <1>4, <1>5, <1>6, <1>7, <1>8, <1>9, <1>10, <1>11, <1>12 DEF Step

LEMMA InitTypes == Init => TypeInv
<1> SUFFICES ASSUME Init PROVE TypeInv
  OBVIOUS
<1>1. answers \in [Tickets -> Seq(Answer)] /\ assignments \in [Tickets -> Seq(Assignment)]
  BY DEF Init
<1>2. tickets \in [Tickets -> TicketRow] /\ reqs \in [Requests -> Handler]
  BY ConstantTypes DEF Init
<1>3. admins \in [Admins -> [active: BOOLEAN, deleted: BOOLEAN]]
  BY DEF Init
<1> QED
  BY <1>1, <1>2, <1>3, ConstantTypes DEF Init, TypeInv, TypeOK

LEMMA NextTypes == TypeInv /\ [Next]_vars => TypeInv'
<1> SUFFICES ASSUME TypeInv, [Next]_vars PROVE TypeInv'
  OBVIOUS
<1>1. ASSUME NEW r \in Requests, Abort(r) PROVE TypeInv'
  BY <1>1, FinishTypes DEF Abort, TypeInv, TypeOK, storage
<1>2. ASSUME NEW a \in Admins, ToggleActive(a) \/ RemoveAdmin(a) PROVE TypeInv'
  <2>1. PICK b \in BOOLEAN : \/ admins' = [admins EXCEPT ![a].active = b]
                              \/ admins' = [admins EXCEPT ![a].deleted = b]
    BY <1>2, Zenon DEF ToggleActive, RemoveAdmin
  <2>2. admins' \in [Admins -> [active: BOOLEAN, deleted: BOOLEAN]]
    BY <2>1 DEF TypeInv, TypeOK
  <2> QED
    BY <1>2, <2>2 DEF ToggleActive, RemoveAdmin, AdminRequest, TypeInv, TypeOK
<1>3. ASSUME UNCHANGED vars PROVE TypeInv'
  BY <1>3 DEF vars, TypeInv, TypeOK
<1> QED
  BY <1>1, <1>2, <1>3, SellerRequestTypes, StaffRequestTypes, StepTypes DEF Next, AtRest

(* Every variable keeps its type, for every value of the constants. *)
THEOREM TypeCorrect == Spec => []TypeOK
<1>1. TypeInv => TypeOK
  BY DEF TypeInv
<1> QED
  BY <1>1, InitTypes, NextTypes, PTL DEF Spec

-------------------------------------------------------------------------------
(* The assignment history is a log, the thread grows. *)

(* Nothing is taken out of a thread or rewritten in it. *)
AnswersGrow ==
  \A t \in Tickets : \A i \in DOMAIN answers[t] :
    i \in DOMAIN answers'[t] /\ answers'[t][i] = answers[t][i]

LEMMA AppendKeeps ==
  ASSUME NEW S, NEW q \in Seq(S), NEW e \in S
  PROVE  /\ DOMAIN q \subseteq DOMAIN Append(q, e)
         /\ \A i \in DOMAIN q : Append(q, e)[i] = q[i]
         /\ Len(q) + 1 \in DOMAIN Append(q, e) /\ Append(q, e)[Len(q) + 1] = e
OBVIOUS

LEMMA InsertAnswerGrows ==
  ASSUME TypeInv, NEW r \in Requests, InsertAnswer(r)
  PROVE  /\ AnswersGrow
         /\ \A u \in Tickets : reqs[r].ticket = u /\ reqs[r].op = "reply"
              => HasAnswerFrom(u, "admin")'
<1> DEFINE t == reqs[r].ticket
<1>1. t \in Tickets
  BY DEF InsertAnswer, At, TypeInv, HandlerOK
<1>2. answers \in [Tickets -> Seq(Answer)] /\ clock \in Nat
  BY DEF TypeInv, TypeOK
<1>3. PICK side \in {"user", "admin", "internal"} :
        /\ answers' = [answers EXCEPT ![t] = Append(@, [side |-> side, at |-> clock])]
        /\ reqs[r].op = "reply" => side = "admin"
  BY DEF InsertAnswer
<1>4. [side |-> side, at |-> clock] \in Answer
  BY <1>2 DEF Answer
<1> DEFINE e == [side |-> side, at |-> clock]
           k == Len(answers[t]) + 1
<1>5. e.side = side
  OBVIOUS
<1> HIDE DEF t, e
<1>6. answers'[t] = Append(answers[t], e) /\ \A u \in Tickets \ {t} : answers'[u] = answers[u]
  BY <1>1, <1>2, <1>3 DEF e
<1>7. AnswersGrow
  BY <1>1, <1>2, <1>4, <1>6, AppendKeeps DEF AnswersGrow, e
<1>8. k \in DOMAIN answers'[t] /\ answers'[t][k] = e
  BY <1>1, <1>2, <1>4, <1>6, AppendKeeps DEF e
<1> HIDE DEF k
<1>9. ASSUME NEW u \in Tickets, t = u, reqs[r].op = "reply"
      PROVE  HasAnswerFrom(u, "admin")'
  <2>1. k \in DOMAIN answers'[u] /\ answers'[u][k].side = "admin"
    BY <1>3, <1>5, <1>8, <1>9
  <2> QED
    BY <2>1 DEF HasAnswerFrom
<1> QED
  BY <1>7, <1>9 DEF t

(* A request that comes in only fills its slot. *)
LEMMA RequestsTouchNoTable ==
  /\ \A r \in Requests, s \in Sellers, t \in Tickets :
       SellerRequest(r, s, t) => UNCHANGED <<storage, delivered>>
  /\ \A r \in Requests, a \in Admins, t \in Tickets :
       StaffRequest(r, a, t) => UNCHANGED <<storage, delivered>>
<1>1. ASSUME NEW r \in Requests, NEW s \in Sellers, NEW t \in Tickets, SellerRequest(r, s, t)
      PROVE  UNCHANGED <<storage, delivered>>
  <2>1. CASE CreateSellerTicket(r, s, t)
    BY <2>1 DEF CreateSellerTicket
  <2>2. CASE ~CreateSellerTicket(r, s, t)
    BY <1>1, <2>2 DEF SellerRequest, GetSellerTicket, AnswerSellerTicket,
       CloseSellerTicket, ReopenSellerTicket
  <2> QED
    BY <2>1, <2>2
<1>2. ASSUME NEW r \in Requests, NEW a \in Admins, NEW t \in Tickets, StaffRequest(r, a, t)
      PROVE  UNCHANGED <<storage, delivered>>
  BY <1>2 DEF StaffRequest, StaffReply, AddInternalNote, CloseTicket, ReopenTicket, AssignTicket
<1> QED
  BY <1>1, <1>2

LEMMA NextGrows == TypeInv /\ [Next]_vars => AnswersGrow
<1> SUFFICES ASSUME TypeInv, [Next]_vars PROVE AnswersGrow
  OBVIOUS
<1>1. CASE UNCHANGED answers
  BY <1>1 DEF AnswersGrow
<1>2. ASSUME NEW r \in Requests, Step(r) PROVE UNCHANGED answers \/ InsertAnswer(r)
  BY <1>2 DEF Step, InsertTicket, InsertFirstAssignment, ReadAnswers, ResolveAdmin,
     AutoAssign, EndAssignments, FindTarget, InsertAssignment, SelectForSave, UpdateOwn,
     Update, storage
<1>3. ASSUME NEW r \in Requests, Abort(r) PROVE UNCHANGED answers
  BY <1>3 DEF Abort, storage
<1>4. ASSUME NEW a \in Admins, ToggleActive(a) \/ RemoveAdmin(a) PROVE UNCHANGED answers
  BY <1>4 DEF ToggleActive, RemoveAdmin, AdminRequest
<1> QED
  BY <1>1, <1>2, <1>3, <1>4, InsertAnswerGrows, RequestsTouchNoTable DEF Next, vars, AtRest, storage

(* The whole behaviour: no step rewrites the assignment history, but for   *)
(* ending an active entry.                                                 *)
LogStep(old, new) ==
  \A i \in DOMAIN old :
    /\ i \in DOMAIN new
    /\ new[i] = old[i] \/ (old[i].to = Null /\ new[i] = [old[i] EXCEPT !.to = new[i].to])

LEMMA EndActiveIsLogStep ==
  ASSUME NEW history \in Seq(Assignment), NEW n \in Nat
  PROVE  LogStep(history, EndActive(history, n))
<1> SUFFICES ASSUME NEW i \in DOMAIN history
             PROVE  /\ i \in DOMAIN EndActive(history, n)
                    /\ \/ EndActive(history, n)[i] = history[i]
                       \/ /\ history[i].to = Null
                          /\ EndActive(history, n)[i]
                               = [history[i] EXCEPT !.to = EndActive(history, n)[i].to]
  BY DEF LogStep
<1>1. history[i] \in Assignment
  OBVIOUS
<1>2. i \in DOMAIN EndActive(history, n)
  BY DEF EndActive
<1>3. CASE history[i].to = Null
  <2>1. EndActive(history, n)[i] = [history[i] EXCEPT !.to = n]
    BY <1>3 DEF EndActive
  <2>2. [history[i] EXCEPT !.to = n].to = n
    BY <1>1 DEF Assignment
  <2> QED
    BY <1>2, <1>3, <2>1, <2>2
<1>4. CASE history[i].to # Null
  BY <1>2, <1>4 DEF EndActive
<1> QED
  BY <1>3, <1>4

LEMMA NextLogs ==
  ASSUME TypeInv, [Next]_vars, NEW t \in Tickets
  PROVE  LogStep(assignments[t], assignments'[t])
<1>r. assignments \in [Tickets -> Seq(Assignment)]
  BY DEF TypeInv, TypeOK
<1>0. CASE UNCHANGED assignments
  BY <1>0 DEF LogStep
<1>a. ASSUME NEW q \in Seq(Assignment), NEW e \in Assignment PROVE LogStep(q, Append(q, e))
  BY AppendKeeps DEF LogStep
<1>1. ASSUME NEW r \in Requests, InsertFirstAssignment(r) \/ InsertAssignment(r)
      PROVE  LogStep(assignments[t], assignments'[t])
  <2> DEFINE h == reqs[r]
  <2>1. /\ h \in Handler /\ HandlerOK(h)
        /\ h.pc \in {"firstAssignment", "insertAssignment"}
    BY <1>1 DEF InsertFirstAssignment, InsertAssignment, At, TypeInv, TypeOK
  <2>2. PICK e : /\ \/ e = [admin |-> h.copy.assigned, from |-> h.now, to |-> Null, by |-> Null]
                       /\ h.pc = "firstAssignment"
                    \/ e = [admin |-> h.target, from |-> h.now, to |-> Null, by |-> h.actor]
                       /\ h.pc = "insertAssignment"
                 /\ assignments' = [assignments EXCEPT ![h.ticket] = Append(@, e)]
    BY <1>1 DEF InsertFirstAssignment, InsertAssignment, At
  <2>3. e \in Assignment
    BY <2>1, <2>2 DEF Assignment, HandlerOK, Handler, TicketRow, StaffOps, Null
  <2>4. assignments'[t] \in {assignments[t], Append(assignments[t], e)}
    BY <1>r, <2>2
  <2> QED
    BY <1>r, <1>a, <2>3, <2>4 DEF LogStep
<1>2. ASSUME NEW r \in Requests, EndAssignments(r)
      PROVE  LogStep(assignments[t], assignments'[t])
  <2>1. reqs[r].now \in Nat
    BY DEF TypeInv, TypeOK, Handler
  <2>2. assignments'[t] \in {assignments[t], EndActive(assignments[t], reqs[r].now)}
    BY <1>r, <1>2 DEF EndAssignments
  <2> QED
    BY <1>r, <2>1, <2>2, EndActiveIsLogStep DEF LogStep
<1>3. ASSUME NEW r \in Requests, Step(r)
      PROVE  \/ UNCHANGED assignments \/ InsertFirstAssignment(r) \/ InsertAssignment(r)
             \/ EndAssignments(r)
  BY <1>3 DEF Step, InsertTicket, InsertAnswer, ReadAnswers, ResolveAdmin, AutoAssign,
     FindTarget, SelectForSave, UpdateOwn, Update, storage
<1>4. ASSUME NEW r \in Requests, Abort(r) PROVE UNCHANGED assignments
  BY <1>4 DEF Abort, storage
<1>5. ASSUME NEW a \in Admins, ToggleActive(a) \/ RemoveAdmin(a) PROVE UNCHANGED assignments
  BY <1>5 DEF ToggleActive, RemoveAdmin, AdminRequest
<1> QED
  BY <1>0, <1>1, <1>2, <1>3, <1>4, <1>5, RequestsTouchNoTable DEF Next, vars, AtRest, storage

(* The assignment history is a log in every behaviour: entries are never   *)
(* removed or rewritten, an active one is ended at most once.              *)
THEOREM HistoryCorrect == Spec => HistoryIsALog
<1>1. TypeInv /\ [Next]_vars =>
        [\A t \in Tickets : \A i \in DOMAIN assignments[t] :
           /\ i \in DOMAIN assignments'[t]
           /\ \/ assignments'[t][i] = assignments[t][i]
              \/ /\ assignments[t][i].to = Null
                 /\ assignments'[t][i] = [assignments[t][i] EXCEPT !.to = assignments'[t][i].to]]_vars
  BY NextLogs DEF LogStep
<1> QED
  BY <1>1, InitTypes, NextTypes, PTL DEF Spec, HistoryIsALog

-------------------------------------------------------------------------------
(* No phantom replies. A mark "last message by the staff" gets into the    *)
(* table from the copies of handlers, so the invariant has to speak of     *)
(* every copy in flight as well: whoever carries the mark, of whatever     *)
(* age, carries it for a ticket that has an answer of the staff by now.    *)

Told(t, row) == row.lastSide = "admin" => t \in Tickets /\ HasAnswerFrom(t, "admin")

ReplyInv ==
  /\ TypeInv
  /\ \A t \in Tickets : Told(t, tickets[t])
  /\ \A r \in Requests :
       Told(reqs[r].ticket, reqs[r].copy) /\ Told(reqs[r].ticket, reqs[r].own)

LEMMA ReplyStays ==
  ASSUME TypeInv, [Next]_vars, NEW t \in Tickets, HasAnswerFrom(t, "admin")
  PROVE  HasAnswerFrom(t, "admin")'
BY NextGrows DEF HasAnswerFrom, AnswersGrow

(* A step keeps ReplyInv if it puts at most one handler h in place, whose  *)
(* copies, like the rows of the table, are told of by the threads after it.*)
LEMMA ReplyKept ==
  ASSUME ReplyInv, [Next]_vars, NEW r \in Requests, NEW h,
         reqs' = [reqs EXCEPT ![r] = h],
         h.copy.lastSide = "admin" => h.ticket \in Tickets /\ \A t \in Tickets : t = h.ticket => HasAnswerFrom(t, "admin")',
         h.own.lastSide = "admin" => h.ticket \in Tickets /\ \A t \in Tickets : t = h.ticket => HasAnswerFrom(t, "admin")',
         \A t \in Tickets : Told(t, tickets[t])'
  PROVE  ReplyInv'
<1>1. TypeInv'
  BY NextTypes DEF ReplyInv
<1>2. ASSUME NEW q \in Requests
      PROVE  (Told(reqs[q].ticket, reqs[q].copy) /\ Told(reqs[q].ticket, reqs[q].own))'
  <2>1. CASE q = r
    <3>1. reqs'[q] = h
      BY <2>1 DEF ReplyInv, TypeInv, TypeOK
    <3> QED
      BY <3>1 DEF Told
  <2>2. CASE q # r
    <3>1. reqs'[q] = reqs[q]
      BY <2>2 DEF ReplyInv, TypeInv, TypeOK
    <3> QED
      BY <3>1, ReplyStays DEF Told, ReplyInv
  <2> QED
    BY <2>1, <2>2
<1> QED
  BY <1>1, <1>2 DEF ReplyInv

(* The sides a copy may carry on ticket t without telling anything new. *)
OldSides(t) == {"user", tickets[t].lastSide}

LEMMA ReplyKeptByStart ==
  ASSUME ReplyInv, [Next]_vars, NEW r \in Requests, NEW t \in Tickets, NEW h,
         Start(r, h), UNCHANGED tickets, h.ticket = t,
         h.copy.lastSide \in OldSides(t), h.own.lastSide \in OldSides(t)
  PROVE  ReplyInv'
<1>1. tickets[t].lastSide = "admin" => HasAnswerFrom(t, "admin")'
  BY ReplyStays DEF ReplyInv, Told
<1>2. \A u \in Tickets : Told(u, tickets[u])'
  BY ReplyStays DEF ReplyInv, Told
<1> QED
  BY <1>1, <1>2, ReplyKept DEF Start, OldSides

LEMMA LoadedFields ==
  ASSUME NEW op, NEW t, NEW actor, NEW pc, NEW row
  PROVE  LET h == Loaded(op, t, actor, pc, row) IN
           h.ticket = t /\ h.copy = row /\ h.own = NoRow
BY DEF Loaded, Idle

LEMMA ReplyKeptByRequests ==
  ASSUME ReplyInv, [Next]_vars, NEW r \in Requests, NEW t \in Tickets,
         \/ \E s \in Sellers : SellerRequest(r, s, t)
         \/ \E a \in Admins : StaffRequest(r, a, t)
  PROVE  ReplyInv'
<1> DEFINE h == reqs'[r]
           Goal == /\ Start(r, h) /\ h.ticket = t
                   /\ h.copy.lastSide \in OldSides(t) /\ h.own.lastSide \in OldSides(t)
<1>1. UNCHANGED tickets
  BY RequestsTouchNoTable DEF storage
<1>2. tickets[t] \in TicketRow /\ reqs \in [Requests -> Handler]
  BY DEF ReplyInv, TypeInv, TypeOK
<1>3. \A g : Start(r, g) => h = g /\ Start(r, h)
  BY <1>2 DEF Start
<1>4. NoRow.lastSide \in OldSides(t) /\ tickets[t].lastSide \in OldSides(t)
  BY DEF NoRow, OldSides
<1>5. \A n : Closed(tickets[t], n).lastSide = tickets[t].lastSide
  BY <1>2 DEF Closed, TicketRow
<1>6. \A n, a : [Closed(tickets[t], n) EXCEPT !.closedBy = a].lastSide = tickets[t].lastSide
  BY <1>2 DEF Closed, TicketRow
<1>7. Reopened(tickets[t]).lastSide = tickets[t].lastSide
  BY <1>2 DEF Reopened, TicketRow
<1>s. ASSUME NEW s \in Sellers, SellerRequest(r, s, t) PROVE Goal
  <2>1. CASE CreateSellerTicket(r, s, t)
    <3>1. PICK n, a : Start(r, [Loaded("create", t, s, "insertTicket",
                      [user |-> s, status |-> "open", closedAt |-> Null,
                       closedBy |-> Null, assigned |-> a, lastAt |-> n,
                       lastSide |-> "user", seenAt |-> n]) EXCEPT !.now = n])
      BY <2>1 DEF CreateSellerTicket
    <3> DEFINE row == [user |-> s, status |-> "open", closedAt |-> Null,
                       closedBy |-> Null, assigned |-> a, lastAt |-> n,
                       lastSide |-> "user", seenAt |-> n]
    <3>2. row.lastSide \in OldSides(t)
      BY DEF OldSides
    <3> HIDE DEF row
    <3> DEFINE g == [Loaded("create", t, s, "insertTicket", row) EXCEPT !.now = n]
    <3>3. Start(r, g)
      BY <3>1 DEF row
    <3>4. g.ticket = t /\ g.copy = row /\ g.own = NoRow
      BY DEF Loaded, Idle
    <3> HIDE DEF g
    <3> QED
      BY <3>2, <3>3, <3>4, <1>3, <1>4
  <2>2. CASE GetSellerTicket(r, s, t)
    BY <2>2, <1>3, <1>4, LoadedFields DEF GetSellerTicket
  <2>3. CASE AnswerSellerTicket(r, s, t)
    <3>1. PICK n : Start(r, [Loaded("answer", t, s, "insertAnswer", tickets[t]) EXCEPT !.now = n])
      BY <2>3 DEF AnswerSellerTicket
    <3> DEFINE g == [Loaded("answer", t, s, "insertAnswer", tickets[t]) EXCEPT !.now = n]
    <3>2. g.ticket = t /\ g.copy = tickets[t] /\ g.own = NoRow
      BY DEF Loaded, Idle
    <3> HIDE DEF g
    <3>3. Start(r, g)
      BY <3>1 DEF g
    <3> QED
      BY <3>2, <3>3, <1>3, <1>4
  <2>4. CASE CloseSellerTicket(r, s, t)
    BY <2>4, <1>3, <1>4, <1>5, LoadedFields DEF CloseSellerTicket
  <2>5. CASE ReopenSellerTicket(r, s, t)
    BY <2>5, <1>3, <1>4, <1>7, LoadedFields DEF ReopenSellerTicket
  <2> QED
    BY <1>s, <2>1, <2>2, <2>3, <2>4, <2>5 DEF SellerRequest
<1>a. ASSUME NEW a \in Admins, StaffRequest(r, a, t) PROVE Goal
  <2>1. CASE StaffReply(r, a, t)
    BY <2>1, <1>3, <1>4, LoadedFields DEF StaffReply
  <2>2. CASE AddInternalNote(r, a, t)
    BY <2>2, <1>3, <1>4, LoadedFields DEF AddInternalNote
  <2>3. CASE CloseTicket(r, a, t)
    <3>1. PICK n : Start(r, Loaded("close", t, a, "save",
                                   [Closed(tickets[t], n) EXCEPT !.closedBy = a]))
      BY <2>3 DEF CloseTicket
    <3> DEFINE row == [Closed(tickets[t], n) EXCEPT !.closedBy = a]
    <3>2. row.lastSide = tickets[t].lastSide
      BY <1>6
    <3> HIDE DEF row
    <3>3. Start(r, Loaded("close", t, a, "save", row))
      BY <3>1 DEF row
    <3> QED
      BY <3>2, <3>3, <1>3, <1>4, LoadedFields
  <2>4. CASE ReopenTicket(r, a, t)
    BY <2>4, <1>3, <1>4, <1>7, LoadedFields DEF ReopenTicket
  <2>5. CASE \E target \in Admins \union {Null} : AssignTicket(r, a, t, target)
    <3>1. PICK target, n : Start(r, [Loaded("assign", t, a, "history", NoRow)
                      EXCEPT !.own = tickets[t], !.target = target, !.now = n])
      BY <2>5 DEF AssignTicket
    <3> DEFINE g == [Loaded("assign", t, a, "history", NoRow)
                       EXCEPT !.own = tickets[t], !.target = target, !.now = n]
    <3>2. g.ticket = t /\ g.copy = NoRow /\ g.own = tickets[t]
      BY DEF Loaded, Idle
    <3> QED
      BY <3>1, <3>2, <1>3, <1>4
  <2> QED
    BY <1>a, <2>1, <2>2, <2>3, <2>4, <2>5 DEF StaffRequest
<1> QED
  BY <1>1, <1>s, <1>a, ReplyKeptByStart


LEMMA MergedSide ==
  ASSUME NEW mine, NEW base, NEW cur
  PROVE  Merged(mine, base, cur).lastSide \in {mine.lastSide, cur.lastSide}
BY DEF Merged, Column

LEMMA ReplyKeptByStep ==
  ASSUME ReplyInv, [Next]_vars, NEW r \in Requests, Step(r)
  PROVE  ReplyInv'
<1> DEFINE h == reqs[r]
           Kept(row) == row.lastSide \in {"user", h.copy.lastSide, h.own.lastSide}
           RowsTold == \A t \in Tickets : Told(t, tickets[t])'
<1>t. TypeInv
  BY DEF ReplyInv
<1>h. /\ h \in Handler /\ HandlerOK(h) /\ h.copy \in TicketRow /\ h.own \in TicketRow
      /\ tickets \in [Tickets -> TicketRow] /\ reqs \in [Requests -> Handler]
  BY <1>t DEF TypeInv, TypeOK, Handler
<1>k. /\ h.copy.lastSide = "admin" => h.ticket \in Tickets /\ HasAnswerFrom(h.ticket, "admin")
      /\ h.own.lastSide = "admin" => h.ticket \in Tickets /\ HasAnswerFrom(h.ticket, "admin")
  BY DEF ReplyInv, Told
<1>u. UNCHANGED tickets => RowsTold
  BY ReplyStays, <1>t DEF ReplyInv, Told
(* The new handler has nothing to tell but what the old one had. *)
<1>a. ASSUME NEW g, reqs' = [reqs EXCEPT ![r] = g], g.ticket = h.ticket,
             Kept(g.copy), Kept(g.own), RowsTold
      PROVE  ReplyInv'
  <2>1. ASSUME NEW row, Kept(row), row.lastSide = "admin"
        PROVE  h.ticket \in Tickets /\ \A t \in Tickets : t = h.ticket => HasAnswerFrom(t, "admin")'
    BY <2>1, <1>k, <1>t, ReplyStays
  <2>2. g.copy.lastSide = "admin" \/ g.own.lastSide = "admin"
          => g.ticket \in Tickets /\ \A t \in Tickets : t = g.ticket => HasAnswerFrom(t, "admin")'
    BY <1>a, <2>1
  <2> HIDE DEF h, Kept
  <2> QED
    BY <1>a, <2>2, ReplyKept
<1>b. ASSUME Finish(r), RowsTold PROVE ReplyInv'
  <2>1. Idle.copy.lastSide = "user" /\ Idle.own.lastSide = "user"
    BY DEF Idle, NoRow
  <2> QED
    BY <1>b, <2>1, ReplyKept DEF Finish
<1>g. ASSUME NEW pc, Goto(r, pc), RowsTold PROVE ReplyInv'
  <2>1. [h EXCEPT !.pc = pc].ticket = h.ticket /\ [h EXCEPT !.pc = pc].copy = h.copy
        /\ [h EXCEPT !.pc = pc].own = h.own
    BY <1>h DEF Handler
  <2>2. reqs' = [reqs EXCEPT ![r] = [h EXCEPT !.pc = pc]]
    BY <1>g DEF Goto
  <2> QED
    BY <1>g, <1>a, <2>1, <2>2
(* A row written from a copy of this handler tells nothing new either. *)
<1>w. ASSUME NEW row, Kept(row) \/ row.lastSide = tickets[h.ticket].lastSide,
             tickets' = [tickets EXCEPT ![h.ticket] = row], h.ticket \in Tickets
      PROVE  RowsTold
  <2>1. ASSUME NEW t \in Tickets, t = h.ticket PROVE Told(t, tickets[t])'
    BY <1>w, <2>1, <1>k, <1>t, <1>h, ReplyStays DEF ReplyInv, Told
  <2>2. ASSUME NEW t \in Tickets, t # h.ticket PROVE Told(t, tickets[t])'
    BY <1>w, <2>2, <1>t, <1>h, ReplyStays DEF ReplyInv, Told
  <2> QED
    BY <2>1, <2>2
<1> HIDE DEF h, Kept, RowsTold
<1>1. CASE InsertTicket(r)
  <2>1. h.ticket \in Tickets /\ Kept(h.copy)
    BY <1>1, <1>h DEF InsertTicket, At, HandlerOK, h, Kept
  <2>2. RowsTold
    BY <1>1, <1>w, <2>1 DEF InsertTicket, h
  <2> QED
    BY <1>1, <1>b, <1>g, <2>2 DEF InsertTicket
<1>2. CASE InsertFirstAssignment(r)
  BY <1>2, <1>b, <1>u DEF InsertFirstAssignment
<1>3. CASE ReadAnswers(r)
  <2>1. UNCHANGED tickets
    BY <1>3 DEF ReadAnswers, storage
  <2>2. CASE Finish(r)
    BY <1>b, <1>u, <2>1, <2>2
  <2>3. CASE ~Finish(r)
    <3>1. PICK n, k : Start(r, [h EXCEPT !.pc = "save", !.page = k, !.copy.seenAt = n])
      BY <1>3, <2>3 DEF ReadAnswers, h
    <3> DEFINE g == [h EXCEPT !.pc = "save", !.page = k, !.copy.seenAt = n]
    <3>2. g.ticket = h.ticket /\ g.copy.lastSide = h.copy.lastSide /\ g.own = h.own
      BY <1>h DEF Handler, TicketRow
    <3> HIDE DEF g
    <3>3. reqs' = [reqs EXCEPT ![r] = g]
      BY <3>1 DEF Start, g
    <3> QED
      BY <1>a, <1>u, <2>1, <3>2, <3>3 DEF Kept
  <2> QED
    BY <2>2, <2>3
<1>4. CASE ResolveAdmin(r)
  <2>1. PICK n : reqs' = [reqs EXCEPT ![r] = [h EXCEPT !.pc = "insertAnswer", !.now = n]]
    <3>1. [h EXCEPT !.pc = "insertAnswer"] = [h EXCEPT !.pc = "insertAnswer", !.now = h.now]
      BY <1>h DEF Handler
    <3> QED
      BY <1>4, <3>1 DEF ResolveAdmin, Start, h
  <2> DEFINE g == [h EXCEPT !.pc = "insertAnswer", !.now = n]
  <2>2. g.ticket = h.ticket /\ g.copy = h.copy /\ g.own = h.own
    BY <1>h DEF Handler
  <2> HIDE DEF g
  <2>3. UNCHANGED tickets
    BY <1>4 DEF ResolveAdmin, storage
  <2> QED
    BY <1>a, <1>u, <2>1, <2>2, <2>3 DEF Kept, g
<1>5. CASE InsertAnswer(r)
  <2>1. UNCHANGED tickets /\ h.ticket \in Tickets
    BY <1>5, <1>h DEF InsertAnswer, At, HandlerOK, h
  <2>2. CASE h.op = "answer"
    <3> DEFINE g == [h EXCEPT !.pc = "save", !.copy = TouchedBySeller(h.copy, h.now)]
    <3>1. reqs' = [reqs EXCEPT ![r] = g]
      BY <1>5, <2>2 DEF InsertAnswer, Start, h
    <3>2. g.ticket = h.ticket /\ g.copy.lastSide = "user" /\ g.own = h.own
      BY <1>h DEF Handler, TicketRow, TouchedBySeller
    <3> HIDE DEF g
    <3> QED
      BY <1>a, <1>u, <2>1, <3>1, <3>2 DEF Kept
  <2>3. CASE h.op = "reply"
    <3> DEFINE g == [h EXCEPT !.pc = IF LooksUnassigned(h.copy) THEN "autoAssign" ELSE "save",
                              !.copy = TouchedByStaff(h.copy, h.now)]
    <3>1. reqs' = [reqs EXCEPT ![r] = g]
      BY <1>5, <2>3 DEF InsertAnswer, Start, h
    <3>2. g.ticket = h.ticket
      BY <1>h DEF Handler
    <3>3. \A u \in Tickets : u = h.ticket => HasAnswerFrom(u, "admin")'
      BY <1>5, <1>t, <2>3, InsertAnswerGrows DEF h
    <3> HIDE DEF g
    <3> QED
      BY <1>u, <2>1, <3>1, <3>2, <3>3, ReplyKept DEF RowsTold
  <2>4. CASE h.op = "note"
    BY <1>5, <1>b, <1>u, <2>1, <2>4 DEF InsertAnswer, h
  <2> QED
    BY <1>5, <2>2, <2>3, <2>4 DEF InsertAnswer, h
<1>6. CASE AutoAssign(r)
  <2>1. h.ticket \in Tickets /\ UNCHANGED tickets
    BY <1>6, <1>h DEF AutoAssign, At, HandlerOK, storage, h
  <2>2. PICK n : Start(r, [h EXCEPT !.pc = "history", !.own = tickets[h.ticket],
                                    !.target = h.actor, !.now = n])
    BY <1>6 DEF AutoAssign, h
  <2> DEFINE g == [h EXCEPT !.pc = "history", !.own = tickets[h.ticket],
                            !.target = h.actor, !.now = n]
  <2>3. g.ticket = h.ticket /\ g.copy = h.copy /\ g.own = tickets[h.ticket]
    BY <1>h DEF Handler
  <2> HIDE DEF g
  <2>4. reqs' = [reqs EXCEPT ![r] = g]
    BY <2>2 DEF Start, g
  <2>5. g.copy.lastSide = "admin" \/ g.own.lastSide = "admin"
          => \A t \in Tickets : t = h.ticket => HasAnswerFrom(t, "admin")'
    BY <1>k, <1>t, <2>1, <2>3, ReplyStays DEF ReplyInv, Told
  <2> QED
    BY <1>u, <2>1, <2>3, <2>4, <2>5, ReplyKept DEF RowsTold
<1>7. CASE EndAssignments(r)
  <2>1. \/ Goto(r, "target")
        \/ reqs' = [reqs EXCEPT ![r] = [h EXCEPT !.pc = "saveOwn", !.own.assigned = Null]]
    BY <1>7 DEF EndAssignments, Start, Goto, h
  <2> DEFINE g == [h EXCEPT !.pc = "saveOwn", !.own.assigned = Null]
  <2>2. g.ticket = h.ticket /\ g.copy = h.copy /\ g.own.lastSide = h.own.lastSide
    BY <1>h DEF Handler, TicketRow
  <2> HIDE DEF g
  <2>3. Goto(r, "target") \/ reqs' = [reqs EXCEPT ![r] = g]
    BY <2>1 DEF g
  <2>4. UNCHANGED tickets
    BY <1>7 DEF EndAssignments
  <2> QED
    BY <1>a, <1>g, <1>u, <2>2, <2>3, <2>4 DEF Kept
<1>8. CASE FindTarget(r)
  BY <1>8, <1>b, <1>g, <1>u DEF FindTarget, storage
<1>9. CASE InsertAssignment(r)
  <2> DEFINE g == [h EXCEPT !.pc = "saveOwn", !.own.assigned = h.target]
  <2>1. reqs' = [reqs EXCEPT ![r] = g] /\ UNCHANGED tickets
    BY <1>9 DEF InsertAssignment, Start, h
  <2>2. g.ticket = h.ticket /\ g.copy = h.copy /\ g.own.lastSide = h.own.lastSide
    BY <1>h DEF Handler, TicketRow
  <2> HIDE DEF g
  <2> QED
    BY <1>a, <1>u, <2>1, <2>2 DEF Kept
<1>10. CASE SelectForSave(r)
  <2> DEFINE g(pc) == [h EXCEPT !.pc = pc, !.base = tickets[h.ticket]]
  <2>1. PICK pc : reqs' = [reqs EXCEPT ![r] = g(pc)]
    BY <1>10 DEF SelectForSave, Start, h
  <2>2. g(pc).ticket = h.ticket /\ g(pc).copy = h.copy /\ g(pc).own = h.own
    BY <1>h DEF Handler
  <2>3. UNCHANGED tickets
    BY <1>10 DEF SelectForSave, storage
  <2> HIDE DEF g
  <2> QED
    BY <1>a, <1>u, <2>1, <2>2, <2>3 DEF Kept
<1>11. CASE UpdateOwn(r)
  <2> DEFINE row == Merged(h.own, h.base, tickets[h.ticket])
  <2>1. h.ticket \in Tickets /\ tickets' = [tickets EXCEPT ![h.ticket] = row]
    BY <1>11, <1>h DEF UpdateOwn, At, HandlerOK, h
  <2>2. row.lastSide \in {h.own.lastSide, tickets[h.ticket].lastSide}
    BY MergedSide
  <2> HIDE DEF row
  <2>3. RowsTold
    BY <1>w, <2>1, <2>2 DEF Kept
  <2> QED
    BY <1>11, <1>b, <1>g, <2>3 DEF UpdateOwn
<1>12. CASE Update(r)
  <2> DEFINE row == Merged(h.copy, h.base, tickets[h.ticket])
  <2>1. h.ticket \in Tickets /\ tickets' = [tickets EXCEPT ![h.ticket] = row]
    BY <1>12, <1>h DEF Update, At, HandlerOK, h
  <2>2. row.lastSide \in {h.copy.lastSide, tickets[h.ticket].lastSide}
    BY MergedSide
  <2> HIDE DEF row
  <2>3. RowsTold
    BY <1>w, <2>1, <2>2 DEF Kept
  <2> QED
    BY <1>12, <1>b, <2>3 DEF Update
<1> QED
  BY <1>1, <1>2, <1>3, <1>4, <1>5, <1>6, <1>7, <1>8, <1>9, <1>10, <1>11, <1>12 DEF Step

LEMMA InitReply == Init => ReplyInv
<1> SUFFICES ASSUME Init PROVE ReplyInv
  OBVIOUS
<1>1. NoRow.lastSide = "user" /\ Idle.copy = NoRow /\ Idle.own = NoRow
  BY DEF NoRow, Idle
<1> QED
  BY <1>1, InitTypes DEF Init, ReplyInv, Told

LEMMA NextReply == ReplyInv /\ [Next]_vars => ReplyInv'
<1> SUFFICES ASSUME ReplyInv, [Next]_vars PROVE ReplyInv'
  OBVIOUS
<1>t. TypeInv /\ TypeInv'
  BY NextTypes DEF ReplyInv
<1>1. ASSUME NEW r \in Requests, Abort(r) PROVE ReplyInv'
  <2>1. Idle.copy.lastSide = "user" /\ Idle.own.lastSide = "user"
    BY DEF Idle, NoRow
  <2>2. \A t \in Tickets : Told(t, tickets[t])'
    BY <1>1, <1>t, ReplyStays DEF Abort, storage, ReplyInv, Told
  <2> QED
    BY <1>1, <2>1, <2>2, ReplyKept DEF Abort, Finish
<1>2. CASE UNCHANGED <<tickets, answers, reqs>>
  BY <1>t, <1>2 DEF ReplyInv, Told, HasAnswerFrom
<1>3. ASSUME NEW a \in Admins, ToggleActive(a) \/ RemoveAdmin(a)
      PROVE  UNCHANGED <<tickets, answers, reqs>>
  BY <1>3 DEF ToggleActive, RemoveAdmin, AdminRequest
<1> QED
  BY <1>1, <1>2, <1>3, ReplyKeptByRequests, ReplyKeptByStep DEF Next, AtRest, vars

(* Whatever overlaps and whatever is cut short: no ticket is marked as     *)
(* last written to by the staff unless the staff did write in it, so no    *)
(* seller gets an unread badge without a reply to read.                    *)
THEOREM NoPhantomReplyCorrect == Spec => []NoPhantomReply
<1>1. ReplyInv => NoPhantomReply
  BY DEF ReplyInv, NoPhantomReply, Told
<1> QED
  BY <1>1, InitReply, NextReply, PTL DEF Spec

===============================================================================
