------------------------------ MODULE TicketDesk ------------------------------
(***************************************************************************)
(* What the ticketing service promises its users, with every request one   *)
(* step: a ticket is opened by a seller, takes public posts only while it  *)
(* is open and internal notes at any time, is closed and reopened only     *)
(* because somebody asked for it, and carries an unread badge for the      *)
(* seller from a staff reply until the seller next looks or answers.       *)
(* Ticketing implements this when no two requests work on one ticket at    *)
(* the same time: see ImplementsDesk in TicketingProperties.               *)
(***************************************************************************)
EXTENDS Sequences

CONSTANT Tickets

VARIABLES status,  \* "none", "open" or "closed"
          thread,  \* the sides of the posts on a ticket, in order
          badge    \* is the ticket unread for its seller?

deskVars == <<status, thread, badge>>

Init ==
  /\ status = [t \in Tickets |-> "none"]
  /\ thread = [t \in Tickets |-> << >>]
  /\ badge = [t \in Tickets |-> FALSE]

Open(t) ==
  /\ status[t] = "none"
  /\ status' = [status EXCEPT ![t] = "open"]
  /\ UNCHANGED <<thread, badge>>

Post(t, side) == thread' = [thread EXCEPT ![t] = Append(@, side)]

SellerAnswers(t) ==
  /\ status[t] = "open"
  /\ Post(t, "user")
  /\ badge' = [badge EXCEPT ![t] = FALSE]
  /\ UNCHANGED status

StaffReplies(t) ==
  /\ status[t] = "open"
  /\ Post(t, "admin")
  /\ badge' = [badge EXCEPT ![t] = TRUE]
  /\ UNCHANGED status

StaffNotes(t) ==
  /\ status[t] # "none"
  /\ Post(t, "internal")
  /\ UNCHANGED <<status, badge>>

SellerLooks(t) ==
  /\ badge[t]
  /\ badge' = [badge EXCEPT ![t] = FALSE]
  /\ UNCHANGED <<status, thread>>

SetStatus(t, from, to) ==
  /\ status[t] = from
  /\ status' = [status EXCEPT ![t] = to]
  /\ UNCHANGED <<thread, badge>>

Next == \E t \in Tickets :
  \/ Open(t)
  \/ SellerAnswers(t)
  \/ StaffReplies(t)
  \/ StaffNotes(t)
  \/ SellerLooks(t)
  \/ SetStatus(t, "open", "closed")
  \/ SetStatus(t, "closed", "open")

Spec == Init /\ [][Next]_deskVars

===============================================================================
