------------------------------- MODULE Agenda -------------------------------
(***************************************************************************)
(* What the salon promises its clients, without slot rows, booking rows or *)
(* sweeps: every client has at most one visit ahead, no two share a slot,  *)
(* and a visit leaves the agenda for one of four reasons only.  It is      *)
(* over; its hold has run out before it was paid; its client or the master *)
(* cancels it; or the master moves it.                                     *)
(***************************************************************************)
EXTENDS Integers

CONSTANTS
  Users,
  Slots,
  NoVisit

VARIABLES
  now,
  agenda   \* per client, the visit ahead: its slot, when it is over, whether it
           \* is paid and, if not, how long the slot is held; or NoVisit

Visit == [slot : Slots, end : Int, paid : BOOLEAN, until : Int]

Ahead(u) == agenda[u] # NoVisit
Lapsed(u) == Ahead(u) /\ ~agenda[u].paid /\ agenda[u].until < now

Without(U) == [u \in Users |-> IF u \in U THEN NoVisit ELSE agenda[u]]

(* Client u gets a visit, in a slot that is nobody else's once the clients *)
(* in U have made room.                                                    *)
Enter(u, U) ==
  /\ agenda'[u] \in Visit /\ agenda'[u].end > now
  /\ \A v \in Users \ {u} :
       /\ agenda'[v] = Without(U)[v]
       /\ agenda'[v] # NoVisit => agenda'[v].slot # agenda'[u].slot
  /\ UNCHANGED now

(* A client takes a slot that is free, or whose hold has run out.          *)
Book(u) ==
  /\ ~Ahead(u)
  /\ Enter(u, {v \in Users : Lapsed(v) /\ agenda'[v] = NoVisit})
  /\ ~agenda'[u].paid /\ agenda'[u].until >= now

Pay(u) ==
  /\ Ahead(u) /\ ~agenda[u].paid /\ ~Lapsed(u)
  /\ agenda' = [agenda EXCEPT ![u] = [slot |-> @.slot, end |-> @.end,
                                       paid |-> TRUE, until |-> -1]]
  /\ UNCHANGED now

(* The master moves a visit, or gives one that is just over a new time.    *)
Move(u) ==
  /\ Enter(u, {})
  /\ Ahead(u) => agenda'[u].paid = agenda[u].paid

Cancel(u) == agenda' = Without({u}) /\ UNCHANGED now

(* A sweep takes all that it finds.                                        *)
Lapse ==
  /\ agenda' = Without({u \in Users : Lapsed(u) /\ agenda'[u] = NoVisit})
  /\ UNCHANGED now

Pass ==
  /\ now' = now + 1
  /\ agenda' = Without({u \in Users : Ahead(u) /\ agenda[u].end <= now'})

Init == now = 0 /\ agenda = [u \in Users |-> NoVisit]

Next ==
  \/ \E u \in Users : Book(u) \/ Pay(u) \/ Cancel(u) \/ Move(u)
  \/ Lapse
  \/ Pass

Spec == Init /\ [][Next]_<<now, agenda>>
=============================================================================
