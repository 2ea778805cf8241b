--------------------------- MODULE MCBookingRaces ---------------------------
(* Bounded instances of BookingRaces for TLC.                              *)
EXTENDS BookingRaces, TLC

(* On SQLite: the sweep and the master among holds and receipts, blocked   *)
(* slots, a client's late cancellation, moves.  On PostgreSQL: moves among *)
(* holds, receipts and the sweep; cancellations and blocked slots.         *)
TwoSlots ==
  {[row_locks |-> FALSE, calls |-> {"hold", "confirm", "sweep", "cancel"}],
   [row_locks |-> FALSE, calls |-> {"hold", "cancel", "toggle"}],
   [row_locks |-> FALSE, calls |-> {"hold", "confirm", "client_cancel"}],
   [row_locks |-> FALSE, calls |-> {"hold", "reschedule", "sweep"}],
   [row_locks |-> TRUE,
    calls |-> {"hold", "confirm", "sweep", "reschedule"}],
   [row_locks |-> TRUE, calls |-> {"hold", "cancel", "toggle"}]}

SweepOnPostgres ==
  {[row_locks |-> TRUE, calls |-> {"hold", "confirm", "sweep"}]}

Interchangeable ==
  Permutations(Users) \cup Permutations(BookingIds) \cup Permutations(Sessions)
=============================================================================
