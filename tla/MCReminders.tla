----------------------------- MODULE MCReminders -----------------------------
(* A bounded instance of Reminders for TLC.                                *)
EXTENDS Reminders, TLC

MCWindow == [k \in Kinds |-> IF k = "24h" THEN <<5, 5>> ELSE <<1, 4>>]

Visits == Permutations(BookingIds)
=============================================================================
