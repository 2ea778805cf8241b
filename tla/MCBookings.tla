----------------------------- MODULE MCBookings -----------------------------
(* Bounded instances of Bookings for TLC.                                  *)
EXTENDS Bookings, TLC

MCHours == {<<0, 1>>, <<0, 2>>}
MCLongHours == {<<1, 4>>}

ClientsAndRows == Permutations(Users) \cup Permutations(BookingIds)
=============================================================================
