---------------------------- MODULE MCClientForm ----------------------------
(* Bounded instances of ClientForm for TLC.                                *)
EXTENDS ClientForm, TLC

MCOneHours == {<<2, 4>>}

(* A sequence with two bookings to come; SQLite with one row at a time.    *)
MCReuse == {[reuse |-> TRUE, ids |-> {1}]}
MCPolicies == MCReuse \cup {[reuse |-> FALSE, ids |-> {1, 2}]}

Clients == Permutations(Users)
=============================================================================
