----------------------------- MODULE RateLimit -----------------------------
(***************************************************************************)
(* What the throttle promises: every user has a bucket that fills by       *)
(* itself, one unit per tick up to Full, and an update that gets through   *)
(* takes the price of one out of it.  There is no table, no time stamp and *)
(* no cleanup.  So over any period a user gets through at most a burst,    *)
(* and what the period pays for.                                           *)
(***************************************************************************)
EXTENDS Integers

CONSTANTS
  Users,
  Burst,    \* updates that may come at once
  Refill    \* ticks that pay for one more

Full == Burst * Refill

VARIABLES
  level,   \* what is in each bucket
  passed   \* flips with every update of a user that gets through: what can be
           \* seen from outside

limit == <<level, passed>>

Serve(u) ==
  /\ level[u] >= Refill
  /\ level' = [level EXCEPT ![u] = @ - Refill]
  /\ passed' = [passed EXCEPT ![u] = ~@]

Pass ==
  /\ level' = [u \in Users |-> IF level[u] < Full THEN level[u] + 1 ELSE Full]
  /\ UNCHANGED passed

(* A restart forgets everybody.                                            *)
Forget ==
  /\ level' = [u \in Users |-> Full]
  /\ UNCHANGED passed

Init ==
  /\ level = [u \in Users |-> Full]
  /\ passed = [u \in Users |-> FALSE]

Next ==
  \/ \E u \in Users : Serve(u)
  \/ Pass
  \/ Forget

Spec == Init /\ [][Next]_limit
=============================================================================
