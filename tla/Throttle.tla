------------------------------ MODULE Throttle ------------------------------
(***************************************************************************)
(* ThrottlingMiddleware (src/middlewares/throttling.py): a minimum gap     *)
(* between two updates of one user, and a token bucket that is refilled    *)
(* when it is looked at.  Times are ages, in ticks, as far back as they    *)
(* matter; tokens are counted in the ticks it takes to earn them, so that  *)
(* one update costs Refill of them.                                        *)
(*                                                                         *)
(* This is a part of the process: module Updates puts it in front of the   *)
(* handlers.                                                               *)
(***************************************************************************)
EXTENDS Integers

CONSTANTS
  Users,
  Burst,        \* THROTTLE_BURST
  Refill,       \* THROTTLE_REFILL_SECONDS
  MinInterval,  \* THROTTLE_MIN_INTERVAL
  Ttl           \* THROTTLE_TTL_SECONDS

(* A forgotten user starts with a full bucket, so a bucket must have had   *)
(* the time to fill before it is forgotten: 600 seconds against 8.         *)
ASSUME ThrottleAssumption ==
  /\ {Burst, Refill} \subseteq Nat \ {0}
  /\ {MinInterval, Ttl} \subseteq Nat
  /\ Ttl >= Burst * Refill

VARIABLES
  budgets,       \* per user, tokens and the age of updated_at; or NoBudget
  last_cleanup,  \* its age
  passed         \* history: flips with every update of a user that is let
                 \* through

throttle == <<budgets, last_cleanup, passed>>

Full == Burst * Refill
Never == -1

Budget(tokens, idle) == [tokens |-> tokens, idle |-> idle]
NoBudget == Budget(Full, Never)

Refilled(budget) ==
  LET tokens == budget.tokens + budget.idle
  IN IF tokens < Full THEN tokens ELSE Full

Level(budget) == IF budget = NoBudget THEN Full ELSE Refilled(budget)

Limit == INSTANCE RateLimit WITH level <- [u \in Users |-> Level(budgets[u])]

-----------------------------------------------------------------------------
(***************************************************************************)
(* An update of user u: forget the users that have been idle for long,     *)
(* then let u pass or not.                                                 *)
(***************************************************************************)
Due == last_cleanup >= Ttl

CleanupOfEmpty ==   \* mutant: the table drops whoever has run out of tokens
  [u \in Users |-> IF Due /\ budgets[u].tokens < Refill THEN NoBudget ELSE budgets[u]]

Cleanup ==
  [u \in Users |-> IF Due /\ budgets[u].idle > Ttl THEN NoBudget ELSE budgets[u]]

Update(u, budget) ==
  /\ budgets' = [Cleanup EXCEPT ![u] = budget]
  /\ last_cleanup' = IF Due THEN 0 ELSE last_cleanup

Allow(u) ==
  LET budget == Cleanup[u] IN
  /\ \/ budget = NoBudget
     \/ budget.idle >= MinInterval /\ Refilled(budget) >= Refill
  /\ Update(u, Budget(Level(budget) - Refill, 0))
  /\ passed' = [passed EXCEPT ![u] = ~@]

TooSoon(budget) == budget # NoBudget /\ budget.idle < MinInterval

RefuseTooSoonRestarts(u) ==   \* mutant: a refused tap restarts the interval
  /\ TooSoon(Cleanup[u])
  /\ Update(u, Budget(Refilled(Cleanup[u]), 0))
  /\ UNCHANGED passed

(* A double tap leaves the budget as it is.                                *)
RefuseTooSoon(u) ==
  /\ TooSoon(Cleanup[u])
  /\ Update(u, Cleanup[u])
  /\ UNCHANGED passed

(* An empty bucket is refilled as far as it goes, and the interval starts  *)
(* again.                                                                  *)
RefuseEmpty(u) ==
  LET budget == Cleanup[u] IN
  /\ budget # NoBudget /\ ~TooSoon(budget)
  /\ Refilled(budget) < Refill
  /\ Update(u, Budget(Refilled(budget), 0))
  /\ UNCHANGED passed

Refuse(u) == RefuseTooSoon(u) \/ RefuseEmpty(u)

-----------------------------------------------------------------------------
Older(age, oldest) == IF age < oldest THEN age + 1 ELSE oldest

ThrottleElapse ==
  /\ budgets' = [u \in Users |->
                   IF budgets[u] = NoBudget THEN NoBudget
                   ELSE [budgets[u] EXCEPT !.idle = Older(@, Ttl + 1)]]
  /\ last_cleanup' = Older(last_cleanup, Ttl)
  /\ UNCHANGED passed

ThrottleInit ==
  /\ budgets = [u \in Users |-> NoBudget]
  /\ last_cleanup = 0
  /\ passed = [u \in Users |-> FALSE]

(* A new process knows nobody.                                             *)
ThrottleRestart ==
  /\ budgets' = [u \in Users |-> NoBudget]
  /\ last_cleanup' = 0
  /\ UNCHANGED passed

ThrottleTypeOK ==
  /\ budgets \in [Users -> {NoBudget} \cup
                            [tokens : 0..(Full - 1), idle : 0..(Ttl + 1)]]
  /\ last_cleanup \in 0..Ttl
  /\ passed \in [Users -> BOOLEAN]

(* "A token bucket bounds the sustained rate": the lazily refilled table,  *)
(* cleaned up now and then, lets through what a bucket that fills by       *)
(* itself lets through, whoever is forgotten and whatever is recomputed.   *)
BucketImplemented == Limit!Spec
=============================================================================
