---------------------------- MODULE UpdatesProofs ----------------------------
(***************************************************************************)
(* The throttle keeps the promise of RateLimit, and the cooldowns follow   *)
(* the messages, for every number of clients, tasks and topics, and every  *)
(* setting of the limits that lets a bucket fill before it is forgotten.   *)
(***************************************************************************)
EXTENDS Updates, TLAPS

(* The arithmetic of a bucket.                                             *)
LEMMA BucketSize ==
  /\ Burst \in Nat \ {0} /\ Refill \in Nat \ {0}
  /\ MinInterval \in Nat /\ Ttl \in Nat
  /\ Full \in Nat /\ Refill <= Full /\ Full <= Ttl
<1>1. Burst \in Nat \ {0} /\ Refill \in Nat \ {0} /\ MinInterval \in Nat /\ Ttl \in Nat
  BY ThrottleAssumption
<1>2. Burst * Refill = (Burst - 1) * Refill + Refill
  BY <1>1
<1>3. (Burst - 1) * Refill \in Nat
  BY <1>1
<1> QED
  BY <1>1, <1>2, <1>3, ThrottleAssumption DEF Full

Budgets == {NoBudget} \cup [tokens : 0..(Full - 1), idle : 0..(Ttl + 1)]

LEMMA BudgetCases ==
  ASSUME NEW budget \in Budgets
  PROVE  \/ budget = NoBudget
         \/ /\ budget # NoBudget
            /\ budget.tokens \in 0..(Full - 1) /\ budget.idle \in 0..(Ttl + 1)
BY DEF Budgets, NoBudget, Budget, Never

LEMMA NewBudget ==
  ASSUME NEW tokens \in 0..(Full - 1)
  PROVE  /\ Budget(tokens, 0) \in Budgets
         /\ Budget(tokens, 0) # NoBudget
         /\ Level(Budget(tokens, 0)) = tokens
BY BucketSize DEF Budgets, NoBudget, Budget, Never, Level, Refilled

LEMMA LevelTyped ==
  ASSUME NEW budget \in Budgets
  PROVE  /\ Level(budget) \in 0..Full
         /\ budget # NoBudget => Level(budget) = Refilled(budget)
BY BudgetCases, BucketSize DEF Level, Refilled

(* Who is forgotten had a full bucket: it had the time to fill.            *)
LEMMA CleanupKeepsLevels ==
  ASSUME budgets \in [Users -> Budgets], NEW u \in Users
  PROVE  /\ Cleanup \in [Users -> Budgets]
         /\ Level(Cleanup[u]) = Level(budgets[u])
<1>1. NoBudget \in Budgets
  BY DEF Budgets
<1>2. Cleanup \in [Users -> Budgets]
  BY <1>1 DEF Cleanup
<1>3. Cleanup[u] = IF Due /\ budgets[u].idle > Ttl THEN NoBudget ELSE budgets[u]
  BY DEF Cleanup
<1>4. ASSUME budgets[u] # NoBudget, budgets[u].idle > Ttl
      PROVE  Level(budgets[u]) = Full
  BY <1>4, BudgetCases, BucketSize DEF Level, Refilled
<1>5. Level(NoBudget) = Full
  BY DEF Level
<1> QED
  BY <1>2, <1>3, <1>4, <1>5

(* Time fills a bucket by one, also in a table that is only looked at.     *)
LEMMA TimeFills ==
  ASSUME budgets \in [Users -> Budgets], ThrottleElapse, NEW u \in Users
  PROVE  /\ budgets' \in [Users -> Budgets]
         /\ Level(budgets'[u])
              = IF Level(budgets[u]) < Full THEN Level(budgets[u]) + 1 ELSE Full
<1> DEFINE aged(b) == [b EXCEPT !.idle = Older(@, Ttl + 1)]
<1>1. budgets' = [v \in Users |-> IF budgets[v] = NoBudget THEN NoBudget
                                  ELSE aged(budgets[v])]
  BY DEF ThrottleElapse
<1>2. ASSUME NEW b \in Budgets, b # NoBudget
      PROVE  /\ aged(b) \in Budgets /\ aged(b) # NoBudget
             /\ Level(aged(b)) = IF Level(b) < Full THEN Level(b) + 1 ELSE Full
  <2>1. b \in [tokens : 0..(Full - 1), idle : 0..(Ttl + 1)]
    BY <1>2 DEF Budgets
  <2>2. Older(b.idle, Ttl + 1) \in 0..(Ttl + 1)
    BY <2>1, BucketSize DEF Older
  <2>3. /\ aged(b) \in [tokens : 0..(Full - 1), idle : 0..(Ttl + 1)]
        /\ aged(b).tokens = b.tokens /\ aged(b).idle = Older(b.idle, Ttl + 1)
    BY <2>1, <2>2
  <2>4. aged(b) # NoBudget
    BY <2>2, <2>3, BucketSize DEF NoBudget, Budget, Never
  <2> HIDE DEF aged
  <2>5. Level(aged(b)) = Refilled(aged(b)) /\ Level(b) = Refilled(b)
    BY <1>2, <2>4 DEF Level
  <2> QED
    BY <2>1, <2>2, <2>3, <2>4, <2>5, BucketSize DEF Refilled, Older, Budgets
<1> HIDE DEF aged
<1>3. NoBudget \in Budgets /\ Level(NoBudget) = Full
  BY DEF Budgets, Level
<1>4. budgets' \in [Users -> Budgets]
  BY <1>1, <1>2, <1>3
<1>5. CASE budgets[u] = NoBudget
  <2>1. budgets'[u] = NoBudget
    BY <1>1, <1>5
  <2>2. Level(budgets[u]) = Full /\ Level(budgets'[u]) = Full
    BY <1>3, <1>5, <2>1
  <2> QED
    BY <1>4, <2>2, BucketSize
<1>6. CASE budgets[u] # NoBudget
  BY <1>1, <1>2, <1>6
<1> QED
  BY <1>4, <1>5, <1>6

-----------------------------------------------------------------------------
(***************************************************************************)
(* What one update does to the buckets.                                    *)
(***************************************************************************)
LEMMA AllowServes ==
  ASSUME budgets \in [Users -> Budgets], NEW u \in Users, Allow(u)
  PROVE  /\ budgets' \in [Users -> Budgets]
         /\ Level(budgets[u]) >= Refill
         /\ \A v \in Users :
              Level(budgets'[v]) = IF v = u THEN Level(budgets[u]) - Refill
                                   ELSE Level(budgets[v])
<1>1. Cleanup \in [Users -> Budgets] /\ Level(Cleanup[u]) = Level(budgets[u])
  BY CleanupKeepsLevels
<1>2. Level(Cleanup[u]) \in 0..Full /\ Level(Cleanup[u]) >= Refill
  <2>1. CASE Cleanup[u] = NoBudget
    BY <2>1, BucketSize DEF Level
  <2>2. CASE Cleanup[u] # NoBudget
    BY <1>1, <2>2, LevelTyped DEF Allow
  <2> QED
    BY <2>1, <2>2
<1> DEFINE left == Level(Cleanup[u]) - Refill
<1>3. left \in 0..(Full - 1)
  BY <1>2, BucketSize
<1>4. budgets' = [Cleanup EXCEPT ![u] = Budget(left, 0)]
  BY DEF Allow, Update
<1>5. Budget(left, 0) \in Budgets /\ Level(Budget(left, 0)) = left
  BY <1>3, NewBudget
<1>6. budgets' \in [Users -> Budgets]
  BY <1>1, <1>4, <1>5
<1>7. ASSUME NEW v \in Users
      PROVE  Level(budgets'[v]) = IF v = u THEN left ELSE Level(budgets[v])
  <2>1. CASE v = u
    BY <1>1, <1>4, <1>5, <2>1
  <2>2. CASE v # u
    BY <1>1, <1>4, <2>2, CleanupKeepsLevels
  <2> QED
    BY <2>1, <2>2
<1> QED
  BY <1>1, <1>2, <1>6, <1>7

LEMMA RefuseTakesNothing ==
  ASSUME budgets \in [Users -> Budgets], NEW u \in Users, Refuse(u)
  PROVE  /\ budgets' \in [Users -> Budgets]
         /\ \A v \in Users : Level(budgets'[v]) = Level(budgets[v])
<1>1. Cleanup \in [Users -> Budgets]
      /\ \A v \in Users : Level(Cleanup[v]) = Level(budgets[v])
  BY CleanupKeepsLevels
<1>2. PICK budget \in Budgets :
        /\ budgets' = [Cleanup EXCEPT ![u] = budget]
        /\ Level(budget) = Level(Cleanup[u])
  <2>1. CASE RefuseTooSoon(u)
    BY <1>1, <2>1 DEF RefuseTooSoon, Update
  <2>2. CASE RefuseEmpty(u)
    <3>1. /\ Level(Cleanup[u]) = Refilled(Cleanup[u])
          /\ Level(Cleanup[u]) \in 0..Full
      BY <1>1, <2>2, LevelTyped DEF RefuseEmpty
    <3>2. Refilled(Cleanup[u]) \in 0..(Full - 1)
      BY <2>2, <3>1, BucketSize DEF RefuseEmpty
    <3>3. budgets' = [Cleanup EXCEPT ![u] = Budget(Refilled(Cleanup[u]), 0)]
      BY <2>2 DEF RefuseEmpty, Update
    <3> QED
      BY <3>1, <3>2, <3>3, NewBudget
  <2> QED
    BY <2>1, <2>2 DEF Refuse
<1>3. ASSUME NEW v \in Users
      PROVE  Level(budgets'[v]) = Level(budgets[v])
  BY <1>1, <1>2
<1> QED
  BY <1>1, <1>2, <1>3

-----------------------------------------------------------------------------
(***************************************************************************)
(* The types, part by part.                                                *)
(***************************************************************************)
LEMMA ThrottleTypeStep ==
  ASSUME ThrottleTypeOK, [Next]_vars
  PROVE  ThrottleTypeOK'
<1>1. /\ budgets \in [Users -> Budgets] /\ last_cleanup \in 0..Ttl
      /\ passed \in [Users -> BOOLEAN]
  BY DEF ThrottleTypeOK, Budgets
<1>2. CASE UNCHANGED throttle
  BY <1>2 DEF ThrottleTypeOK, throttle
<1>3. ASSUME NEW u \in Users, Allow(u)
      PROVE  ThrottleTypeOK'
  <2>1. budgets' \in [Users -> Budgets]
    BY <1>1, <1>3, AllowServes
  <2>2. last_cleanup' \in 0..Ttl /\ passed' \in [Users -> BOOLEAN]
    BY <1>1, <1>3, BucketSize DEF Allow, Update
  <2> QED
    BY <2>1, <2>2 DEF ThrottleTypeOK, Budgets
<1>4. ASSUME NEW u \in Users, Refuse(u)
      PROVE  ThrottleTypeOK'
  <2>1. budgets' \in [Users -> Budgets]
    BY <1>1, <1>4, RefuseTakesNothing
  <2>2. last_cleanup' \in 0..Ttl /\ passed' = passed
    BY <1>1, <1>4, BucketSize DEF Refuse, RefuseTooSoon, RefuseEmpty, Update
  <2> QED
    BY <1>1, <2>1, <2>2 DEF ThrottleTypeOK, Budgets
<1>5. CASE ThrottleElapse
  <2>1. budgets' \in [Users -> Budgets]
    <3>1. CASE Users = {}
      BY <1>5, <3>1 DEF ThrottleElapse
    <3>2. CASE Users # {}
      BY <1>1, <1>5, <3>2, TimeFills
    <3> QED
      BY <3>1, <3>2
  <2>2. last_cleanup' \in 0..Ttl /\ passed' = passed
    BY <1>1, <1>5, BucketSize DEF ThrottleElapse, Older
  <2> QED
    BY <1>1, <2>1, <2>2 DEF ThrottleTypeOK, Budgets
<1>6. CASE ThrottleRestart
  BY <1>1, <1>6, BucketSize DEF ThrottleRestart, ThrottleTypeOK
<1> QED
  BY <1>2, <1>3, <1>4, <1>5, <1>6
  DEF Next, TaskStep, Arrives, Dropped, HandlerEnds, HandlerCrashes, Replied,
      ReplyFails, Alert, AlertEnds, BackgroundError, NetworkLost, Reconnect, Stop,
      Boot, Tick, vars

(* A message is not the absence of one: no topic is called "none".         *)
LEMMA MessageSent ==
  ASSUME NEW k \in Topics
  PROVE  Message(k) # Silent /\ Message(k) \in [topic : Topics, age : 0..Timeout]
BY UpdatesAssumption, AlertsAssumption DEF Message, Silent

LEMMA AlertsTypeStep ==
  ASSUME AlertsTypeOK, [Next]_vars
  PROVE  AlertsTypeOK'
<1> USE AlertsAssumption
<1> DEFINE Messages == {Silent} \cup [topic : Topics, age : 0..Timeout]
<1>1. CASE UNCHANGED alerts
  BY <1>1 DEF AlertsTypeOK, alerts
<1>2. ASSUME NEW x \in Senders, NEW k \in Topics, Send(x, k)
      PROVE  AlertsTypeOK'
  BY <1>2, MessageSent DEF AlertsTypeOK, Send
<1>3. ASSUME NEW x \in Senders, Delivered(x)
      PROVE  AlertsTypeOK'
  <2>1. sending[x].topic \in Topics /\ sending[x].age \in 0..Timeout
    BY <1>3 DEF AlertsTypeOK, Delivered
  <2>2. sending' \in [Senders -> Messages]
    BY <1>3 DEF AlertsTypeOK, Delivered
  <2>3. /\ sent_at' \in [Topics -> 0..Cooldown] /\ latest' \in [Topics -> 0..Cooldown]
    BY <1>3, <2>1 DEF AlertsTypeOK, Delivered, Younger
  <2> QED
    BY <2>2, <2>3 DEF AlertsTypeOK
<1>4. ASSUME NEW x \in Senders, NotDelivered(x)
      PROVE  AlertsTypeOK'
  BY <1>4 DEF AlertsTypeOK, NotDelivered
<1>5. CASE AlertsElapse
  <2>1. /\ sent_at' \in [Topics -> 0..Cooldown] /\ latest' \in [Topics -> 0..Cooldown]
    BY <1>5 DEF AlertsTypeOK, AlertsElapse, Younger
  <2>2. ASSUME NEW x \in Senders, sending[x] # Silent
        PROVE  [sending[x] EXCEPT !.age = @ + 1] \in [topic : Topics, age : 0..Timeout]
    <3>1. /\ sending[x] \in [topic : Topics, age : 0..Timeout]
          /\ sending[x].age < Timeout
      BY <1>5, <2>2 DEF AlertsTypeOK, AlertsElapse
    <3> QED
      BY <3>1
  <2>3. sending' \in [Senders -> Messages]
    BY <1>5, <2>2 DEF AlertsElapse
  <2> QED
    BY <2>1, <2>3 DEF AlertsTypeOK
<1>6. CASE Stop
  BY <1>6 DEF AlertsTypeOK, Stop
<1>7. "crash" \in Topics
  BY UpdatesAssumption
<1> QED
  BY <1>1, <1>2, <1>3, <1>4, <1>5, <1>6, <1>7
  DEF Next, TaskStep, Arrives, Dropped, HandlerEnds, HandlerCrashes, Replied,
      ReplyFails, Alert, AlertEnds, BackgroundError, NetworkLost, Reconnect,
      Boot, Tick, vars

(* A task waits for Telegram exactly while its message is on the way.      *)
ProcessTypeOK ==
  /\ polling \in {"on", "lost", "off"}
  /\ wait \in 0..RECONNECT_MAX /\ backoff \in RECONNECT_START..RECONNECT_MAX
  /\ task \in [Senders -> {"idle", "handler", "failed", "alert"}]
  /\ \A x \in Senders : task[x] = "alert" <=> sending[x] # Silent

LEMMA ProcessTypeStep ==
  ASSUME AlertsTypeOK, ProcessTypeOK, [Next]_vars
  PROVE  ProcessTypeOK'
<1> USE UpdatesAssumption
<1>1. CASE UNCHANGED <<process, task, sending>>
  BY <1>1 DEF ProcessTypeOK, process
<1>2. ASSUME NEW x \in Senders, NEW step \in {"idle", "handler", "failed"},
             task[x] # "alert", Become(x, step), UNCHANGED <<process, sending>>
      PROVE  ProcessTypeOK'
  BY <1>2 DEF ProcessTypeOK, process, Become
<1>3. ASSUME NEW x \in Senders, NEW k \in Topics, Alert(x, k), task[x] # "alert"
      PROVE  ProcessTypeOK'
  <2>1. CASE Suppressed(k)
    BY <1>2, <1>3, <2>1 DEF Alert, alerts
  <2>2. CASE ~Suppressed(k)
    <3>1. /\ task' = [task EXCEPT ![x] = "alert"]
          /\ sending' = [sending EXCEPT ![x] = Message(k)]
          /\ UNCHANGED process
      BY <1>3, <2>2 DEF Alert, Become, Send
    <3> QED
      BY <3>1, MessageSent DEF ProcessTypeOK, AlertsTypeOK, process
  <2> QED
    BY <2>1, <2>2
<1>4. ASSUME NEW x \in Senders, AlertEnds(x)
      PROVE  ProcessTypeOK'
  <2>1. /\ task' = [task EXCEPT ![x] = "idle"]
        /\ sending' = [sending EXCEPT ![x] = Silent]
        /\ UNCHANGED process
    BY <1>4 DEF AlertEnds, Become, Delivered, NotDelivered
  <2> QED
    BY <2>1 DEF ProcessTypeOK, AlertsTypeOK, process
<1>5. CASE NetworkLost \/ Reconnect \/ Boot
  BY <1>5 DEF ProcessTypeOK, NetworkLost, Reconnect, Boot, Doubled, Younger, alerts
<1>6. CASE Stop
  BY <1>6 DEF ProcessTypeOK, Stop
<1>7. CASE Tick
  <2>1. ASSUME NEW x \in Senders
        PROVE  sending'[x] # Silent <=> sending[x] # Silent
    <3>1. CASE sending[x] = Silent
      BY <1>7, <3>1 DEF Tick, AlertsElapse
    <3>2. CASE sending[x] # Silent
      <4>1. /\ sending[x] \in [topic : Topics, age : 0..Timeout]
            /\ sending'[x] = [sending[x] EXCEPT !.age = @ + 1]
        BY <1>7, <3>2 DEF Tick, AlertsElapse, AlertsTypeOK
      <4>2. sending'[x].topic \in Topics
        BY <4>1
      <4> QED
        BY <3>2, <4>2 DEF Silent
    <3> QED
      BY <3>1, <3>2
  <2> QED
    BY <1>7, <2>1 DEF ProcessTypeOK, Tick
<1> QED
  BY <1>1, <1>2, <1>3, <1>4, <1>5, <1>6, <1>7
  DEF Next, TaskStep, Arrives, Dropped, HandlerEnds, HandlerCrashes, Replied,
      ReplyFails, BackgroundError, alerts, process, vars

(* Every reachable state of the process is well typed.                     *)
THEOREM TypeCorrect == Spec => []TypeOK
<1>1. TypeOK <=> ThrottleTypeOK /\ AlertsTypeOK /\ ProcessTypeOK
  BY DEF TypeOK, ProcessTypeOK
<1>2. Init => TypeOK
  <2> SUFFICES ASSUME Init PROVE TypeOK
    OBVIOUS
  <2>1. ThrottleTypeOK
    BY BucketSize DEF Init, ThrottleInit, ThrottleTypeOK
  <2>2. AlertsTypeOK
    BY AlertsAssumption DEF Init, AlertsInit, AlertsTypeOK
  <2>3. ProcessTypeOK
    BY UpdatesAssumption DEF Init, AlertsInit, ProcessTypeOK
  <2> QED
    BY <1>1, <2>1, <2>2, <2>3
<1>3. TypeOK /\ [Next]_vars => TypeOK'
  BY ThrottleTypeStep, AlertsTypeStep, ProcessTypeStep DEF TypeOK, ProcessTypeOK
<1> QED
  BY <1>2, <1>3, PTL DEF Spec

-----------------------------------------------------------------------------
(***************************************************************************)
(* The cooldown.                                                           *)
(***************************************************************************)
LEMMA CooldownStep ==
  ASSUME AlertsTypeOK, CooldownFollowsMessages, [Next]_vars
  PROVE  CooldownFollowsMessages'
<1> USE AlertsAssumption
<1>1. CASE UNCHANGED <<sent_at, latest>>
  BY <1>1 DEF CooldownFollowsMessages
<1>2. ASSUME NEW x \in Senders, Delivered(x)
      PROVE  CooldownFollowsMessages'
  <2>1. sending[x].topic \in Topics /\ sending[x].age \in 0..Timeout
    BY <1>2 DEF AlertsTypeOK, Delivered
  <2>2. /\ sent_at' = [sent_at EXCEPT ![sending[x].topic]
                                    = Younger(sending[x].age, Cooldown)]
        /\ latest' = [latest EXCEPT ![sending[x].topic]
                                  = Younger(@, sending[x].age)]
    BY <1>2 DEF Delivered
  <2> QED
    BY <2>1, <2>2 DEF CooldownFollowsMessages, AlertsTypeOK, Younger
<1>3. CASE AlertsElapse
  BY <1>3 DEF CooldownFollowsMessages, AlertsTypeOK, AlertsElapse, Younger
<1>4. CASE Stop
  BY <1>4 DEF CooldownFollowsMessages, Stop
<1> QED
  BY <1>1, <1>2, <1>3, <1>4
  DEF Next, TaskStep, Arrives, Dropped, HandlerEnds, HandlerCrashes, Replied,
      ReplyFails, Alert, Send, AlertEnds, NotDelivered, BackgroundError,
      NetworkLost, Reconnect, Boot, Tick, alerts, vars

(* Nobody is silenced by a message that was not delivered, and what gets   *)
(* through within a cooldown was on its way together.                      *)
THEOREM CooldownHolds == Spec => []CooldownFollowsMessages
<1>1. Init => CooldownFollowsMessages
  BY AlertsAssumption DEF Init, AlertsInit, CooldownFollowsMessages
<1>2. TypeOK /\ CooldownFollowsMessages /\ [Next]_vars => CooldownFollowsMessages'
  BY CooldownStep DEF TypeOK
<1> QED
  BY <1>1, <1>2, TypeCorrect, PTL DEF Spec

-----------------------------------------------------------------------------
(***************************************************************************)
(* The refinement: what is in a bucket is what its entry would be refilled *)
(* to, and a full bucket when there is no entry.                           *)
(***************************************************************************)
Levels == [u \in Users |-> Level(budgets[u])]

LEMMA BucketStep ==
  ASSUME ThrottleTypeOK, [Next]_vars
  PROVE  [Limit!Next]_(Limit!limit)
<1>1. /\ budgets \in [Users -> Budgets] /\ passed \in [Users -> BOOLEAN]
  BY DEF ThrottleTypeOK, Budgets
<1>2. CASE UNCHANGED throttle
  BY <1>2 DEF throttle, Limit!limit
<1>3. ASSUME NEW u \in Users, Allow(u)
      PROVE  Limit!Next
  <2>1. /\ Levels[u] >= Refill
        /\ Levels' = [Levels EXCEPT ![u] = @ - Refill]
    BY <1>1, <1>3, AllowServes DEF Levels
  <2>2. passed' = [passed EXCEPT ![u] = ~@]
    BY <1>3 DEF Allow
  <2>3. Limit!Serve(u)
    BY <2>1, <2>2 DEF Limit!Serve, Levels
  <2> QED
    BY <2>3 DEF Limit!Next
<1>4. ASSUME NEW u \in Users, Refuse(u)
      PROVE  UNCHANGED Limit!limit
  <2>1. Levels' = Levels
    BY <1>1, <1>4, RefuseTakesNothing DEF Levels
  <2>2. passed' = passed
    BY <1>4 DEF Refuse, RefuseTooSoon, RefuseEmpty
  <2> QED
    BY <2>1, <2>2 DEF Limit!limit, Levels
<1>5. CASE ThrottleElapse
  <2>1. Levels' = [u \in Users |-> IF Levels[u] < Full THEN Levels[u] + 1 ELSE Full]
    BY <1>1, <1>5, TimeFills DEF Levels
  <2>2. passed' = passed
    BY <1>5 DEF ThrottleElapse
  <2> QED
    BY <2>1, <2>2 DEF Limit!Next, Limit!Pass, Limit!Full, Full, Levels
<1>6. CASE ThrottleRestart
  BY <1>6 DEF ThrottleRestart, Level, Limit!Next, Limit!Forget, Limit!Full, Full
<1> QED
  BY <1>2, <1>3, <1>4, <1>5, <1>6
  DEF Next, TaskStep, Arrives, Dropped, HandlerEnds, HandlerCrashes, Replied,
      ReplyFails, Alert, AlertEnds, BackgroundError, NetworkLost, Reconnect, Stop,
      Boot, Tick, vars

(* "A token bucket bounds the sustained rate": the table with its time     *)
(* stamps, refills on sight and cleanups lets through what a bucket that   *)
(* fills by itself lets through.                                           *)
THEOREM ThrottleImplementsBucket == Spec => BucketImplemented
<1>1. Init => Limit!Init
  BY DEF Init, ThrottleInit, Level, Limit!Init, Limit!Full, Full
<1>2. TypeOK /\ [Next]_vars => [Limit!Next]_(Limit!limit)
  BY BucketStep DEF TypeOK
<1> QED
  BY <1>1, <1>2, TypeCorrect, PTL DEF Spec, BucketImplemented, Limit!Spec
=============================================================================
