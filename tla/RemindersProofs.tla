--------------------------- MODULE RemindersProofs ---------------------------
(***************************************************************************)
(* The reminders, for any number of bookings, any windows and any interval *)
(* of the job: nobody is reminded twice, what is marked has been said, and *)
(* a bot that runs reminds within two intervals.                           *)
(***************************************************************************)
EXTENDS Reminders, TLAPS

VisitRow == [status : {"none", "active", "closed"}, start : Nat, reminded : SUBSET Kinds]

Pair(i) == <<i.b, i.kind>>

LEMMA PairFacts ==
  ASSUME NEW b \in BookingIds, NEW k \in Kinds
  PROVE  /\ <<b, k>> \in Pairs
         /\ \A c : <<b, k>> \in Of(c) <=> b = c
         /\ \A I : <<b, k>> \in PairsOf(I) <=> \E i \in I : i.b = b /\ i.kind = k
BY DEF Pairs, Of, PairsOf

LEMMA ItemFacts ==
  ASSUME NEW i \in Item
  PROVE  i.b \in BookingIds /\ i.kind \in Kinds /\ i.start \in Nat /\ Pair(i) \in Pairs
BY DEF Item, Pair, Pairs

LEMMA PairsOfTyped ==
  ASSUME NEW I \in SUBSET Item
  PROVE  PairsOf(I) \subseteq Pairs
BY DEF PairsOf, Item, Pairs

LEMMA RestartTyped ==
  ASSUME chance \in [Pairs -> Nat], NEW P
  PROVE  Restart(P) \in [Pairs -> Nat]
BY DEF Restart

LEMMA ToldTyped ==
  ASSUME told \in [Pairs -> Nat], NEW i \in Item
  PROVE  /\ Told(i) \in [Pairs -> Nat]
         /\ \A p \in Pairs : Told(i)[p] = IF p = Pair(i) /\ Matches(i)
                                          THEN told[p] + 1 ELSE told[p]
<1>1. Pair(i) \in Pairs
  BY ItemFacts
<1> QED
  BY <1>1 DEF Told, Pair

LEMMA NextToSendInBatch ==
  ASSUME waiting \subseteq batch
  PROVE  /\ NextToSend \subseteq batch
         /\ NextToSend # {} => marking = {}
BY DEF NextToSend

-----------------------------------------------------------------------------
(***************************************************************************)
(* Every step is one of these.                                             *)
(***************************************************************************)
ItemStep(i) == \/ Sent(i) \/ Refused(i) \/ FloodWait(i) \/ SendLater(i)
               \/ SentUnheard(i) \/ SendRaises(i)

LEMMA StepCases ==
  ASSUME [Next]_vars
  PROVE  \/ UNCHANGED vars
         \/ \E b \in BookingIds, s \in Times : Confirm(b, s)
         \/ \E m \in Movers, b \in BookingIds, s \in Times : RescheduleStart(m, b, s)
         \/ \E v \in moving : RescheduleCommit(v)
         \/ \E b \in BookingIds : CancelBooking(b)
         \/ DueReminders
         \/ \E i \in batch : ItemStep(i)
         \/ MarkReminded
         \/ JobFails \/ Crash \/ Boot \/ Tick
BY DEF Next, VisitStep, VisitReminders, ItemStep

(* The types.                                                              *)
LEMMA TypeStep ==
  ASSUME TypeOK, [Next]_vars
  PROVE  TypeOK'
<1> USE RemindersAssumption
<1>0. \A i \in batch : i \in Item
  BY DEF TypeOK
<1>1. CASE UNCHANGED vars
  BY <1>1 DEF TypeOK, vars, job, history
<1>2. ASSUME NEW b \in BookingIds, NEW s \in Times, Confirm(b, s)
      PROVE  TypeOK'
  <2>1. visits' \in [BookingIds -> VisitRow]
    BY <1>2 DEF TypeOK, Confirm, VisitRow
  <2> QED
    BY <1>2, <2>1 DEF TypeOK, Confirm, VisitRow, job, history
<1>3. ASSUME NEW v \in moving, RescheduleCommit(v)
      PROVE  TypeOK'
  <2>0. v.b \in BookingIds /\ v.start \in Nat
    BY DEF TypeOK
  <2>1. visits' \in [BookingIds -> VisitRow]
    BY <1>3, <2>0 DEF TypeOK, RescheduleCommit, VisitRow
  <2>2. told' \in [Pairs -> Nat] /\ chance' \in [Pairs -> Nat]
    BY <1>3, RestartTyped DEF TypeOK, RescheduleCommit, Moved
  <2>3. interrupted' \subseteq Pairs /\ excused' \subseteq Pairs
    <3>1. Of(v.b) \subseteq Pairs
      BY <2>0 DEF Of, Pairs
    <3> QED
      BY <1>3, <3>1 DEF TypeOK, RescheduleCommit, Moved, Overlapped
  <2> QED
    BY <1>3, <2>1, <2>2, <2>3 DEF TypeOK, RescheduleCommit, Moved, VisitRow, job
<1>15. ASSUME NEW m \in Movers, NEW b \in BookingIds, NEW s \in Times,
              RescheduleStart(m, b, s)
       PROVE  TypeOK'
  BY <1>15 DEF TypeOK, RescheduleStart, job, history
<1>16. ASSUME NEW i \in batch, SendRaises(i)
       PROVE  TypeOK'
  <2>1. told' \in [Pairs -> Nat] /\ interrupted' \subseteq Pairs
    BY <1>0, <1>16, ToldTyped, PairsOfTyped DEF TypeOK, SendRaises
  <2> QED
    BY <1>16, <2>1, RestartTyped DEF TypeOK, SendRaises
<1>4. ASSUME NEW b \in BookingIds, CancelBooking(b)
      PROVE  TypeOK'
  <2>1. visits' \in [BookingIds -> VisitRow]
    BY <1>4 DEF TypeOK, CancelBooking, VisitRow
  <2> QED
    BY <1>4, <2>1, RestartTyped DEF TypeOK, CancelBooking, VisitRow, job
<1>5. CASE DueReminders
  <2>1. batch' \subseteq Item
    BY <1>5 DEF TypeOK, DueReminders, Item, Pairs
  <2>2. waiting' \subseteq batch'
    BY <1>5 DEF TypeOK, DueReminders, Running
  <2> QED
    BY <1>5, <2>1, <2>2 DEF TypeOK, DueReminders
<1>6. ASSUME NEW i \in batch, Sent(i)
      PROVE  TypeOK'
  BY <1>0, <1>6, ToldTyped DEF TypeOK, Sent, Attempted
<1>7. ASSUME NEW i \in batch, Refused(i)
      PROVE  TypeOK'
  BY <1>0, <1>7, PairsOfTyped DEF TypeOK, Refused, Attempted
<1>8. ASSUME NEW i \in batch, FloodWait(i)
      PROVE  TypeOK'
  BY <1>0, <1>8 DEF TypeOK, FloodWait, history
<1>9. ASSUME NEW i \in batch, SendLater(i)
      PROVE  TypeOK'
  BY <1>0, <1>9, RestartTyped DEF TypeOK, SendLater, Attempted
<1>10. ASSUME NEW i \in batch, SentUnheard(i)
       PROVE  TypeOK'
  BY <1>0, <1>10, RestartTyped, ToldTyped, PairsOfTyped DEF TypeOK, SentUnheard, Attempted
<1>11. CASE MarkReminded
  <2>1. PICK i \in marking : visits' = [visits EXCEPT ![i.b].reminded = @ \cup {i.kind}]
    BY <1>11 DEF MarkReminded
  <2>2. visits' \in [BookingIds -> VisitRow]
    BY <2>1, ItemFacts DEF TypeOK, VisitRow
  <2> QED
    BY <1>11, <2>2 DEF TypeOK, MarkReminded, VisitRow, history
<1>12. CASE JobFails \/ Crash
  BY <1>12, RestartTyped, PairsOfTyped DEF TypeOK, JobFails, Crash, RunLost
<1>13. CASE Boot
  BY <1>13 DEF TypeOK, Boot, history
<1>14. CASE Tick
  BY <1>14 DEF TypeOK, Tick, job
<1> QED
  BY <1>1, <1>2, <1>3, <1>4, <1>5, <1>6, <1>7, <1>8, <1>9, <1>10, <1>11, <1>12,
     <1>13, <1>14, <1>15, <1>16, StepCases DEF ItemStep

LEMMA TypeInit ==
  ASSUME Init
  PROVE  TypeOK
BY RemindersAssumption DEF Init, TypeOK, NoVisit

(* Every reachable state is well typed.                                    *)
THEOREM TypeCorrect == Spec => []TypeOK
BY TypeInit, TypeStep, PTL DEF Spec

-----------------------------------------------------------------------------
(***************************************************************************)
(* What a run has read: a pair at most once, and only of visits that were  *)
(* there.  It marks one message at a time.                                 *)
(***************************************************************************)
ReadInv ==
  /\ \A i, j \in batch : Pair(i) = Pair(j) => i = j
  /\ \A i, j \in marking : i = j
  /\ \A i \in batch \cup marking : visits[i.b].status # "none"

(* No step takes a visit back to where it did not exist.                   *)
LEMMA VisitsStay ==
  ASSUME TypeOK, [Next]_vars, NEW b \in BookingIds, visits[b].status # "none"
  PROVE  visits'[b].status # "none"
<1>1. CASE UNCHANGED visits
  BY <1>1
<1>2. ASSUME NEW c \in BookingIds, NEW s \in Times, Confirm(c, s)
      PROVE  visits'[b].status # "none"
  BY <1>2 DEF TypeOK, Confirm, NoVisit
<1>5. ASSUME NEW v \in moving, RescheduleCommit(v)
      PROVE  visits'[b].status # "none"
  BY <1>5 DEF TypeOK, RescheduleCommit
<1>3. ASSUME NEW c \in BookingIds, CancelBooking(c)
      PROVE  visits'[b].status # "none"
  BY <1>3 DEF TypeOK, CancelBooking
<1>4. CASE MarkReminded
  BY <1>4, ItemFacts DEF TypeOK, MarkReminded
<1> QED
  BY <1>1, <1>2, <1>3, <1>4, <1>5, StepCases
  DEF vars, RescheduleStart, DueReminders, ItemStep, Sent, Refused, FloodWait, SendLater,
      SentUnheard, SendRaises, Attempted, JobFails, RunLost, Crash, Boot, Tick

LEMMA ReadStep ==
  ASSUME TypeOK, ReadInv, [Next]_vars
  PROVE  ReadInv'
<1>1. CASE UNCHANGED <<batch, marking>>
  <2>1. \A i \in batch \cup marking : i.b \in BookingIds
    BY ItemFacts DEF TypeOK
  <2> QED
    BY <1>1, <2>1, VisitsStay DEF ReadInv, Pair
<1>2. CASE DueReminders
  <2>1. marking' = {}
    BY <1>2 DEF DueReminders, Running
  <2>2. \A i, j \in batch' : Pair(i) = Pair(j) => i = j
    BY <1>2 DEF DueReminders, Pair
  <2>3. \A i \in batch' : visits'[i.b].status # "none"
    BY <1>2 DEF DueReminders, Due, InWindow
  <2> QED
    BY <2>1, <2>2, <2>3 DEF ReadInv
<1>3. ASSUME NEW i \in batch, NEW M \in {{}, {i}}, Attempted(i, M)
      PROVE  ReadInv'
  BY <1>3 DEF ReadInv, Attempted, Pair
<1>4. CASE MarkReminded
  <2>1. UNCHANGED batch /\ marking' = {}
    BY <1>4 DEF MarkReminded
  <2>2. \A i \in batch : i.b \in BookingIds
    BY ItemFacts DEF TypeOK
  <2> QED
    BY <2>1, <2>2, VisitsStay DEF ReadInv, Pair
<1>5. CASE JobFails \/ Crash
  BY <1>5 DEF ReadInv, JobFails, Crash, RunLost
<1>6. ASSUME NEW i \in batch, SendRaises(i)
      PROVE  ReadInv'
  BY <1>6 DEF ReadInv, SendRaises
<1> QED
  BY <1>1, <1>2, <1>3, <1>4, <1>5, <1>6, StepCases
  DEF vars, job, Confirm, RescheduleStart, RescheduleCommit, Moved, CancelBooking,
      ItemStep, Sent, Refused, FloodWait, SendLater, SentUnheard, Boot, Tick

-----------------------------------------------------------------------------
(***************************************************************************)
(* Nobody is reminded twice: a message that has been said and is not lost  *)
(* sight of is marked or about to be, so no later run reads the pair again.*)
(***************************************************************************)
Marking(b, k) == \E i \in marking : i.b = b /\ i.kind = k

OnceInv ==
  /\ RemindedOnce
  /\ \A b \in BookingIds, k \in Kinds :
       told[<<b, k>>] > 0 =>
         /\ visits[b].status # "none"
         /\ <<b, k>> \in interrupted \/ k \in visits[b].reminded \/ Marking(b, k)
  /\ \A i \in batch : Matches(i) => told[Pair(i)] = 0 \/ Pair(i) \in interrupted

LEMMA OnceStep ==
  ASSUME TypeOK, ReadInv, OnceInv, [Next]_vars
  PROVE  OnceInv'
<1>0. \A i \in batch \cup marking : i \in Item
  BY DEF TypeOK
<1>1. CASE UNCHANGED <<visits, batch, marking, told, interrupted>>
  BY <1>1 DEF OnceInv, RemindedOnce, Marking, Matches, Pair
<1>2. ASSUME NEW b \in BookingIds, NEW s \in Times, Confirm(b, s)
      PROVE  OnceInv'
  <2>1. UNCHANGED <<batch, marking, told, interrupted>>
    BY <1>2 DEF Confirm, job, history
  <2>2. \A k \in Kinds : told[<<b, k>>] = 0
    BY <1>2, PairFacts DEF OnceInv, Confirm, NoVisit, TypeOK
  <2>3. \A c \in BookingIds : c # b => visits'[c] = visits[c]
    BY <1>2 DEF Confirm, TypeOK
  <2>4. \A i \in batch : i.b # b
    BY <1>0, <1>2 DEF ReadInv, Confirm, NoVisit
  <2>5. \A i \in batch : Matches(i)' => Matches(i)
    BY <1>0, <2>1, <2>3, <2>4, ItemFacts DEF Matches
  <2> QED
    BY <2>1, <2>2, <2>3, <2>5 DEF OnceInv, RemindedOnce, Marking, Pair
<1>3. ASSUME NEW v \in moving, RescheduleCommit(v)
      PROVE  OnceInv'
  <2> DEFINE b == v.b
  <2>0. b \in BookingIds
    BY DEF TypeOK
  <2>1. UNCHANGED <<batch, marking>>
    BY <1>3 DEF RescheduleCommit, Moved, job
  <2>2. \A k \in Kinds : told'[<<b, k>>] = 0
    BY <1>3, <2>0, PairFacts DEF RescheduleCommit, Moved
  <2>3. \A c \in BookingIds, k \in Kinds : c # b =>
          /\ told'[<<c, k>>] = told[<<c, k>>]
          /\ <<c, k>> \in interrupted' <=> <<c, k>> \in interrupted
    BY <1>3, PairFacts DEF RescheduleCommit, Moved
  <2>4. \A c \in BookingIds : c # b => visits'[c] = visits[c]
    BY <1>3, <2>0 DEF RescheduleCommit, TypeOK
  <2> HIDE DEF b
  <2>5. RemindedOnce'
    <3> SUFFICES ASSUME NEW c \in BookingIds, NEW k \in Kinds, told'[<<c, k>>] > 1
                 PROVE  <<c, k>> \in interrupted'
      BY DEF RemindedOnce, Pairs
    <3> QED
      BY <2>2, <2>3, PairFacts DEF OnceInv, RemindedOnce
  <2>6. ASSUME NEW c \in BookingIds, NEW k \in Kinds, told'[<<c, k>>] > 0
        PROVE  /\ visits'[c].status # "none"
               /\ \/ <<c, k>> \in interrupted' \/ k \in visits'[c].reminded
                  \/ Marking(c, k)'
    <3>1. c # b
      BY <2>2, <2>6
    <3> QED
      BY <2>1, <2>3, <2>4, <2>6, <3>1 DEF OnceInv, Marking
  <2>7. ASSUME NEW i \in batch, Matches(i)'
        PROVE  told'[Pair(i)] = 0 \/ Pair(i) \in interrupted'
    <3>1. CASE i.b = b
      BY <1>0, <2>2, <3>1, ItemFacts DEF Pair
    <3>2. CASE i.b # b
      BY <1>0, <2>3, <2>4, <2>7, <3>2, ItemFacts DEF Pair, Matches, OnceInv
    <3> QED
      BY <3>1, <3>2
  <2> QED
    BY <2>1, <2>5, <2>6, <2>7 DEF OnceInv
<1>4. ASSUME NEW b \in BookingIds, CancelBooking(b)
      PROVE  OnceInv'
  <2>1. UNCHANGED <<batch, marking, told, interrupted>>
    BY <1>4 DEF CancelBooking, job
  <2>2. /\ visits'[b].status = "closed" /\ visits'[b].reminded = visits[b].reminded
        /\ \A c \in BookingIds : c # b => visits'[c] = visits[c]
    BY <1>4 DEF CancelBooking, TypeOK
  <2>3. \A i \in batch : Matches(i)' => Matches(i)
    BY <1>0, <2>1, <2>2, ItemFacts DEF Matches
  <2> QED
    BY <2>1, <2>2, <2>3 DEF OnceInv, RemindedOnce, Marking, Pair
<1>5. CASE DueReminders
  <2>1. UNCHANGED <<visits, marking, told, interrupted>> /\ marking = {}
    BY <1>5 DEF DueReminders, Running
  <2>2. ASSUME NEW i \in batch'
        PROVE  told[Pair(i)] = 0 \/ Pair(i) \in interrupted
    <3>1. PICK p \in Pairs : /\ Due(p[1], p[2])
                             /\ i = [b |-> p[1], kind |-> p[2], start |-> visits[p[1]].start]
      BY <1>5, <2>2 DEF DueReminders
    <3>2. i.b \in BookingIds /\ i.kind \in Kinds /\ i.kind \notin visits[i.b].reminded
      BY <3>1 DEF Pairs, Due
    <3>3. told[Pair(i)] \in Nat
      BY <3>2, PairFacts DEF TypeOK, Pair
    <3> QED
      BY <2>1, <3>2, <3>3 DEF OnceInv, Marking, Pair
  <2> QED
    BY <2>1, <2>2 DEF OnceInv, RemindedOnce, Marking, Pair
<1>6. ASSUME NEW i \in batch, Sent(i) \/ SentUnheard(i)
      PROVE  OnceInv'
  <2>1. i \in Item /\ told' = Told(i) /\ UNCHANGED visits /\ batch' = batch \ {i}
        /\ marking = {}
    BY <1>0, <1>6, NextToSendInBatch DEF Sent, SentUnheard, Attempted, TypeOK
  <2>2. \A p \in Pairs : p # Pair(i) \/ ~Matches(i) => told'[p] = told[p]
    BY <2>1, ToldTyped DEF TypeOK
  <2>3. Matches(i) => told'[Pair(i)] = told[Pair(i)] + 1
    BY <2>1, ToldTyped, ItemFacts DEF TypeOK
  <2>4. interrupted \subseteq interrupted'
    BY <1>6 DEF Sent, SentUnheard
  <2>5. Pair(i) \in interrupted' \/ Marking(i.b, i.kind)'
    BY <1>6 DEF Sent, SentUnheard, Attempted, Marking, PairsOf, Pair
  <2>6. Matches(i) => told[Pair(i)] = 0 \/ Pair(i) \in interrupted
    BY DEF OnceInv
  <2>7. RemindedOnce'
    <3> SUFFICES ASSUME NEW p \in Pairs, told'[p] > 1
                 PROVE  p \in interrupted'
      BY DEF RemindedOnce
    <3>1. CASE p = Pair(i) /\ Matches(i)
      BY <2>3, <2>4, <2>6, <3>1
    <3>2. CASE ~(p = Pair(i) /\ Matches(i))
      BY <2>2, <2>4, <3>2 DEF OnceInv, RemindedOnce
    <3> QED
      BY <3>1, <3>2
  <2>8. ASSUME NEW b \in BookingIds, NEW k \in Kinds, told'[<<b, k>>] > 0
        PROVE  /\ visits'[b].status # "none"
               /\ \/ <<b, k>> \in interrupted' \/ k \in visits'[b].reminded
                  \/ Marking(b, k)'
    <3>1. CASE <<b, k>> = Pair(i) /\ Matches(i)
      <4>1. b = i.b /\ k = i.kind
        BY <3>1 DEF Pair
      <4> QED
        BY <2>1, <2>5, <3>1, <4>1 DEF Matches
    <3>2. CASE ~(<<b, k>> = Pair(i) /\ Matches(i))
      <4>1. told[<<b, k>>] > 0
        BY <2>2, <2>8, <3>2, PairFacts
      <4>2. <<b, k>> \in interrupted \/ k \in visits[b].reminded
        BY <2>1, <4>1 DEF OnceInv, Marking
      <4> QED
        BY <2>1, <2>4, <4>1, <4>2 DEF OnceInv
    <3> QED
      BY <3>1, <3>2
  <2>9. ASSUME NEW j \in batch', Matches(j)'
        PROVE  told'[Pair(j)] = 0 \/ Pair(j) \in interrupted'
    <3>1. j \in batch /\ j # i /\ Matches(j) /\ Pair(j) \in Pairs
      BY <1>0, <2>1, <2>9, ItemFacts DEF Matches
    <3>2. Pair(j) # Pair(i)
      BY <3>1 DEF ReadInv
    <3> QED
      BY <2>2, <2>4, <3>1, <3>2 DEF OnceInv
  <2> QED
    BY <2>7, <2>8, <2>9 DEF OnceInv
<1>7. ASSUME NEW i \in batch, Refused(i) \/ SendLater(i)
      PROVE  OnceInv'
  <2>1. UNCHANGED <<visits, told, interrupted>> /\ batch' \subseteq batch /\ marking = {}
    BY <1>7, NextToSendInBatch DEF Refused, SendLater, Attempted, TypeOK
  <2> QED
    BY <2>1 DEF OnceInv, RemindedOnce, Marking, Matches, Pair
<1>8. CASE MarkReminded
  <2>1. PICK i \in marking : visits' = [visits EXCEPT ![i.b].reminded = @ \cup {i.kind}]
    BY <1>8 DEF MarkReminded
  <2>2. UNCHANGED <<batch, told, interrupted>> /\ marking' = {}
    BY <1>8 DEF MarkReminded, history
  <2>3. \A b \in BookingIds : /\ visits'[b].status = visits[b].status
                              /\ visits'[b].start = visits[b].start
                              /\ visits[b].reminded \subseteq visits'[b].reminded
    BY <1>0, <2>1, ItemFacts DEF TypeOK
  <2>4. \A b \in BookingIds, k \in Kinds : Marking(b, k) => k \in visits'[b].reminded
    BY <1>0, <2>1, ItemFacts DEF TypeOK, Marking, ReadInv
  <2>5. \A i2 \in batch : Matches(i2)' => Matches(i2)
    BY <1>0, <2>2, <2>3, ItemFacts DEF Matches
  <2> QED
    BY <2>2, <2>3, <2>4, <2>5 DEF OnceInv, RemindedOnce, Pair
<1>9. CASE JobFails \/ Crash
  <2>1. /\ UNCHANGED <<visits, told>> /\ batch' = {} /\ marking' = {}
        /\ interrupted' = interrupted \cup PairsOf(marking)
    BY <1>9 DEF JobFails, Crash, RunLost
  <2>2. \A b \in BookingIds, k \in Kinds : Marking(b, k) => <<b, k>> \in interrupted'
    BY <2>1, PairFacts DEF Marking
  <2> QED
    BY <2>1, <2>2 DEF OnceInv, RemindedOnce
<1>10. CASE UNCHANGED vars \/ Boot \/ Tick \/ \E i \in batch : FloodWait(i)
  BY <1>1, <1>10 DEF vars, job, history, Boot, Tick, FloodWait
<1>11. ASSUME NEW m \in Movers, NEW b \in BookingIds, NEW s \in Times,
              RescheduleStart(m, b, s)
       PROVE  OnceInv'
  BY <1>1, <1>11 DEF RescheduleStart, job, history
<1>12. ASSUME NEW i \in batch, SendRaises(i)
       PROVE  OnceInv'
  <2>1. /\ i \in Item /\ UNCHANGED <<visits, marking>> /\ batch' = {} /\ marking = {}
        /\ interrupted \subseteq interrupted'
    BY <1>0, <1>12, NextToSendInBatch DEF SendRaises, TypeOK
  <2>2. ASSUME NEW b \in BookingIds, NEW k \in Kinds,
               told'[<<b, k>>] # told[<<b, k>>]
        PROVE  <<b, k>> \in interrupted' /\ visits[b].status # "none"
    <3>1. told' = Told(i) /\ interrupted' = interrupted \cup PairsOf({i})
      BY <1>12, <2>2 DEF SendRaises
    <3>2. <<b, k>> = Pair(i) /\ Matches(i)
      BY <2>1, <2>2, <3>1, ToldTyped, PairFacts DEF TypeOK
    <3>3. b = i.b /\ k = i.kind
      BY <3>2 DEF Pair
    <3> QED
      BY <3>1, <3>2, <3>3 DEF PairsOf, Pair, Matches
  <2>3. RemindedOnce'
    <3> SUFFICES ASSUME NEW b \in BookingIds, NEW k \in Kinds, told'[<<b, k>>] > 1
                 PROVE  <<b, k>> \in interrupted'
      BY DEF RemindedOnce, Pairs
    <3> QED
      BY <2>1, <2>2, PairFacts DEF OnceInv, RemindedOnce
  <2>4. ASSUME NEW b \in BookingIds, NEW k \in Kinds, told'[<<b, k>>] > 0
        PROVE  /\ visits'[b].status # "none"
               /\ \/ <<b, k>> \in interrupted' \/ k \in visits'[b].reminded
                  \/ Marking(b, k)'
    BY <2>1, <2>2, <2>4 DEF OnceInv, Marking
  <2> QED
    BY <2>1, <2>3, <2>4 DEF OnceInv
<1> QED
  BY <1>2, <1>3, <1>4, <1>5, <1>6, <1>7, <1>8, <1>9, <1>10, <1>11, <1>12, StepCases
  DEF ItemStep

(* Nobody is reminded twice of one visit, except where the message went    *)
(* out and the run never learned or never wrote it down.                   *)
THEOREM RemindedOnceHolds == Spec => []RemindedOnce
<1>1. Init => ReadInv /\ OnceInv
  BY DEF Init, ReadInv, OnceInv, RemindedOnce, Pairs
<1>2. TypeOK /\ ReadInv /\ OnceInv /\ [Next]_vars => ReadInv' /\ OnceInv'
  BY ReadStep, OnceStep
<1>3. OnceInv => RemindedOnce
  BY DEF OnceInv
<1> QED
  BY <1>1, <1>2, <1>3, TypeCorrect, PTL DEF Spec

-----------------------------------------------------------------------------
(***************************************************************************)
(* A mark is a message: what the run holds in its hands is about the time  *)
(* the visit has, or the visit has been moved since and is excused.        *)
(***************************************************************************)
FlagInv ==
  /\ FlagMeansTold
  /\ \A i \in batch \cup marking :
       visits[i.b].status = "active" => Matches(i) \/ Pair(i) \in excused
  /\ \A i \in marking :
       visits[i.b].status = "active" => told[Pair(i)] > 0 \/ Pair(i) \in excused

LEMMA FlagStep ==
  ASSUME TypeOK, ReadInv, FlagInv, [Next]_vars
  PROVE  FlagInv'
<1>0. \A i \in batch \cup marking : i \in Item
  BY DEF TypeOK
<1>1. CASE UNCHANGED <<visits, batch, marking, told, excused>>
  BY <1>1 DEF FlagInv, FlagMeansTold, Matches, Pair
<1>2. ASSUME NEW b \in BookingIds, NEW s \in Times, Confirm(b, s)
      PROVE  FlagInv'
  <2>1. UNCHANGED <<batch, marking, told, excused>>
    BY <1>2 DEF Confirm, job, history
  <2>2. /\ visits'[b].reminded = {}
        /\ \A c \in BookingIds : c # b => visits'[c] = visits[c]
    BY <1>2 DEF Confirm, TypeOK
  <2>3. \A i \in batch \cup marking : i.b # b
    BY <1>2 DEF ReadInv, Confirm, NoVisit
  <2> QED
    BY <1>0, <2>1, <2>2, <2>3, ItemFacts DEF FlagInv, FlagMeansTold, Matches, Pair
<1>3. ASSUME NEW v \in moving, RescheduleCommit(v)
      PROVE  FlagInv'
  <2> DEFINE b == v.b
  <2>0. b \in BookingIds
    BY DEF TypeOK
  <2>1. UNCHANGED <<batch, marking>>
    BY <1>3 DEF RescheduleCommit, Moved, job
  <2>2. /\ visits'[b].reminded = visits[b].reminded \ v.seen
        /\ \A c \in BookingIds : c # b => visits'[c] = visits[c]
    BY <1>3, <2>0 DEF RescheduleCommit, TypeOK
  <2>3. \A c \in BookingIds, k \in Kinds : c # b =>
          /\ told'[<<c, k>>] = told[<<c, k>>]
          /\ <<c, k>> \in excused => <<c, k>> \in excused'
    BY <1>3, PairFacts DEF RescheduleCommit, Moved
  <2>7. ASSUME NEW k \in Kinds, k \in visits[b].reminded \ v.seen
        PROVE  <<b, k>> \in excused'
    <3>1. <<b, k>> \in {b} \X (visits[b].reminded \ v.seen) /\ <<b, k>> \in Of(b)
      BY <2>7 DEF Of
    <3> QED
      BY <1>3, <3>1 DEF RescheduleCommit, Moved, Overlapped
  <2>8. ASSUME NEW k \in Kinds, <<b, k>> \in PairsOf(batch \cup marking)
        PROVE  <<b, k>> \in excused'
    <3>1. <<b, k>> \in Of(b)
      BY DEF Of
    <3> QED
      BY <1>3, <2>8, <3>1 DEF RescheduleCommit, Moved, Overlapped
  <2> HIDE DEF b
  <2>4. FlagMeansTold'
    BY <2>2, <2>3, <2>7 DEF FlagInv, FlagMeansTold
  <2>5. ASSUME NEW i \in batch \cup marking
        PROVE  i.b = b => Pair(i) \in excused'
    <3>1. i.b \in BookingIds /\ i.kind \in Kinds
      BY <1>0, ItemFacts
    <3> QED
      BY <2>8, <3>1, PairFacts DEF Pair
  <2>6. ASSUME NEW i \in batch \cup marking, visits'[i.b].status = "active"
        PROVE  /\ Matches(i)' \/ Pair(i) \in excused'
               /\ i \in marking => told'[Pair(i)] > 0 \/ Pair(i) \in excused'
    <3>1. i.b \in BookingIds /\ i.kind \in Kinds
      BY <1>0, ItemFacts
    <3> QED
      BY <2>2, <2>3, <2>5, <2>6, <3>1 DEF FlagInv, Matches, Pair
  <2> QED
    BY <2>1, <2>4, <2>6 DEF FlagInv
<1>4. ASSUME NEW b \in BookingIds, CancelBooking(b)
      PROVE  FlagInv'
  <2>1. UNCHANGED <<batch, marking, told, excused>>
    BY <1>4 DEF CancelBooking, job
  <2>2. /\ visits'[b].status = "closed"
        /\ \A c \in BookingIds : c # b => visits'[c] = visits[c]
    BY <1>4 DEF CancelBooking, TypeOK
  <2> QED
    BY <1>0, <2>1, <2>2, ItemFacts DEF FlagInv, FlagMeansTold, Matches, Pair
<1>5. CASE DueReminders
  <2>1. UNCHANGED <<visits, marking, told>> /\ marking = {}
    BY <1>5 DEF DueReminders, Running
  <2>2. \A i \in batch' : Matches(i)
    BY <1>5 DEF DueReminders, Due, InWindow, Matches
  <2>3. \A b \in BookingIds, k \in Kinds :
          <<b, k>> \in excused /\ k \in visits[b].reminded => <<b, k>> \in excused'
    BY <1>5 DEF DueReminders
  <2> QED
    BY <2>1, <2>2, <2>3 DEF FlagInv, FlagMeansTold, Matches
<1>6. ASSUME NEW i \in batch, Sent(i)
      PROVE  FlagInv'
  <2>1. /\ i \in Item /\ told' = Told(i) /\ UNCHANGED <<visits, excused>>
        /\ batch' \subseteq batch /\ marking' = {i}
    BY <1>0, <1>6 DEF Sent, Attempted
  <2>2. \A p \in Pairs : told[p] > 0 => told'[p] > 0
    BY <2>1, ToldTyped DEF TypeOK
  <2>3. Matches(i) => told'[Pair(i)] > 0
    BY <2>1, ToldTyped, ItemFacts DEF TypeOK
  <2>4. visits[i.b].status = "active" => Matches(i) \/ Pair(i) \in excused
    BY DEF FlagInv
  <2>5. FlagMeansTold'
    BY <2>1, <2>2, PairFacts DEF FlagInv, FlagMeansTold
  <2> QED
    BY <2>1, <2>3, <2>4, <2>5 DEF FlagInv, Matches, Pair
<1>7. ASSUME NEW i \in batch, Refused(i)
      PROVE  FlagInv'
  <2>1. /\ UNCHANGED <<visits, told>> /\ batch' \subseteq batch /\ marking' = {i}
        /\ excused' = excused \cup {Pair(i)}
    BY <1>7 DEF Refused, Attempted, PairsOf, Pair
  <2> QED
    BY <2>1 DEF FlagInv, FlagMeansTold, Matches, Pair
<1>8. ASSUME NEW i \in batch, SendLater(i)
      PROVE  FlagInv'
  <2>1. UNCHANGED <<visits, told, excused>> /\ batch' \subseteq batch /\ marking' = {}
    BY <1>8 DEF SendLater, Attempted
  <2> QED
    BY <2>1 DEF FlagInv, FlagMeansTold, Matches, Pair
<1>9. ASSUME NEW i \in batch, SentUnheard(i)
      PROVE  FlagInv'
  <2>1. /\ i \in Item /\ told' = Told(i) /\ UNCHANGED <<visits, excused>>
        /\ batch' \subseteq batch /\ marking' = {}
    BY <1>0, <1>9 DEF SentUnheard, Attempted
  <2>2. \A p \in Pairs : told[p] > 0 => told'[p] > 0
    BY <2>1, ToldTyped DEF TypeOK
  <2>3. FlagMeansTold'
    BY <2>1, <2>2, PairFacts DEF FlagInv, FlagMeansTold
  <2> QED
    BY <2>1, <2>3 DEF FlagInv, Matches, Pair
<1>10. CASE MarkReminded
  <2>1. PICK i \in marking : visits' = [visits EXCEPT ![i.b].reminded = @ \cup {i.kind}]
    BY <1>10 DEF MarkReminded
  <2>2. UNCHANGED <<batch, told, excused>> /\ marking' = {}
    BY <1>10 DEF MarkReminded, history
  <2>3. \A b \in BookingIds :
          /\ visits'[b].status = visits[b].status
          /\ visits'[b].start = visits[b].start
          /\ visits'[b].reminded = IF b = i.b THEN visits[b].reminded \cup {i.kind}
                                   ELSE visits[b].reminded
    BY <1>0, <2>1, ItemFacts DEF TypeOK
  <2>4. FlagMeansTold'
    <3> SUFFICES ASSUME NEW b \in BookingIds, NEW k \in Kinds,
                        visits'[b].status = "active", k \in visits'[b].reminded
                 PROVE  told[<<b, k>>] > 0 \/ <<b, k>> \in excused
      BY <2>2 DEF FlagMeansTold
    <3>1. visits[b].status = "active"
      BY <2>3
    <3>2. CASE k \in visits[b].reminded
      BY <3>1, <3>2 DEF FlagInv, FlagMeansTold
    <3>3. CASE b = i.b /\ k = i.kind
      BY <3>1, <3>3 DEF FlagInv, Pair
    <3> QED
      BY <2>3, <3>2, <3>3
  <2>5. \A j \in batch : j.b \in BookingIds
    BY <1>0, ItemFacts
  <2> QED
    BY <2>2, <2>3, <2>4, <2>5 DEF FlagInv, Matches, Pair
<1>11. CASE JobFails \/ Crash
  BY <1>11 DEF FlagInv, FlagMeansTold, JobFails, Crash, RunLost
<1>12. CASE UNCHANGED vars \/ Boot \/ Tick \/ \E i \in batch : FloodWait(i)
  BY <1>1, <1>12 DEF vars, job, history, Boot, Tick, FloodWait
<1>13. ASSUME NEW m \in Movers, NEW b \in BookingIds, NEW s \in Times,
              RescheduleStart(m, b, s)
       PROVE  FlagInv'
  BY <1>1, <1>13 DEF RescheduleStart, job, history
<1>14. ASSUME NEW i \in batch, SendRaises(i)
       PROVE  FlagInv'
  <2>1. /\ i \in Item /\ UNCHANGED <<visits, excused, marking>>
        /\ batch' = {} /\ marking = {}
    BY <1>0, <1>14, NextToSendInBatch DEF SendRaises, TypeOK
  <2>2. \A p \in Pairs : told[p] > 0 => told'[p] > 0
    BY <1>14, <2>1, ToldTyped DEF TypeOK, SendRaises
  <2>3. FlagMeansTold'
    BY <2>1, <2>2, PairFacts DEF FlagInv, FlagMeansTold
  <2> QED
    BY <2>1, <2>3 DEF FlagInv
<1> QED
  BY <1>2, <1>3, <1>4, <1>5, <1>6, <1>7, <1>8, <1>9, <1>10, <1>11, <1>12, <1>13, <1>14,
     StepCases
  DEF ItemStep

(* What is marked as reminded was said about the time the visit has now,   *)
(* unless the client cannot be reached or a move of the visit overlapped   *)
(* with the run: it read before the move, or marked between the read and   *)
(* the commit of the move.                                                 *)
THEOREM FlagMeansToldHolds == Spec => []FlagMeansTold
<1>1. Init => ReadInv /\ FlagInv
  BY DEF Init, ReadInv, FlagInv, FlagMeansTold, NoVisit
<1>2. TypeOK /\ ReadInv /\ FlagInv /\ [Next]_vars => ReadInv' /\ FlagInv'
  BY ReadStep, FlagStep
<1>3. FlagInv => FlagMeansTold
  BY DEF FlagInv
<1> QED
  BY <1>1, <1>2, <1>3, TypeCorrect, PTL DEF Spec

-----------------------------------------------------------------------------
(***************************************************************************)
(* The clock.  A pair that is due and unmarked when a run reads is in its  *)
(* batch, so it has been due for at most an interval then; and until the   *)
(* next run it is sent and marked, fails, or stays in that batch.          *)
(***************************************************************************)
SinceRun == now + Interval - next_run

Handled(b, k) == \E i \in batch \cup marking : i.b = b /\ i.kind = k

ChanceBound(b, k) ==
  /\ chance[<<b, k>>] > 0 => InWindow(b, k, now)
  /\ chance[<<b, k>>] <= 2 * Interval
  /\ Handled(b, k) => chance[<<b, k>>] <= Interval + SinceRun
  /\ k \notin visits[b].reminded /\ ~Handled(b, k) => chance[<<b, k>>] <= SinceRun

TimeInv ==
  /\ SinceRun >= 0
  /\ up => SinceRun <= Interval
  /\ ~up => /\ batch = {} /\ marking = {} /\ moving = {}
            /\ \A p \in Pairs : chance[p] = 0
  /\ up => \A b \in BookingIds, k \in Kinds : ChanceBound(b, k)

LEMMA RestartFacts ==
  ASSUME NEW b \in BookingIds, NEW k \in Kinds, NEW P
  PROVE  Restart(P)[<<b, k>>] = IF <<b, k>> \in P THEN 0 ELSE chance[<<b, k>>]
BY PairFacts DEF Restart

LEMMA ChanceTyped ==
  ASSUME TypeOK, NEW b \in BookingIds, NEW k \in Kinds
  PROVE  chance[<<b, k>>] \in Nat
BY PairFacts DEF TypeOK

(* A pair that starts anew is within every bound.                          *)
LEMMA NoChance ==
  ASSUME NEW b \in BookingIds, NEW k \in Kinds,
         chance'[<<b, k>>] = 0, SinceRun' \in Nat
  PROVE  ChanceBound(b, k)'
<1>1. Interval \in Nat
  BY RemindersAssumption
<1>2. \A n \in Nat : 0 <= Interval + n /\ 0 <= n
  BY <1>1
<1>3. PICK n \in Nat : SinceRun' = n
  OBVIOUS
<1>4. Interval + SinceRun' = Interval + n
  BY <1>3
<1>5. /\ ~(chance'[<<b, k>>] > 0) /\ chance'[<<b, k>>] <= 2 * Interval
      /\ chance'[<<b, k>>] <= Interval + SinceRun' /\ chance'[<<b, k>>] <= SinceRun'
  BY <1>1, <1>2, <1>3, <1>4
<1> QED
  BY <1>5 DEF ChanceBound

(* A pair that nothing happens to keeps its bounds, also when it has been  *)
(* marked or is no longer the next of its run.                             *)
LEMMA SameChance ==
  ASSUME TypeOK, NEW b \in BookingIds, NEW k \in Kinds, ChanceBound(b, k),
         UNCHANGED <<now, next_run>>, chance'[<<b, k>>] = chance[<<b, k>>],
         visits'[b].status = visits[b].status, visits'[b].start = visits[b].start,
         visits[b].reminded \subseteq visits'[b].reminded,
         Handled(b, k)' => Handled(b, k),
         Handled(b, k) => Handled(b, k)' \/ k \in visits'[b].reminded
  PROVE  ChanceBound(b, k)'
BY DEF ChanceBound, SinceRun, InWindow

LEMMA TimeStep ==
  ASSUME TypeOK, ReadInv, TimeInv, [Next]_vars
  PROVE  TimeInv'
<1> USE RemindersAssumption
<1>0. now \in Nat /\ next_run \in Nat /\ SinceRun \in Nat
  BY DEF TypeOK, TimeInv, SinceRun
<1>1. ASSUME UNCHANGED <<now, next_run>>, up, up',
             \A b \in BookingIds, k \in Kinds : ChanceBound(b, k)'
      PROVE  TimeInv'
  BY <1>1 DEF TimeInv, SinceRun
<1>2. CASE UNCHANGED vars \/ \E i \in batch : FloodWait(i)
  BY <1>2 DEF vars, job, history, FloodWait, TimeInv, SinceRun, ChanceBound, Handled,
     InWindow
<1>3. ASSUME NEW b \in BookingIds, NEW s \in Times, Confirm(b, s)
      PROVE  TimeInv'
  <2>1. UNCHANGED <<now, up, batch, marking, next_run, chance>> /\ up
    BY <1>3 DEF Confirm, job, history
  <2>2. \A c \in BookingIds : c # b => visits'[c] = visits[c]
    BY <1>3 DEF Confirm, TypeOK
  <2>3. ASSUME NEW c \in BookingIds, NEW k \in Kinds
        PROVE  ChanceBound(c, k)'
    <3>1. CASE c = b
      <4>1. chance[<<b, k>>] = 0
        BY <1>3, <2>1, ChanceTyped DEF Confirm, NoVisit, TimeInv, ChanceBound, InWindow
      <4>2. SinceRun' \in Nat
        BY <1>0, <2>1 DEF SinceRun
      <4> QED
        BY <2>1, <3>1, <4>1, <4>2, NoChance
    <3>2. CASE c # b
      BY <2>1, <2>2, <3>2, SameChance DEF TimeInv, Handled
    <3> QED
      BY <3>1, <3>2
  <2> QED
    BY <1>1, <2>1, <2>3
<1>4. ASSUME NEW b \in BookingIds,
             CancelBooking(b) \/ \E v \in moving : v.b = b /\ RescheduleCommit(v)
      PROVE  TimeInv'
  <2>1. UNCHANGED <<now, up, batch, marking, next_run>> /\ up /\ chance' = Restart(Of(b))
    BY <1>4 DEF RescheduleCommit, CancelBooking, Moved, job, TimeInv
  <2>2. \A c \in BookingIds : c # b => visits'[c] = visits[c]
    BY <1>4 DEF RescheduleCommit, CancelBooking, TypeOK
  <2>3. ASSUME NEW c \in BookingIds, NEW k \in Kinds
        PROVE  ChanceBound(c, k)'
    <3>1. CASE c = b
      <4>1. chance'[<<b, k>>] = 0
        BY <2>1, RestartFacts, PairFacts
      <4>2. SinceRun' \in Nat
        BY <1>0, <2>1 DEF SinceRun
      <4> QED
        BY <3>1, <4>1, <4>2, NoChance
    <3>2. CASE c # b
      <4>1. chance'[<<c, k>>] = chance[<<c, k>>]
        BY <2>1, <3>2, RestartFacts, PairFacts
      <4> QED
        BY <2>1, <2>2, <3>2, <4>1, SameChance DEF TimeInv, Handled
    <3> QED
      BY <3>1, <3>2
  <2> QED
    BY <1>1, <2>1, <2>3
<1>5. CASE DueReminders
  <2>1. /\ up /\ up' /\ batch = {} /\ marking = {} /\ marking' = {}
        /\ now = next_run /\ next_run' = now + Interval
        /\ UNCHANGED <<now, visits, chance>>
    BY <1>5 DEF DueReminders, Running
  <2>2. SinceRun = Interval /\ SinceRun' = 0
    BY <1>0, <2>1 DEF SinceRun
  <2>3. ASSUME NEW b \in BookingIds, NEW k \in Kinds
        PROVE  ChanceBound(b, k)'
    <3>1. Handled(b, k)' <=> Due(b, k)
      <4>1. Handled(b, k)' <=> \E i \in batch' : i.b = b /\ i.kind = k
        BY <2>1 DEF Handled
      <4>2. ASSUME NEW i \in batch', i.b = b, i.kind = k
            PROVE  Due(b, k)
        BY <1>5, <4>2 DEF DueReminders
      <4>3. ASSUME Due(b, k)
            PROVE  \E i \in batch' : i.b = b /\ i.kind = k
        <5> DEFINE p == <<b, k>>
                   i == [b |-> p[1], kind |-> p[2], start |-> visits[p[1]].start]
        <5>1. p \in {q \in Pairs : Due(q[1], q[2])}
          BY <4>3, PairFacts
        <5>2. i \in batch'
          BY <1>5, <5>1 DEF DueReminders
        <5>3. i.b = b /\ i.kind = k
          OBVIOUS
        <5> QED
          BY <5>2, <5>3
      <4> QED
        BY <4>1, <4>2, <4>3
    <3>2. ChanceBound(b, k) /\ ~Handled(b, k)
      BY <2>1 DEF TimeInv, Handled
    <3>3. chance[<<b, k>>] \in Nat
      BY ChanceTyped
    <3>4. Due(b, k) => chance[<<b, k>>] <= Interval
      BY <2>2, <3>2 DEF ChanceBound, Due
    <3>5. ~Due(b, k) /\ k \notin visits[b].reminded => chance[<<b, k>>] = 0
      BY <3>2, <3>3 DEF ChanceBound, Due
    <3>6. InWindow(b, k, now)' <=> InWindow(b, k, now)
      BY <2>1 DEF InWindow
    <3> QED
      BY <2>1, <2>2, <3>1, <3>2, <3>3, <3>4, <3>5, <3>6 DEF ChanceBound
  <2> QED
    BY <2>1, <2>2, <2>3 DEF TimeInv
<1>6. ASSUME NEW i \in batch, Sent(i) \/ Refused(i)
      PROVE  TimeInv'
  <2>1. UNCHANGED <<now, up, next_run, visits, chance>> /\ up
        /\ batch' = batch \ {i} /\ marking = {} /\ marking' = {i}
    BY <1>6, NextToSendInBatch DEF Sent, Refused, Attempted, TypeOK, TimeInv
  <2>2. \A b \in BookingIds, k \in Kinds : Handled(b, k)' <=> Handled(b, k)
    BY <2>1 DEF Handled
  <2>3. \A b \in BookingIds, k \in Kinds : ChanceBound(b, k)'
    BY <2>1, <2>2, SameChance DEF TimeInv
  <2> QED
    BY <1>1, <2>1, <2>3
<1>7. ASSUME NEW i \in batch, SendLater(i) \/ SentUnheard(i)
      PROVE  TimeInv'
  <2>1. UNCHANGED <<now, up, next_run, visits>> /\ up
        /\ batch' = batch \ {i} /\ marking = {} /\ marking' = {}
        /\ chance' = Restart(PairsOf({i}))
    BY <1>7, NextToSendInBatch DEF SendLater, SentUnheard, Attempted, TypeOK, TimeInv
  <2>2. ASSUME NEW b \in BookingIds, NEW k \in Kinds
        PROVE  ChanceBound(b, k)'
    <3>1. CASE i.b = b /\ i.kind = k
      <4>1. chance'[<<b, k>>] = 0
        BY <2>1, <3>1, RestartFacts, PairFacts
      <4>2. SinceRun' \in Nat
        BY <1>0, <2>1 DEF SinceRun
      <4> QED
        BY <4>1, <4>2, NoChance
    <3>2. CASE ~(i.b = b /\ i.kind = k)
      <4>1. chance'[<<b, k>>] = chance[<<b, k>>]
        BY <2>1, <3>2, RestartFacts, PairFacts
      <4>2. Handled(b, k)' <=> Handled(b, k)
        BY <2>1, <3>2 DEF Handled
      <4> QED
        BY <2>1, <4>1, <4>2, SameChance DEF TimeInv
    <3> QED
      BY <3>1, <3>2
  <2> QED
    BY <1>1, <2>1, <2>2
<1>8. CASE MarkReminded
  <2>1. PICK i \in marking : visits' = [visits EXCEPT ![i.b].reminded = @ \cup {i.kind}]
    BY <1>8 DEF MarkReminded
  <2>2. UNCHANGED <<now, up, next_run, batch, chance>> /\ up /\ marking' = {}
        /\ marking = {i}
    BY <1>8, <2>1 DEF MarkReminded, history, TimeInv, ReadInv
  <2>3. i.b \in BookingIds /\ i.kind \in Kinds
    BY <2>1, ItemFacts DEF TypeOK
  <2>4. ASSUME NEW b \in BookingIds, NEW k \in Kinds
        PROVE  ChanceBound(b, k)'
    <3>1. /\ visits'[b].status = visits[b].status
          /\ visits'[b].start = visits[b].start
          /\ visits'[b].reminded = IF b = i.b THEN visits[b].reminded \cup {i.kind}
                                   ELSE visits[b].reminded
      BY <2>1, <2>3 DEF TypeOK
    <3>2. visits[b].reminded \subseteq visits'[b].reminded
      BY <3>1
    <3>3. Handled(b, k)' => Handled(b, k)
      BY <2>2 DEF Handled
    <3>4. Handled(b, k) => Handled(b, k)' \/ k \in visits'[b].reminded
      BY <2>2, <3>1 DEF Handled
    <3> QED
      BY <2>2, <3>1, <3>2, <3>3, <3>4, SameChance DEF TimeInv
  <2> QED
    BY <1>1, <2>2, <2>4
<1>9. CASE JobFails
  <2>1. UNCHANGED <<now, up, next_run, visits>> /\ up
        /\ batch' = {} /\ marking' = {} /\ chance' = Restart(PairsOf(batch \cup marking))
    BY <1>9 DEF JobFails, RunLost, Running, TimeInv
  <2>2. ASSUME NEW b \in BookingIds, NEW k \in Kinds
        PROVE  ChanceBound(b, k)'
    <3>1. CASE Handled(b, k)
      <4>1. chance'[<<b, k>>] = 0
        BY <2>1, <3>1, RestartFacts, PairFacts DEF Handled
      <4>2. SinceRun' \in Nat
        BY <1>0, <2>1 DEF SinceRun
      <4> QED
        BY <4>1, <4>2, NoChance
    <3>2. CASE ~Handled(b, k)
      <4>1. chance'[<<b, k>>] = chance[<<b, k>>]
        BY <2>1, <3>2, RestartFacts, PairFacts DEF Handled
      <4>2. ~Handled(b, k)'
        BY <2>1 DEF Handled
      <4> QED
        BY <2>1, <3>2, <4>1, <4>2, SameChance DEF TimeInv
    <3> QED
      BY <3>1, <3>2
  <2> QED
    BY <1>1, <2>1, <2>2
<1>10. CASE Crash
  <2>1. /\ UNCHANGED <<now, next_run>> /\ up' = FALSE /\ batch' = {} /\ marking' = {}
        /\ chance' = Restart(Pairs) /\ moving' = {}
    BY <1>10 DEF Crash, RunLost
  <2>2. \A p \in Pairs : chance'[p] = 0
    BY <2>1 DEF Restart
  <2> QED
    BY <2>1, <2>2 DEF TimeInv, SinceRun
<1>11. CASE Boot
  <2>1. /\ UNCHANGED <<now, visits, batch, marking, chance>> /\ up' = TRUE
        /\ next_run' = now + Interval /\ ~up
    BY <1>11 DEF Boot, history
  <2>2. SinceRun' = 0
    BY <1>0, <2>1 DEF SinceRun
  <2>3. ASSUME NEW b \in BookingIds, NEW k \in Kinds
        PROVE  ChanceBound(b, k)'
    <3>1. chance'[<<b, k>>] = 0
      BY <2>1, PairFacts DEF TimeInv
    <3>2. SinceRun' \in Nat
      BY <2>2
    <3> QED
      BY <3>1, <3>2, NoChance
  <2> QED
    BY <2>1, <2>2, <2>3 DEF TimeInv
<1>12. CASE Tick
  <2>1. /\ UNCHANGED <<up, next_run, batch, marking, moving, visits>> /\ now' = now + 1
        /\ up => now < next_run
    BY <1>12 DEF Tick, job
  <2>2. SinceRun' = SinceRun + 1 /\ (up => SinceRun' <= Interval)
    BY <1>0, <2>1 DEF SinceRun
  <2>3. ASSUME ~up
        PROVE  \A p \in Pairs : chance'[p] = 0
    BY <1>12, <2>3 DEF Tick
  <2>4. ASSUME up, NEW b \in BookingIds, NEW k \in Kinds
        PROVE  ChanceBound(b, k)'
    <3>1. chance'[<<b, k>>] = IF Due(b, k) /\ InWindow(b, k, now + 1)
                              THEN chance[<<b, k>>] + 1 ELSE 0
      BY <1>12, <2>4, PairFacts DEF Tick
    <3>2. CASE Due(b, k) /\ InWindow(b, k, now + 1)
      <4>1. chance'[<<b, k>>] = chance[<<b, k>>] + 1 /\ chance[<<b, k>>] \in Nat
        BY <3>1, <3>2, ChanceTyped
      <4>2. Handled(b, k)' <=> Handled(b, k)
        BY <2>1 DEF Handled
      <4>3. InWindow(b, k, now)'
        BY <2>1, <3>2 DEF InWindow
      <4>4. k \notin visits[b].reminded /\ ChanceBound(b, k)
        BY <2>4, <3>2 DEF TimeInv, Due
      <4>5. chance[<<b, k>>] <= Interval + SinceRun
        BY <1>0, <4>1, <4>4 DEF ChanceBound
      <4> QED
        BY <1>0, <2>1, <2>2, <2>4, <4>1, <4>2, <4>3, <4>4, <4>5 DEF ChanceBound
    <3>3. CASE ~(Due(b, k) /\ InWindow(b, k, now + 1))
      BY <1>0, <2>2, <3>1, <3>3, NoChance
    <3> QED
      BY <3>2, <3>3
  <2> QED
    BY <1>0, <2>1, <2>2, <2>3, <2>4 DEF TimeInv
<1>14. ASSUME NEW i \in batch, SendRaises(i)
       PROVE  TimeInv'
  <2>1. UNCHANGED <<now, up, next_run, visits>> /\ up
        /\ batch' = {} /\ marking = {} /\ marking' = {} /\ chance' = Restart(PairsOf(batch))
    BY <1>14, NextToSendInBatch DEF SendRaises, TypeOK, TimeInv
  <2>2. ASSUME NEW b \in BookingIds, NEW k \in Kinds
        PROVE  ChanceBound(b, k)'
    <3>1. CASE Handled(b, k)
      <4>1. chance'[<<b, k>>] = 0
        BY <2>1, <3>1, RestartFacts, PairFacts DEF Handled
      <4>2. SinceRun' \in Nat
        BY <1>0, <2>1 DEF SinceRun
      <4> QED
        BY <4>1, <4>2, NoChance
    <3>2. CASE ~Handled(b, k)
      <4>1. chance'[<<b, k>>] = chance[<<b, k>>]
        BY <2>1, <3>2, RestartFacts, PairFacts DEF Handled
      <4>2. ~Handled(b, k)'
        BY <2>1 DEF Handled
      <4> QED
        BY <2>1, <3>2, <4>1, <4>2, SameChance DEF TimeInv
    <3> QED
      BY <3>1, <3>2
  <2> QED
    BY <1>1, <2>1, <2>2
<1>15. ASSUME NEW m \in Movers, NEW b \in BookingIds, NEW s \in Times,
              RescheduleStart(m, b, s)
       PROVE  TimeInv'
  BY <1>15 DEF RescheduleStart, job, history, TimeInv, SinceRun, ChanceBound, Handled,
     InWindow
<1>16. ASSUME NEW v \in moving, RescheduleCommit(v)
       PROVE  TimeInv'
  <2>1. v.b \in BookingIds
    BY DEF TypeOK
  <2> QED
    BY <1>4, <1>16, <2>1
<1>13. ASSUME NEW i \in batch, ItemStep(i)
       PROVE  TimeInv'
  BY <1>2, <1>6, <1>7, <1>13, <1>14 DEF ItemStep
<1> QED
  BY <1>2, <1>3, <1>4, <1>5, <1>8, <1>9, <1>10, <1>11, <1>12, <1>13, <1>15, <1>16,
     StepCases

(* A bot that runs reminds in time, for every interval of the job and      *)
(* every window.                                                           *)
THEOREM ReminderInTimeHolds == Spec => []ReminderInTime
<1> USE RemindersAssumption
<1>1. Init => ReadInv /\ TimeInv
  <2> SUFFICES ASSUME Init
               PROVE  ReadInv /\ TimeInv
    OBVIOUS
  <2>1. SinceRun = 0 /\ \A p \in Pairs : chance[p] = 0
    BY DEF Init, SinceRun
  <2>2. ASSUME NEW b \in BookingIds, NEW k \in Kinds
        PROVE  ChanceBound(b, k)
    <3>1. chance[<<b, k>>] = 0
      BY <2>1, PairFacts
    <3> QED
      BY <2>1, <3>1 DEF ChanceBound
  <2> QED
    BY <2>1, <2>2 DEF Init, ReadInv, TimeInv
<1>2. TypeOK /\ ReadInv /\ TimeInv /\ [Next]_vars => ReadInv' /\ TimeInv'
  BY ReadStep, TimeStep
<1>3. TimeInv => ReminderInTime
  <2> SUFFICES ASSUME TimeInv, NEW b \in BookingIds, NEW k \in Kinds
               PROVE  chance[<<b, k>>] <= 2 * Interval
    BY DEF ReminderInTime, Pairs
  <2> QED
    BY PairFacts DEF TimeInv, ChanceBound
<1> QED
  BY <1>1, <1>2, <1>3, TypeCorrect, PTL DEF Spec
=============================================================================
