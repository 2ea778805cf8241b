-------------------------- MODULE SalonDataProofs ---------------------------
(***************************************************************************)
(* What the operators on rows and on the slot grid return, for every value *)
(* of the constants.                                                       *)
(***************************************************************************)
EXTENDS SalonData, FiniteSetTheorems, TLAPS

(* A visit as long as one step needs one slot (slots_needed).              *)
LEMMA OneStepVisit == \A n \in Nat \ {0} : SlotsNeeded(n, n) = 1
  BY SMT DEF SlotsNeeded

(* A finite set has fewer than one element exactly when it is empty.       *)
LEMMA NoneBefore ==
  ASSUME NEW S, IsFiniteSet(S)
  PROVE  Cardinality(S) < 1 <=> S = {}
<1>1. Cardinality(S) \in Nat
  BY FS_CardinalityType
<1>2. Cardinality(S) = 0 <=> S = {}
  BY FS_EmptySet
<1> QED
  BY <1>1, <1>2

(* A slot is its day and its start time, both numbers.                     *)
LEMMA SlotKeyParts ==
  ASSUME NEW s \in SlotKey
  PROVE  /\ s = <<s[1], s[2]>>
         /\ s[1] \in Days /\ s[2] \in Starts
         /\ s[1] \in Nat /\ s[2] \in Nat
<1>1. s = <<s[1], s[2]>> /\ s[1] \in Days /\ s[2] \in Starts
  BY DEF SlotKey
<1> QED
  BY <1>1, DataAssumption DEF DataAssumption

(* The block of one slot, from a slot that is in the table, is that slot   *)
(* (_consecutive_block).                                                   *)
LEMMA OneSlotBlock ==
  ASSUME NEW tbl, NEW s \in SlotKey, Present(tbl, s)
  PROVE  ConsecutiveBlock(tbl, s, 1) = {s}
<1> DEFINE before(x) == {t \in Starts : /\ s[2] <= t /\ t < x[2]
                                        /\ Present(tbl, <<s[1], t>>)}
<1>1. ASSUME NEW x \in SlotKey
      PROVE  Cardinality(before(x)) < 1 <=> before(x) = {}
  <2>1. IsFiniteSet(before(x))
    BY FS_Subset, DataAssumption DEF DataAssumption
  <2> HIDE DEF before
  <2> QED
    BY <2>1, NoneBefore
<1>2. before(s) = {}
  BY SlotKeyParts, DataAssumption DEF DataAssumption
<1>3. ASSUME NEW x \in SlotKey, x[1] = s[1], s[2] <= x[2], before(x) = {}
      PROVE  x = s
  <2>1. s[2] \notin before(x)
    BY <1>3
  <2>2. Present(tbl, <<s[1], s[2]>>)
    BY SlotKeyParts
  <2>3. ~(s[2] < x[2])
    BY <2>1, <2>2, SlotKeyParts
  <2>4. x[2] = s[2]
    BY <2>3, <1>3, SlotKeyParts
  <2> QED
    BY <2>4, <1>3, SlotKeyParts
<1>4. ConsecutiveBlock(tbl, s, 1) = 
        {x \in SlotKey : /\ Present(tbl, s) /\ Present(tbl, x)
                         /\ x[1] = s[1] /\ s[2] <= x[2]
                         /\ before(x) = {}}
  BY <1>1 DEF ConsecutiveBlock
<1> HIDE DEF before
<1>5. s[2] <= s[2]
  BY SlotKeyParts
<1> QED
  BY <1>2, <1>3, <1>4, <1>5

(* The slot rows that the services write are rows of the table.            *)
LEMMA SlotRows ==
  /\ AbsentSlot \in SlotRow /\ FreeSlot \in SlotRow /\ BookedSlot \in SlotRow
  /\ \A u \in Users, t \in Nat : HeldSlot(u, t) \in SlotRow
  BY DEF SlotRow, SlotStatus, AbsentSlot, FreeSlot, BookedSlot, HeldSlot, NoTime

BookingOrAbsent == BookingRow \cup {AbsentBooking}

(* A booking is stored exactly when its status is one of the four.         *)
LEMMA StoredRow ==
  ASSUME NEW row \in BookingOrAbsent
  PROVE  /\ row.status # "absent" <=> row # AbsentBooking
         /\ row # AbsentBooking => row \in BookingRow
  BY DEF BookingOrAbsent, BookingRow, BookingStatus, AbsentBooking

(* Writing a status leaves a booking row a booking row.                    *)
LEMMA NewStatus ==
  ASSUME NEW row \in BookingRow, NEW status \in BookingStatus
  PROVE  [row EXCEPT !.status = status] \in BookingRow
  BY DEF BookingRow

(* The row hold_slot inserts is a booking row.                             *)
LEMMA PendingRow ==
  ASSUME NEW u \in Users, NEW s \in SlotKey, NEW n \in Nat \ {0}
  PROVE  PendingBooking(u, s, n) \in BookingRow
  BY DEF PendingBooking, BookingRow, BookingStatus

(* A live booking is stored.                                               *)
LEMMA LiveRow ==
  ASSUME NEW row \in BookingOrAbsent, IsLive(row)
  PROVE  row \in BookingRow
  BY StoredRow DEF IsLive, LIVE_BOOKING_STATUSES

(* A live booking is neither absent nor completed.                         *)
LEMMA LiveIsStored ==
  \A row : IsLive(row) => row # AbsentBooking /\ row.status # "completed"
  BY DEF IsLive, AbsentBooking, LIVE_BOOKING_STATUSES
=============================================================================
