--------------------------- MODULE BookingsProofs ---------------------------
(***************************************************************************)
(* Invariance of the safety properties of Bookings, for every value of the *)
(* constants.  The types and the one live booking of a client need no      *)
(* hypothesis; the rest is proved for a database with both unique indexes  *)
(* whose settings row carries the default step, the only one the present   *)
(* code writes.                                                            *)
(***************************************************************************)
EXTENDS Bookings, SalonDataProofs

(***************************************************************************)
(* Types.                                                                  *)
(***************************************************************************)

(* Freeing blocks leaves the slots table well formed (_free_block).        *)
LEMMA FreeBlocksType ==
  ASSUME TypeOK, NEW B
  PROVE  FreeBlocks(B) \in [SlotKey -> SlotRow]
  BY SlotRows DEF FreeBlocks, TypeOK

(* Writing one status into stored bookings keeps the table well formed.    *)
LEMMA WithStatusType ==
  ASSUME NEW bk \in [BookingIds -> BookingOrAbsent], NEW B,
         \A b \in B : bk[b] # AbsentBooking,
         NEW status \in BookingStatus
  PROVE  WithStatus(bk, B, status) \in [BookingIds -> BookingOrAbsent]
<1> SUFFICES ASSUME NEW b \in BookingIds
             PROVE  (IF b \in B THEN [bk[b] EXCEPT !.status = status] ELSE bk[b])
                      \in BookingOrAbsent
  BY DEF WithStatus
<1>1. CASE b \in B
  BY <1>1, StoredRow, NewStatus DEF BookingOrAbsent
<1>2. CASE b \notin B
  BY <1>2
<1> QED
  BY <1>1, <1>2

(* So does closing finished visits (_settle_user_past).                    *)
LEMMA SettleType ==
  ASSUME TypeOK, NEW B, \A b \in B : bookings[b] # AbsentBooking
  PROVE  Settle(B) \in [BookingIds -> BookingOrAbsent]
<1> DEFINE closed(b) == IF bookings[b].status = "active"
                        THEN "completed" ELSE "cancelled"
<1>1. \A b \in BookingIds : closed(b) \in BookingStatus
  BY DEF BookingStatus
<1> SUFFICES ASSUME NEW b \in BookingIds
             PROVE  Settle(B)[b] \in BookingOrAbsent
  BY DEF Settle
<1>2. bookings[b] \in BookingOrAbsent
  BY DEF TypeOK, BookingOrAbsent
<1>3. CASE b \in B
  <2>1. Settle(B)[b] = [bookings[b] EXCEPT !.status = closed(b)]
    BY <1>3 DEF Settle
  <2>2. bookings[b] \in BookingRow
    BY <1>2, <1>3, StoredRow
  <2> HIDE DEF closed
  <2> QED
    BY <1>1, <2>1, <2>2, NewStatus DEF BookingOrAbsent
<1>4. CASE b \notin B
  BY <1>2, <1>4 DEF Settle
<1> QED
  BY <1>3, <1>4

(* The step of a day is positive (_step_for_day).                          *)
LEMMA StepType ==
  ASSUME TypeOK, NEW d \in Days
  PROVE  StepForDay(d) \in Nat \ {0}
  BY DEF TypeOK, StepForDay

(* A commit of well formed tables keeps the types.                         *)
LEMMA CommitType ==
  ASSUME TypeOK, NEW sl \in [SlotKey -> SlotRow],
         NEW bk \in [BookingIds -> BookingOrAbsent], Commit(sl, bk)
  PROVE  TypeOK'
  BY DEF TypeOK, BookingOrAbsent, Commit, schedule

(* hold_slot keeps the types.                                              *)
LEMMA HoldSlotType ==
  ASSUME TypeOK, NEW u \in Users, NEW s \in SlotKey, NEW b \in BookingIds,
         HoldSlot(u, s, b)
  PROVE  TypeOK'
<1> DEFINE past == LiveOf(u) \cap PastIds
           freed == FreeBlocks(past)
           settled == Settle(past)
           step == StepForDay(s[1])
           need == SlotsNeeded(step, step)
           block == ConsecutiveBlock(slots, s, need)
           stale == {c \in BookingIds :
                       IsPending(settled[c]) /\ settled[c].slot \in block}
           sl == [x \in SlotKey |->
                    IF x \in block THEN HeldSlot(u, now + HoldLength)
                                   ELSE freed[x]]
           bk == [WithStatus(settled, stale, "cancelled")
                    EXCEPT ![b] = PendingBooking(u, s, step)]
<1>1. Commit(sl, bk)
  BY DEF HoldSlot, HoldBlock, PastOf, BookingsWithHold
<1>2. freed \in [SlotKey -> SlotRow]
  BY FreeBlocksType
<1>3. settled \in [BookingIds -> BookingOrAbsent]
  <2>1. \A c \in past : bookings[c] # AbsentBooking
    BY DEF LiveOf, LiveIds, IsLive, LIVE_BOOKING_STATUSES, AbsentBooking
  <2> QED
    BY <2>1, SettleType
<1>4. \A c \in stale : settled[c] # AbsentBooking
  BY DEF IsPending, AbsentBooking
<1>5. WithStatus(settled, stale, "cancelled") \in [BookingIds -> BookingOrAbsent]
  <2> HIDE DEF settled, stale
  <2> QED
    BY <1>3, <1>4, WithStatusType DEF BookingStatus
<1>6. step \in Nat \ {0}
  BY StepType, SlotKeyParts
<1>7. HeldSlot(u, now + HoldLength) \in SlotRow
  BY SlotRows, DataAssumption DEF DataAssumption, TypeOK
<1> HIDE DEF past, freed, settled, step, need, block, stale
<1>8. sl \in [SlotKey -> SlotRow]
  BY <1>2, <1>7
<1>9. bk \in [BookingIds -> BookingOrAbsent]
  BY <1>5, <1>6, PendingRow DEF BookingOrAbsent
<1> HIDE DEF sl, bk
<1> QED
  BY <1>1, <1>8, <1>9, CommitType

(* _rebuild_free_slots keeps the slots table well formed.                  *)
LEMMA ScheduleRowsType ==
  ASSUME TypeOK, NEW d \in Days, NEW times
  PROVE  RebuildFreeSlots(d, times) \in [SlotKey -> SlotRow]
<1>1. \A s \in SlotKey : [slots[s] EXCEPT !.status = "blocked"] \in SlotRow
  BY DEF TypeOK, SlotRow, SlotStatus
<1> QED
  BY <1>1, SlotRows DEF RebuildFreeSlots, TypeOK

(* Dropping days with their slots and bookings keeps the types.            *)
LEMMA DropDaysType ==
  ASSUME TypeOK, NEW D, DropDays(D)
  PROVE  TypeOK'
<1>1. slots' \in [SlotKey -> SlotRow]
  BY SlotRows DEF TypeOK, DropDays
<1>2. bookings' \in [BookingIds -> BookingRow \cup {AbsentBooking}]
  BY DEF TypeOK, DropDays
<1> QED
  BY <1>1, <1>2 DEF TypeOK, DropDays

(* The types hold of an empty database.                                    *)
LEMMA TypeInit == Init => TypeOK
<1> SUFFICES ASSUME Init PROVE TypeOK
  OBVIOUS
<1>1. PICK h \in Hours, step \in InitialSteps :
        work_settings = [open |-> h[1], close |-> h[2], step |-> step]
  BY DEF Init
<1>2. h[1] \in Nat /\ h[2] \in Nat /\ step \in Nat \ {0}
  BY ScheduleAssumption, DataAssumption DEF ScheduleAssumption, DataAssumption
<1> QED
  BY <1>1, <1>2, SlotRows DEF Init, TypeOK

(* Every call and every tick keeps the types.                              *)
LEMMA TypeStep ==
  ASSUME TypeOK, [Next]_vars
  PROVE  TypeOK'
<1>rows. bookings \in [BookingIds -> BookingOrAbsent]
  BY DEF TypeOK, BookingOrAbsent
<1>live. \A b \in LiveIds : bookings[b] # AbsentBooking
  BY DEF LiveIds, IsLive, LIVE_BOOKING_STATUSES, AbsentBooking
<1>pending. \A b \in BookingIds : IsPending(bookings[b]) => b \in LiveIds
  BY DEF LiveIds, IsLive, IsPending, LIVE_BOOKING_STATUSES
<1>cancelled. ASSUME NEW B, B \subseteq BookingIds,
                     \A b \in B : bookings[b] # AbsentBooking
              PROVE  WithStatus(bookings, B, "cancelled")
                       \in [BookingIds -> BookingOrAbsent]
  BY <1>rows, <1>cancelled, WithStatusType DEF BookingStatus
<1>1. CASE UNCHANGED vars
  BY <1>1 DEF TypeOK, vars
<1>2. CASE Tick
  BY <1>2 DEF TypeOK, Tick, schedule
<1>3. ASSUME NEW u \in Users, OpenBookingForm(u)
      PROVE  TypeOK'
  BY <1>3, <1>live, FreeBlocksType, SettleType, CommitType
     DEF OpenBookingForm, LiveOf
<1>4. ASSUME NEW u \in Users, NEW s \in SlotKey, NEW b \in BookingIds,
             HoldSlot(u, s, b)
      PROVE  TypeOK'
  BY <1>4, HoldSlotType
<1>5. ASSUME NEW b \in BookingIds, ConfirmWithReceipt(b)
      PROVE  TypeOK'
  <2> DEFINE sl == [s \in SlotKey |->
               IF s \in BlockSlots(bookings[b]) THEN BookedSlot ELSE slots[s]]
             bk == [bookings EXCEPT ![b].status = "active", ![b].receipt = TRUE]
  <2>1. Commit(sl, bk)
    BY <1>5 DEF ConfirmWithReceipt
  <2>2. sl \in [SlotKey -> SlotRow]
    BY SlotRows DEF TypeOK
  <2>3. bookings[b] \in BookingRow
    BY <1>5, <1>rows, <1>pending, <1>live, StoredRow DEF ConfirmWithReceipt
  <2>4. bk[b] \in BookingRow
    BY <2>3, <1>rows DEF BookingRow, BookingStatus
  <2>5. bk \in [BookingIds -> BookingOrAbsent]
    BY <2>4, <1>rows DEF BookingOrAbsent
  <2> HIDE DEF sl, bk
  <2> QED
    BY <2>1, <2>2, <2>5, CommitType
<1>6. ASSUME NEW b \in BookingIds, ReceiptTooLate(b)
      PROVE  TypeOK'
  BY <1>6, <1>cancelled, <1>pending, <1>live, FreeBlocksType, CommitType
     DEF ReceiptTooLate
<1>7. ASSUME NEW b \in BookingIds, AttachLateReceipt(b)
      PROVE  TypeOK'
  <2> DEFINE bk == [bookings EXCEPT ![b].receipt = TRUE]
  <2>1. bookings[b] \in BookingRow
    BY <1>7, <1>rows, StoredRow DEF AttachLateReceipt
  <2>2. bk \in [BookingIds -> BookingOrAbsent]
    BY <2>1, <1>rows DEF BookingRow, BookingOrAbsent
  <2> HIDE DEF bk
  <2> QED
    BY <1>7, <2>2, CommitType DEF AttachLateReceipt, TypeOK, bk
<1>8. ASSUME NEW b \in BookingIds, CancelBooking(b)
      PROVE  TypeOK'
  BY <1>8, <1>cancelled, FreeBlocksType, CommitType DEF CancelBooking
<1>9. ASSUME NEW b \in BookingIds, CancelByClient(b)
      PROVE  TypeOK'
  BY <1>8, <1>9 DEF CancelByClient
<1>10. ASSUME NEW h \in Hours, SetWorkSettings(h)
       PROVE  TypeOK'
  <2>1. h[1] \in Nat /\ h[2] \in Nat
    BY ScheduleAssumption, DataAssumption
       DEF ScheduleAssumption, DataAssumption
  <2> QED
    BY <1>10, <2>1, DataAssumption DEF TypeOK, SetWorkSettings, DataAssumption
<1>11. ASSUME NEW d \in Days, AddDayFromDefaults(d)
       PROVE  TypeOK'
  BY <1>11, SlotRows DEF TypeOK, AddDayFromDefaults
<1>12. ASSUME NEW d \in Days, NEW h \in Hours, SetDayHours(d, h)
       PROVE  TypeOK'
  BY <1>12, ScheduleRowsType, DataAssumption
     DEF TypeOK, SetDayHours, DataAssumption
<1>13. ASSUME NEW d \in Days, ClearDayOverride(d)
       PROVE  TypeOK'
  BY <1>13, ScheduleRowsType DEF TypeOK, ClearDayOverride
<1>14. ASSUME NEW d \in Days, DeleteDay(d)
       PROVE  TypeOK'
  BY <1>14, DropDaysType DEF DeleteDay
<1>15. ASSUME NEW s \in SlotKey, ToggleSlotBlock(s)
       PROVE  TypeOK'
  <2>1. slots'[s] \in SlotRow
    BY <1>15 DEF ToggleSlotBlock, TypeOK, SlotRow, SlotStatus
  <2> QED
    BY <1>15, <2>1 DEF ToggleSlotBlock, TypeOK, schedule
<1>16. ASSUME NEW b \in BookingIds, NEW s \in SlotKey, Reschedule(b, s)
       PROVE  TypeOK'
  <2> DEFINE row == bookings[b]
             need == SlotsNeeded(row.duration, StepForDay(s[1]))
             block == ConsecutiveBlock(slots, s, need)
             freed == FreeBlocks({b})
             taken == IF IsPending(row) THEN HeldSlot(row.user, now + HoldLength)
                      ELSE BookedSlot
             sl == [x \in SlotKey |-> IF x \in block THEN taken ELSE freed[x]]
             bk == [bookings EXCEPT ![b].slot = s]
  <2>1. Commit(sl, bk)
    BY <1>16 DEF Reschedule
  <2>2. row \in BookingRow
    BY <1>16, <1>rows, LiveRow DEF Reschedule
  <2>3. taken \in SlotRow
    BY <2>2, SlotRows, DataAssumption DEF BookingRow, TypeOK, DataAssumption
  <2>4. freed \in [SlotKey -> SlotRow]
    BY FreeBlocksType
  <2>5. bk \in [BookingIds -> BookingOrAbsent]
    BY <2>2, <1>rows DEF BookingRow, BookingOrAbsent
  <2> HIDE DEF taken, freed, block, need
  <2>6. sl \in [SlotKey -> SlotRow]
    BY <2>3, <2>4
  <2> HIDE DEF sl, bk
  <2> QED
    BY <2>1, <2>5, <2>6, CommitType
<1>17. CASE ReleaseExpiredHolds
  <2> DEFINE sl == [s \in SlotKey |-> IF s \in Lapsed THEN FreeSlot ELSE slots[s]]
  <2>1. sl \in [SlotKey -> SlotRow]
    BY SlotRows DEF TypeOK
  <2> HIDE DEF sl
  <2> QED
    BY <1>17, <1>cancelled, <1>pending, <1>live, <2>1, CommitType
       DEF ReleaseExpiredHolds, sl
<1>18. CASE SettlePastBookings
  BY <1>18, <1>live, FreeBlocksType, SettleType, CommitType
     DEF SettlePastBookings, PastIds
<1>19. CASE PurgePastDays
  BY <1>19, DropDaysType DEF PurgePastDays
<1> QED
  BY <1>1, <1>2, <1>3, <1>4, <1>5, <1>6, <1>7, <1>8, <1>9, <1>10, <1>11,
     <1>12, <1>13, <1>14, <1>15, <1>16, <1>17, <1>18, <1>19
     DEF Next, ClientStep, MasterStep, SchedulerStep

(* Every reachable state of the bookings service has the declared types:   *)
(* no call writes a status, an owner, an expiry or a duration out of       *)
(* range.                                                                  *)
THEOREM TypeCorrect == Spec => []TypeOK
<1>1. Init => TypeOK
  BY TypeInit
<1>2. TypeOK /\ [Next]_vars => TypeOK'
  BY TypeStep
<1> QED
  BY <1>1, <1>2, PTL DEF Spec

-----------------------------------------------------------------------------
(***************************************************************************)
(* The unique indexes.                                                     *)
(***************************************************************************)

(* Where both indexes were built, a commit keeps live bookings apart.      *)
LEMMA CommitApart ==
  ASSUME IndexesBuilt, NEW sl, NEW bk, Commit(sl, bk)
  PROVE  OneLiveBooking'
BY DEF Commit, UniqueLiveIndexes, IndexesBuilt, OneLiveBooking, LiveSlotsApart,
   LiveUsersApart

(* No step lets two live bookings share a slot or a client: a commit is    *)
(* checked by the unique indexes, and dropping days only removes rows.     *)
LEMMA OneLiveStep ==
  ASSUME IndexesBuilt, TypeOK, OneLiveBooking, [Next]_vars
  PROVE  OneLiveBooking'
<1> USE DEF OneLiveBooking, LiveSlotsApart, LiveUsersApart
<1>1. ASSUME NEW sl, NEW bk, Commit(sl, bk)
      PROVE  OneLiveBooking'
  BY <1>1, CommitApart
<1>2. ASSUME UNCHANGED bookings
      PROVE  OneLiveBooking'
  BY <1>2
<1>3. ASSUME NEW D, DropDays(D)
      PROVE  OneLiveBooking'
  <2>1. \A b \in BookingIds : IsLive(bookings'[b]) => bookings'[b] = bookings[b]
    BY <1>3 DEF DropDays, IsLive, AbsentBooking, LIVE_BOOKING_STATUSES
  <2> QED
    BY <2>1 DEF OneLiveBooking, LiveSlotsApart, LiveUsersApart
<1>4. CASE ClientStep
  BY <1>1, <1>4 DEF ClientStep, OpenBookingForm, HoldSlot, ConfirmWithReceipt,
     ReceiptTooLate, AttachLateReceipt, CancelByClient, CancelBooking
<1>5. CASE MasterStep
  BY <1>1, <1>2, <1>3, <1>5 DEF MasterStep, SetWorkSettings, AddDayFromDefaults,
     SetDayHours, ClearDayOverride, DeleteDay, ToggleSlotBlock, CancelBooking,
     Reschedule
<1>6. CASE SchedulerStep
  BY <1>1, <1>3, <1>6 DEF SchedulerStep, ReleaseExpiredHolds,
     SettlePastBookings, PurgePastDays
<1>7. CASE Tick \/ UNCHANGED vars
  BY <1>2, <1>7 DEF Tick, vars
<1> QED
  BY <1>4, <1>5, <1>6, <1>7 DEF Next

(* The two calls that give a booking a slot are refused by an index rather *)
(* than let two live bookings share it.                                    *)
LEMMA CallApart ==
  ASSUME ScheduleInv, NEW b \in BookingIds, NEW s \in SlotKey,
         Reschedule(b, s) \/ \E u \in Users : HoldSlot(u, s, b)
  PROVE  OneLiveBooking'
BY CommitApart DEF ScheduleInv, Reschedule, HoldSlot

-----------------------------------------------------------------------------
(***************************************************************************)
(* One live booking per client, whether or not the indexes exist.          *)
(***************************************************************************)

(* Writing a final status ends the life of a booking.                      *)
LEMMA StatusEndsLife ==
  ASSUME NEW bk \in [BookingIds -> BookingOrAbsent], NEW B,
         NEW c \in BookingIds, IsLive(WithStatus(bk, B, "cancelled")[c])
  PROVE  WithStatus(bk, B, "cancelled")[c] = bk[c]
BY DEF WithStatus, IsLive, LIVE_BOOKING_STATUSES, BookingOrAbsent, BookingRow,
   AbsentBooking

(* So does closing a finished visit.                                       *)
LEMMA SettleEndsLife ==
  ASSUME TypeOK, NEW B, NEW c \in BookingIds, IsLive(Settle(B)[c])
  PROVE  c \notin B /\ Settle(B)[c] = bookings[c]
BY DEF TypeOK, Settle, IsLive, LIVE_BOOKING_STATUSES, BookingRow, AbsentBooking

(* hold_slot leaves its client the one live booking it adds, and the live  *)
(* bookings of the others are as they were, or live no longer.             *)
LEMMA HoldLeavesOneLive ==
  ASSUME TypeOK, NEW u \in Users, NEW s \in SlotKey, NEW b \in BookingIds,
         HoldSlot(u, s, b)
  PROVE  /\ bookings'[b].user = u
         /\ \A c \in BookingIds \ {b} :
              IsLive(bookings'[c]) => /\ bookings'[c] = bookings[c]
                                      /\ IsLive(bookings[c]) /\ bookings[c].user # u
<1> DEFINE settled == Settle(PastOf(u))
           stale == {c \in BookingIds :
                       IsPending(settled[c]) /\ settled[c].slot \in HoldBlock(s)}
           new == PendingBooking(u, s, StepForDay(s[1]))
<1>1. bookings' = [WithStatus(settled, stale, "cancelled") EXCEPT ![b] = new]
  BY DEF HoldSlot, BookingsWithHold, Commit
<1>2. new.user = u /\ LiveOf(u) \subseteq PastIds
  BY DEF PendingBooking, HoldSlot, MayHold
<1>3. settled \in [BookingIds -> BookingOrAbsent]
  <2>1. PastOf(u) \subseteq LiveIds /\ \A c \in PastOf(u) : bookings[c] # AbsentBooking
    BY DEF PastOf, LiveOf, LiveIds, IsLive, LIVE_BOOKING_STATUSES, AbsentBooking
  <2> QED
    BY <2>1, SettleType
<1>4. ASSUME NEW c \in BookingIds \ {b}, IsLive(bookings'[c])
      PROVE  /\ bookings'[c] = bookings[c]
             /\ IsLive(bookings[c]) /\ bookings[c].user # u
  <2>1. bookings'[c] = WithStatus(settled, stale, "cancelled")[c]
    BY <1>1 DEF WithStatus
  <2> HIDE DEF stale, settled
  <2>2. bookings'[c] = settled[c] /\ IsLive(settled[c])
    BY <1>3, <1>4, <2>1, StatusEndsLife
  <2> USE DEF settled
  <2>3. c \notin PastOf(u) /\ settled[c] = bookings[c]
    BY <2>2, SettleEndsLife
  <2> QED
    BY <1>2, <2>2, <2>3 DEF PastOf, LiveOf, LiveIds
<1>5. bookings'[b].user = u
  <2> HIDE DEF settled, stale, new
  <2> QED
    BY <1>1, <1>2 DEF WithStatus
<1> QED
  BY <1>4, <1>5

(* No call but hold_slot makes a booking live.                             *)
LEMMA NoNewLife ==
  ASSUME OneLivePerClient,
         \A c \in BookingIds :
           IsLive(bookings'[c]) =>
             IsLive(bookings[c]) /\ bookings'[c].user = bookings[c].user
  PROVE  OneLivePerClient'
BY DEF OneLivePerClient, LiveUsersApart

LEMMA UsersApartStep ==
  ASSUME TypeOK, OneLivePerClient, [Next]_vars
  PROVE  OneLivePerClient'
<1>rows. bookings \in [BookingIds -> BookingOrAbsent]
  BY DEF TypeOK, BookingOrAbsent
<1>same. ASSUME UNCHANGED bookings PROVE OneLivePerClient'
  BY <1>same, NoNewLife
<1>status. ASSUME NEW B, bookings' = WithStatus(bookings, B, "cancelled")
           PROVE  OneLivePerClient'
  BY <1>rows, <1>status, StatusEndsLife, NoNewLife
<1>settle. ASSUME NEW B, bookings' = Settle(B) PROVE OneLivePerClient'
  BY <1>settle, SettleEndsLife, NoNewLife
<1>drop. ASSUME NEW D, DropDays(D) PROVE OneLivePerClient'
  BY <1>drop, NoNewLife DEF DropDays, IsLive, LIVE_BOOKING_STATUSES, AbsentBooking
<1>write. ASSUME NEW b \in BookingIds, NEW r \in BookingRow,
                 bookings' = [bookings EXCEPT ![b] = r],
                 IsLive(r) => IsLive(bookings[b]) /\ r.user = bookings[b].user
          PROVE  OneLivePerClient'
  BY <1>rows, <1>write, NoNewLife
<1>cancel. ASSUME NEW b \in BookingIds, CancelBooking(b)
           PROVE  OneLivePerClient'
  BY <1>cancel, <1>status DEF CancelBooking, Commit
<1>1. ASSUME NEW u \in Users, NEW s \in SlotKey, NEW b \in BookingIds,
             HoldSlot(u, s, b)
      PROVE  OneLivePerClient'
  BY <1>1, HoldLeavesOneLive DEF OneLivePerClient, LiveUsersApart
<1>2. ASSUME NEW b \in BookingIds, ConfirmWithReceipt(b)
      PROVE  OneLivePerClient'
  <2> DEFINE r == [bookings[b] EXCEPT !.status = "active", !.receipt = TRUE]
  <2>1. bookings[b] \in BookingRow /\ IsLive(bookings[b])
    BY <1>2, <1>rows DEF ConfirmWithReceipt, IsPending, IsLive,
       LIVE_BOOKING_STATUSES, BookingOrAbsent, AbsentBooking
  <2>2. r \in BookingRow /\ r.user = bookings[b].user
    BY <2>1 DEF BookingRow, BookingStatus
  <2>3. bookings' = [bookings EXCEPT ![b] = r]
    BY <1>2, <1>rows, <2>1 DEF ConfirmWithReceipt, Commit
  <2> HIDE DEF r
  <2> QED
    BY <2>1, <2>2, <2>3, <1>write
<1>3. ASSUME NEW b \in BookingIds, AttachLateReceipt(b)
      PROVE  OneLivePerClient'
  <2> DEFINE r == [bookings[b] EXCEPT !.receipt = TRUE]
  <2>1. bookings[b] \in BookingRow
    BY <1>3, <1>rows DEF AttachLateReceipt, BookingOrAbsent, AbsentBooking
  <2>2. r \in BookingRow /\ ~IsLive(r)
    BY <1>3, <2>1 DEF AttachLateReceipt, BookingRow, IsLive, LIVE_BOOKING_STATUSES
  <2>3. bookings' = [bookings EXCEPT ![b] = r]
    BY <1>3, <1>rows, <2>1 DEF AttachLateReceipt, Commit
  <2> HIDE DEF r
  <2> QED
    BY <2>2, <2>3, <1>write
<1>4. ASSUME NEW b \in BookingIds, NEW s \in SlotKey, Reschedule(b, s)
      PROVE  OneLivePerClient'
  <2> DEFINE r == [bookings[b] EXCEPT !.slot = s]
  <2>1. bookings[b] \in BookingRow /\ IsLive(bookings[b])
    BY <1>4, <1>rows DEF Reschedule, IsLive, LIVE_BOOKING_STATUSES,
       BookingOrAbsent, AbsentBooking
  <2>2. r \in BookingRow /\ r.user = bookings[b].user
    BY <2>1 DEF BookingRow
  <2>3. bookings' = [bookings EXCEPT ![b] = r]
    BY <1>4, <1>rows, <2>1 DEF Reschedule, Commit
  <2> HIDE DEF r
  <2> QED
    BY <2>1, <2>2, <2>3, <1>write
<1>5. CASE ClientStep
  BY <1>1, <1>2, <1>3, <1>5, <1>status, <1>settle, <1>cancel DEF ClientStep,
     OpenBookingForm, ReceiptTooLate, CancelByClient, Commit
<1>6. CASE MasterStep
  BY <1>4, <1>6, <1>same, <1>drop, <1>cancel DEF MasterStep, SetWorkSettings,
     AddDayFromDefaults, SetDayHours, ClearDayOverride, DeleteDay, ToggleSlotBlock
<1>7. CASE SchedulerStep
  BY <1>7, <1>status, <1>settle, <1>drop DEF SchedulerStep, ReleaseExpiredHolds,
     SettlePastBookings, PurgePastDays, Commit
<1>8. CASE Tick \/ UNCHANGED vars
  BY <1>8, <1>same DEF Tick, vars
<1> QED
  BY <1>5, <1>6, <1>7, <1>8 DEF Next

(* A client has one live booking at most, whatever steps the settings row  *)
(* and the days carry, and whether or not uq_live_booking_user was built.  *)
THEOREM OneLivePerClientHolds == Spec => []OneLivePerClient
<1>1. Init => OneLivePerClient
  BY DEF Init, OneLivePerClient, LiveUsersApart, IsLive, AbsentBooking,
     LIVE_BOOKING_STATUSES
<1>2. TypeOK /\ OneLivePerClient /\ [Next]_vars => OneLivePerClient'
  BY UsersApartStep
<1> QED
  BY <1>1, <1>2, TypeCorrect, PTL DEF Spec

-----------------------------------------------------------------------------
(***************************************************************************)
(* The schedule: who owns which row.  The invariant is stated for visits   *)
(* that are not over, since the cancellation of a completed booking frees  *)
(* a row that a booking moved into the past may claim.                     *)
(***************************************************************************)

(* The start of a visit is a moment of the bot clock (combine_datetime).   *)
LEMMA VisitStartType == \A s \in SlotKey : VisitStart(s) \in Nat
<1> SUFFICES ASSUME NEW s \in SlotKey PROVE VisitStart(s) \in Nat
  OBVIOUS
<1> QED
  BY SlotKeyParts, DataAssumption DEF VisitStart, DataAssumption

(* While every step is DefaultStep a visit occupies one slot, its own      *)
(* (_block_slots).                                                         *)
LEMMA OneSlotVisits ==
  ASSUME ScheduleInv
  PROVE  /\ \A d \in Days : StepForDay(d) = DefaultStep
         /\ \A b \in BookingIds :
              bookings[b] # AbsentBooking =>
                /\ bookings[b] \in BookingRow
                /\ bookings[b].slot \in SlotKey
                /\ BlockSlots(bookings[b]) = {bookings[b].slot}
                /\ VisitEnd(bookings[b])
                     = VisitStart(bookings[b].slot) + DefaultStep
<1> USE DEF ScheduleInv
<1>1. \A d \in Days : StepForDay(d) = DefaultStep
  BY DataAssumption DEF UniformStep, StepForDay, TypeOK, DataAssumption
<1>2. SUFFICES ASSUME NEW b \in BookingIds, bookings[b] # AbsentBooking
               PROVE  /\ bookings[b] \in BookingRow
                      /\ bookings[b].slot \in SlotKey
                      /\ BlockSlots(bookings[b]) = {bookings[b].slot}
                      /\ VisitEnd(bookings[b])
                           = VisitStart(bookings[b].slot) + DefaultStep
  BY <1>1
<1>3. bookings[b] \in BookingRow
  BY <1>2 DEF TypeOK
<1>4. bookings[b].slot \in SlotKey
  BY <1>3 DEF BookingRow
<1>5. bookings[b].duration = DefaultStep
  BY <1>2 DEF UniformStep
<1>6. StepForDay(bookings[b].slot[1]) = DefaultStep
  BY <1>1, <1>4, SlotKeyParts
<1>7. SlotsNeeded(DefaultStep, DefaultStep) = 1
  BY OneStepVisit, DataAssumption DEF DataAssumption
<1>8. Present(slots, bookings[b].slot)
  BY <1>2 DEF BookingKeepsRow
<1> QED
  BY <1>3, <1>4, <1>5, <1>6, <1>7, <1>8, OneSlotBlock DEF BlockSlots, VisitEnd

(* What the invariant says of one stored booking.                          *)
LEMMA StoredVisits ==
  ASSUME ScheduleInv
  PROVE  \A b \in BookingIds :
           bookings[b] # AbsentBooking =>
             /\ bookings[b] \in BookingRow
             /\ bookings[b].slot \in SlotKey
             /\ bookings[b].duration = DefaultStep
             /\ Present(slots, bookings[b].slot)
             /\ VisitEnd(bookings[b]) = VisitStart(bookings[b].slot) + DefaultStep
  BY OneSlotVisits DEF ScheduleInv, UniformStep, BookingKeepsRow

(* Freeing the blocks of some bookings frees exactly their slots.          *)
LEMMA FreedRows ==
  ASSUME ScheduleInv, NEW B, B \subseteq BookingIds,
         \A b \in B : bookings[b] # AbsentBooking
  PROVE  FreeBlocks(B) = [s \in SlotKey |->
                            IF \E b \in B : bookings[b].slot = s
                            THEN FreeSlot ELSE slots[s]]
<1>1. \A b \in B, s \in SlotKey :
        s \in BlockSlots(bookings[b]) <=> bookings[b].slot = s
  BY OneSlotVisits
<1> QED
  BY <1>1 DEF FreeBlocks

(* Nobody else's visit is lost with the row of a booking that is live or   *)
(* completed: the row of a live booking is its own, and a visit on the row *)
(* of a completed one would be over too.                                   *)
LEMMA SoleVisit ==
  ASSUME ScheduleInv,
         NEW b \in BookingIds, bookings[b] # AbsentBooking,
         bookings[b].status # "cancelled",
         NEW c \in BookingIds, c # b, Unfinished(c)
  PROVE  bookings[c].slot # bookings[b].slot
<1>1. CASE IsLive(bookings[b])
  BY <1>1 DEF Unfinished, ScheduleInv, OneLiveBooking, LiveSlotsApart, LiveUsersApart
<1>2. CASE bookings[b].status = "completed"
  <2>1. VisitEnd(bookings[b]) <= now /\ VisitEnd(bookings[c]) > now
    BY <1>2 DEF ScheduleInv, CompletedIsOver, Unfinished
  <2>2. bookings[c] # AbsentBooking
    BY LiveIsStored DEF Unfinished
  <2>3. \A s \in SlotKey : VisitStart(s) + DefaultStep \in Int
    BY VisitStartType, DataAssumption DEF DataAssumption
  <2>4. now \in Int
    BY DEF ScheduleInv, TypeOK
  <2> QED
    BY <2>1, <2>2, <2>3, <2>4, StoredVisits
<1>3. bookings[b].status \in BookingStatus
  BY StoredVisits DEF BookingRow
<1> QED
  BY <1>1, <1>2, <1>3 DEF BookingStatus, IsLive, LIVE_BOOKING_STATUSES

(* How the rows that are written relate to the bookings they are written   *)
(* for.                                                                    *)
LEMMA OccupiedRow ==
  /\ \A row, u, t : Occupies(row, HeldSlot(u, t)) <=> IsPending(row) /\ row.user = u
  /\ \A row : Occupies(row, BookedSlot) <=> row.status = "active"
  /\ \A row, slot : Occupies(row, slot) =>
       /\ slot.status \in BUSY_SLOT_STATUSES
       /\ IsLive(row)
  /\ \A u, t : HeldSlot(u, t).status = "held"
  /\ BookedSlot.status = "booked"
  /\ FreeSlot.status = "free"
  /\ AbsentSlot.status = "absent"
  BY DEF Occupies, HeldSlot, BookedSlot, FreeSlot, AbsentSlot, IsLive, IsPending,
     BUSY_SLOT_STATUSES, LIVE_BOOKING_STATUSES

(* The parts of ScheduleInv that need an argument of their own.            *)
Owned ==
  /\ UniformStep
  /\ BookingKeepsRow
  /\ SlotOfOpenDay
  /\ CompletedIsOver
  /\ BusySlotOwned
  /\ VisitOwnsSlot

(* What a call has to show of the bookings T it writes and of the rows it  *)
(* leaves to the others.                                                   *)
LEMMA OwnedAfterCall ==
  ASSUME ScheduleInv, UNCHANGED <<now, schedule>>,
         NEW T, T \subseteq BookingIds,
         \A c \in BookingIds \ T : bookings'[c] = bookings[c],
         \A s \in SlotKey : Present(slots', s) <=> Present(slots, s),
         \A c \in T :
           /\ bookings'[c].slot \in SlotKey
           /\ bookings'[c].duration = DefaultStep
           /\ Present(slots, bookings'[c].slot)
           /\ bookings'[c].status = "completed" => VisitEnd(bookings'[c]) <= now
           /\ IsLive(bookings'[c]) /\ VisitEnd(bookings'[c]) > now
                => Occupies(bookings'[c], slots'[bookings'[c].slot]),
         \A c \in BookingIds \ T :
           Unfinished(c) => slots'[bookings[c].slot] = slots[bookings[c].slot],
         \A s \in SlotKey :
           slots'[s].status \in BUSY_SLOT_STATUSES =>
             \/ /\ slots'[s] = slots[s]
                /\ \A c \in T : IsLive(bookings[c]) => bookings[c].slot # s
             \/ \E c \in T : /\ Occupies(bookings'[c], slots'[s])
                             /\ bookings'[c].slot = s
  PROVE  Owned'
<1> USE DEF ScheduleInv
<1>1. UniformStep'
  BY DEF UniformStep, schedule
<1>2. SlotOfOpenDay'
  BY DEF SlotOfOpenDay, schedule
<1>3. BookingKeepsRow'
  <2> SUFFICES ASSUME NEW c \in BookingIds, bookings'[c] # AbsentBooking
               PROVE  Present(slots', bookings'[c].slot)
    BY DEF BookingKeepsRow
  <2>1. CASE c \in T
    BY <2>1
  <2>2. CASE c \notin T
    BY <2>2, OneSlotVisits DEF BookingKeepsRow
  <2> QED
    BY <2>1, <2>2
<1>4. CompletedIsOver'
  BY DEF CompletedIsOver
<1>5. BusySlotOwned'
  <2> SUFFICES ASSUME NEW s \in SlotKey, slots'[s].status \in BUSY_SLOT_STATUSES
               PROVE  \E c \in BookingIds : /\ Occupies(bookings'[c], slots'[s])
                                            /\ bookings'[c].slot = s
    BY DEF BusySlotOwned
  <2>1. CASE /\ slots'[s] = slots[s]
             /\ \A c \in T : IsLive(bookings[c]) => bookings[c].slot # s
    <3>1. PICK c \in BookingIds : /\ Occupies(bookings[c], slots[s])
                                  /\ bookings[c].slot = s
      BY <2>1 DEF BusySlotOwned
    <3> QED
      BY <2>1, <3>1, OccupiedRow
  <2> QED
    BY <2>1
<1>6. VisitOwnsSlot'
  <2> SUFFICES ASSUME NEW c \in BookingIds, Unfinished(c)'
               PROVE  Occupies(bookings'[c], slots'[bookings'[c].slot])
    BY DEF VisitOwnsSlot
  <2>1. CASE c \in T
    BY <2>1 DEF Unfinished
  <2>2. CASE c \notin T
    BY <2>2 DEF Unfinished, VisitOwnsSlot
  <2> QED
    BY <2>1, <2>2
<1> QED
  BY <1>1, <1>2, <1>3, <1>4, <1>5, <1>6 DEF Owned

(* What a call of the master that only touches the grid has to show.       *)
LEMMA OwnedAfterGrid ==
  ASSUME ScheduleInv, UNCHANGED <<now, bookings>>,
         UniformStep', SlotOfOpenDay',
         \A s \in SlotKey :
           /\ \/ slots[s].status \in BUSY_SLOT_STATUSES
              \/ slots'[s].status \in BUSY_SLOT_STATUSES
              => slots'[s] = slots[s]
           /\ Present(slots, s) /\ Referenced(s) => Present(slots', s)
  PROVE  Owned'
<1> USE DEF ScheduleInv
<1>1. BookingKeepsRow'
  BY OneSlotVisits DEF BookingKeepsRow, Referenced
<1>2. CompletedIsOver'
  BY DEF CompletedIsOver
<1>3. BusySlotOwned'
  BY DEF BusySlotOwned
<1>4. VisitOwnsSlot'
  <2> SUFFICES ASSUME NEW c \in BookingIds, Unfinished(c)
               PROVE  Occupies(bookings[c], slots'[bookings[c].slot])
    BY DEF VisitOwnsSlot, Unfinished
  <2>1. Occupies(bookings[c], slots[bookings[c].slot])
    BY DEF VisitOwnsSlot
  <2>2. bookings[c].slot \in SlotKey
    BY OneSlotVisits, LiveIsStored DEF Unfinished
  <2> QED
    BY <2>1, <2>2, OccupiedRow
<1> QED
  BY <1>1, <1>2, <1>3, <1>4 DEF Owned

(* confirm_with_receipt books the one row that was held.                   *)
LEMMA ConfirmOwned ==
  ASSUME ScheduleInv, NEW b \in BookingIds, ConfirmWithReceipt(b)
  PROVE  Owned'
<1>1. bookings[b] # AbsentBooking /\ IsLive(bookings[b])
  BY DEF ConfirmWithReceipt, IsPending, AbsentBooking, IsLive, LIVE_BOOKING_STATUSES
<1>2. BlockSlots(bookings[b]) = {bookings[b].slot}
  BY <1>1, OneSlotVisits
<1>3. /\ slots' = [s \in SlotKey |-> IF s = bookings[b].slot THEN BookedSlot
                                                            ELSE slots[s]]
      /\ bookings' = [bookings EXCEPT ![b].status = "active", ![b].receipt = TRUE]
      /\ UNCHANGED <<now, schedule>>
  BY <1>2 DEF ConfirmWithReceipt, Commit
<1>4. /\ bookings'[b].status = "active"
      /\ bookings'[b].slot = bookings[b].slot
      /\ bookings'[b].duration = bookings[b].duration
      /\ \A c \in BookingIds \ {b} : bookings'[c] = bookings[c]
  BY <1>1, <1>3, StoredVisits DEF BookingRow, ScheduleInv, TypeOK
<1>5. \A c \in BookingIds \ {b} :
        Unfinished(c) => slots'[bookings[c].slot] = slots[bookings[c].slot]
  BY <1>1, <1>3, SoleVisit, StoredVisits, LiveIsStored DEF Unfinished,
     IsLive, LIVE_BOOKING_STATUSES
<1>6. \A s \in SlotKey : Present(slots', s) <=> Present(slots, s)
  BY <1>1, <1>3, StoredVisits, OccupiedRow DEF Present
<1> DEFINE T == {b}
<1>7. \A c \in T :
        /\ bookings'[c].slot \in SlotKey
        /\ bookings'[c].duration = DefaultStep
        /\ Present(slots, bookings'[c].slot)
        /\ bookings'[c].status # "completed"
        /\ Occupies(bookings'[c], slots'[bookings'[c].slot])
  BY <1>1, <1>3, <1>4, StoredVisits, OccupiedRow
<1>8. /\ T \subseteq BookingIds
      /\ \A c \in BookingIds \ T : bookings'[c] = bookings[c]
      /\ \A c \in BookingIds \ T :
           Unfinished(c) => slots'[bookings[c].slot] = slots[bookings[c].slot]
      /\ \A s \in SlotKey : slots'[s].status \in BUSY_SLOT_STATUSES =>
           \/ slots'[s] = slots[s] /\ \A c \in T : bookings[c].slot # s
           \/ \E c \in T : /\ Occupies(bookings'[c], slots'[s])
                           /\ bookings'[c].slot = s
  BY <1>3, <1>4, <1>5, OccupiedRow
<1> HIDE DEF T
<1> QED
  <2>1. UNCHANGED <<now, schedule>>
    BY <1>3
  <2> QED
    BY <2>1, <1>6, <1>7, <1>8, OwnedAfterCall

(* A booking that is not cancelled yet is cancelled and its row freed      *)
(* (cancel_booking, and the late receipt).                                 *)
LEMMA CancelOwned ==
  ASSUME ScheduleInv,
         NEW b \in BookingIds, bookings[b] # AbsentBooking,
         bookings[b].status # "cancelled",
         Commit(FreeBlocks({b}), WithStatus(bookings, {b}, "cancelled"))
  PROVE  Owned'
<1>1. /\ slots' = [s \in SlotKey |-> IF s = bookings[b].slot THEN FreeSlot
                                                            ELSE slots[s]]
      /\ UNCHANGED <<now, schedule>>
  BY FreedRows DEF Commit
<1>2. /\ bookings'[b].status = "cancelled"
      /\ bookings'[b].slot = bookings[b].slot
      /\ bookings'[b].duration = bookings[b].duration
      /\ \A c \in BookingIds \ {b} : bookings'[c] = bookings[c]
  BY StoredVisits DEF Commit, WithStatus, BookingRow
<1>3. \A c \in BookingIds \ {b} :
        Unfinished(c) => slots'[bookings[c].slot] = slots[bookings[c].slot]
  BY <1>1, SoleVisit, StoredVisits, LiveIsStored DEF Unfinished
<1>4. ~IsLive(bookings'[b]) /\ bookings'[b].status # "completed"
  BY <1>2 DEF IsLive, LIVE_BOOKING_STATUSES
<1>5. \A s \in SlotKey : slots'[s].status \in BUSY_SLOT_STATUSES =>
        slots'[s] = slots[s] /\ bookings[b].slot # s
  BY <1>1, OccupiedRow DEF BUSY_SLOT_STATUSES
<1>6. \A s \in SlotKey : Present(slots', s) <=> Present(slots, s)
  BY <1>1, StoredVisits, OccupiedRow DEF Present
<1> DEFINE T == {b}
<1>7. \A c \in T :
        /\ bookings'[c].slot \in SlotKey
        /\ bookings'[c].duration = DefaultStep
        /\ Present(slots, bookings'[c].slot)
        /\ bookings'[c].status = "completed" => VisitEnd(bookings'[c]) <= now
        /\ IsLive(bookings'[c]) /\ VisitEnd(bookings'[c]) > now
             => Occupies(bookings'[c], slots'[bookings'[c].slot])
  BY <1>2, <1>4, StoredVisits
<1>8. /\ T \subseteq BookingIds
      /\ \A c \in BookingIds \ T : bookings'[c] = bookings[c]
      /\ \A c \in BookingIds \ T :
           Unfinished(c) => slots'[bookings[c].slot] = slots[bookings[c].slot]
      /\ \A s \in SlotKey : slots'[s].status \in BUSY_SLOT_STATUSES =>
           slots'[s] = slots[s] /\ \A c \in T : bookings[c].slot # s
  BY <1>2, <1>3, <1>5
<1> HIDE DEF T
<1> QED
  BY <1>1, <1>6, <1>7, <1>8, OwnedAfterCall

(* Finished visits are closed and their rows freed (_settle_user_past,     *)
(* settle_past_bookings).                                                  *)
LEMMA SettleOwned ==
  ASSUME ScheduleInv, NEW B, B \subseteq PastIds,
         Commit(FreeBlocks(B), Settle(B))
  PROVE  Owned'
<1>1. /\ B \subseteq BookingIds
      /\ \A b \in B : /\ bookings[b] # AbsentBooking
                      /\ IsLive(bookings[b])
                      /\ bookings[b].status # "cancelled"
                      /\ VisitEnd(bookings[b]) <= now
  BY LiveIsStored DEF PastIds, LiveIds, IsLive, LIVE_BOOKING_STATUSES
<1>2. /\ slots' = [s \in SlotKey |-> IF \E b \in B : bookings[b].slot = s
                                    THEN FreeSlot ELSE slots[s]]
      /\ UNCHANGED <<now, schedule>>
  BY <1>1, FreedRows DEF Commit
<1>3. /\ \A b \in B : /\ bookings'[b].status \in {"completed", "cancelled"}
                      /\ bookings'[b].slot = bookings[b].slot
                      /\ bookings'[b].duration = bookings[b].duration
                      /\ VisitEnd(bookings'[b]) = VisitEnd(bookings[b])
      /\ \A c \in BookingIds \ B : bookings'[c] = bookings[c]
  BY <1>1, StoredVisits DEF Commit, Settle, BookingRow, VisitEnd
<1>4. \A c \in BookingIds \ B :
        Unfinished(c) => slots'[bookings[c].slot] = slots[bookings[c].slot]
  BY <1>1, <1>2, SoleVisit, StoredVisits, LiveIsStored DEF Unfinished
<1>5. \A b \in B : ~IsLive(bookings'[b])
  BY <1>3 DEF IsLive, LIVE_BOOKING_STATUSES
<1>6. \A s \in SlotKey : slots'[s].status \in BUSY_SLOT_STATUSES =>
        slots'[s] = slots[s] /\ \A b \in B : bookings[b].slot # s
  BY <1>2, OccupiedRow DEF BUSY_SLOT_STATUSES
<1>7. \A s \in SlotKey : Present(slots', s) <=> Present(slots, s)
  BY <1>1, <1>2, StoredVisits, OccupiedRow DEF Present
<1>8. \A b \in B :
        /\ bookings'[b].slot \in SlotKey
        /\ bookings'[b].duration = DefaultStep
        /\ Present(slots, bookings'[b].slot)
        /\ bookings'[b].status = "completed" => VisitEnd(bookings'[b]) <= now
        /\ IsLive(bookings'[b]) /\ VisitEnd(bookings'[b]) > now
             => Occupies(bookings'[b], slots'[bookings'[b].slot])
  BY <1>1, <1>3, <1>5, StoredVisits
<1> QED
  <2>1. UNCHANGED <<now, schedule>> /\ B \subseteq BookingIds
    BY <1>1, <1>2
  <2>2. \A c \in BookingIds \ B : bookings'[c] = bookings[c]
    BY <1>3
  <2> QED
    BY <2>1, <2>2, <1>4, <1>6, <1>7, <1>8, OwnedAfterCall

(* attach_late_receipt leaves every row alone.                             *)
LEMMA AttachOwned ==
  ASSUME ScheduleInv, NEW b \in BookingIds, AttachLateReceipt(b)
  PROVE  Owned'
<1>1. bookings[b] # AbsentBooking /\ bookings[b].status = "cancelled"
  BY DEF AttachLateReceipt, AbsentBooking
<1>2. /\ bookings'[b].status = "cancelled"
      /\ bookings'[b].slot = bookings[b].slot
      /\ bookings'[b].duration = bookings[b].duration
      /\ \A c \in BookingIds \ {b} : bookings'[c] = bookings[c]
  BY <1>1, StoredVisits DEF AttachLateReceipt, Commit, BookingRow, ScheduleInv, TypeOK
<1>3. slots' = slots /\ UNCHANGED <<now, schedule>>
  BY DEF AttachLateReceipt, Commit
<1> DEFINE T == {b}
<1>4. \A c \in T :
        /\ bookings'[c].slot \in SlotKey
        /\ bookings'[c].duration = DefaultStep
        /\ Present(slots, bookings'[c].slot)
        /\ bookings'[c].status # "completed"
        /\ ~IsLive(bookings'[c])
  BY <1>1, <1>2, StoredVisits DEF IsLive, LIVE_BOOKING_STATUSES
<1>5. /\ T \subseteq BookingIds
      /\ \A c \in BookingIds \ T : bookings'[c] = bookings[c]
  BY <1>2
<1> HIDE DEF T
<1>6. \A c \in T : ~IsLive(bookings[c])
  BY <1>1 DEF T, IsLive, LIVE_BOOKING_STATUSES
<1> QED
  BY <1>3, <1>4, <1>5, <1>6, OwnedAfterCall

(* release_expired_holds frees lapsed rows with their bookings.            *)
LEMMA ReleaseOwned ==
  ASSUME ScheduleInv, ReleaseExpiredHolds
  PROVE  Owned'
<1> DEFINE T == {b \in BookingIds :
                   IsPending(bookings[b]) /\ bookings[b].slot \in Lapsed}
<1>1. /\ slots' = [s \in SlotKey |-> IF s \in Lapsed THEN FreeSlot ELSE slots[s]]
      /\ bookings' = WithStatus(bookings, T, "cancelled")
  BY DEF ReleaseExpiredHolds, Commit
<1>2. UNCHANGED <<now, schedule>>
  BY DEF ReleaseExpiredHolds, Commit
<1>3. \A b \in T : b \in BookingIds /\ bookings[b] # AbsentBooking
  BY DEF IsPending, AbsentBooking
<1>4. \A b \in T : /\ bookings'[b].status = "cancelled"
                   /\ bookings'[b].slot = bookings[b].slot
                   /\ bookings'[b].duration = bookings[b].duration
  <2> HIDE DEF T
  <2> QED
    BY <1>1, <1>3, StoredVisits DEF WithStatus, BookingRow
<1>5. T \subseteq BookingIds /\ \A c \in BookingIds \ T : bookings'[c] = bookings[c]
  <2>1. T \subseteq BookingIds
    OBVIOUS
  <2> HIDE DEF T
  <2> QED
    BY <1>1, <2>1 DEF WithStatus
<1>6. \A c \in BookingIds \ T :
        Unfinished(c) => slots'[bookings[c].slot] = slots[bookings[c].slot]
  <2> SUFFICES ASSUME NEW c \in BookingIds \ T, Unfinished(c)
               PROVE  slots'[bookings[c].slot] = slots[bookings[c].slot]
    OBVIOUS
  <2>1. Occupies(bookings[c], slots[bookings[c].slot])
    BY DEF ScheduleInv, VisitOwnsSlot
  <2>2. bookings[c].slot \in SlotKey
    BY StoredVisits, LiveIsStored DEF Unfinished
  <2>3. bookings[c].slot \notin Lapsed
    BY <2>1 DEF Occupies, Lapsed, HoldExpired
  <2> QED
    BY <1>1, <2>2, <2>3
<1>7. \A s \in SlotKey : slots'[s].status \in BUSY_SLOT_STATUSES =>
        slots'[s] = slots[s] /\ \A c \in T : bookings[c].slot # s
  BY <1>1, OccupiedRow DEF BUSY_SLOT_STATUSES
<1>8. \A s \in SlotKey : Present(slots', s) <=> Present(slots, s)
  BY <1>1, OccupiedRow DEF Present, Lapsed, HoldExpired
<1>9. \A b \in T :
        /\ bookings'[b].slot \in SlotKey
        /\ bookings'[b].duration = DefaultStep
        /\ Present(slots, bookings'[b].slot)
        /\ bookings'[b].status # "completed"
        /\ ~IsLive(bookings'[b])
  <2> HIDE DEF T
  <2> QED
    BY <1>3, <1>4, StoredVisits DEF IsLive, LIVE_BOOKING_STATUSES
<1> HIDE DEF T
<1> QED
  BY <1>2, <1>5, <1>6, <1>7, <1>8, <1>9, OwnedAfterCall

(* reschedule moves one live booking to one row; the unique index refuses  *)
(* a row that a live booking still claims.                                 *)
LEMMA RescheduleOwned ==
  ASSUME ScheduleInv, NEW b \in BookingIds, NEW s \in SlotKey, Reschedule(b, s)
  PROVE  Owned'
<1> DEFINE taken == IF IsPending(bookings[b])
                    THEN HeldSlot(bookings[b].user, now + HoldLength)
                    ELSE BookedSlot
<1>1. bookings[b] # AbsentBooking /\ IsLive(bookings[b]) /\ Present(slots, s)
  BY LiveIsStored DEF Reschedule
<1>2. ConsecutiveBlock(slots, s,
        SlotsNeeded(bookings[b].duration, StepForDay(s[1]))) = {s}
  <2>1. SlotsNeeded(DefaultStep, DefaultStep) = 1
    BY OneStepVisit, DataAssumption DEF DataAssumption
  <2> QED
    BY <1>1, <2>1, StoredVisits, OneSlotVisits, SlotKeyParts, OneSlotBlock
<1>3. FreeBlocks({b}) = [x \in SlotKey |-> IF x = bookings[b].slot
                                          THEN FreeSlot ELSE slots[x]]
  BY <1>1, FreedRows
<1>4. /\ slots' = [x \in SlotKey |-> IF x = s THEN taken
                                    ELSE IF x = bookings[b].slot THEN FreeSlot
                                    ELSE slots[x]]
      /\ bookings' = [bookings EXCEPT ![b].slot = s]
  BY <1>2, <1>3 DEF Reschedule, Commit
<1>5. UNCHANGED <<now, schedule>> /\ OneLiveBooking'
  BY CallApart DEF Reschedule, Commit
<1>6. /\ bookings'[b].slot = s
      /\ bookings'[b].status = bookings[b].status
      /\ bookings'[b].user = bookings[b].user
      /\ bookings'[b].duration = DefaultStep
      /\ \A c \in BookingIds \ {b} : bookings'[c] = bookings[c]
  BY <1>1, <1>4, StoredVisits DEF ScheduleInv, TypeOK, BookingRow
<1>7. IsLive(bookings'[b]) /\ Occupies(bookings'[b], taken)
  BY <1>1, <1>6, OccupiedRow DEF IsLive, IsPending, LIVE_BOOKING_STATUSES
<1>8. taken.status \in BUSY_SLOT_STATUSES
  BY OccupiedRow, <1>7
<1> HIDE DEF taken
<1>9. \A c \in BookingIds \ {b} :
        Unfinished(c) => slots'[bookings[c].slot] = slots[bookings[c].slot]
  <2> SUFFICES ASSUME NEW c \in BookingIds \ {b}, Unfinished(c)
               PROVE  slots'[bookings[c].slot] = slots[bookings[c].slot]
    OBVIOUS
  <2>1. bookings[c].slot # bookings[b].slot
    BY <1>1, SoleVisit DEF IsLive, LIVE_BOOKING_STATUSES
  <2>2. bookings[c].slot # s
    BY <1>5, <1>6, <1>7 DEF OneLiveBooking, LiveSlotsApart, LiveUsersApart, Unfinished
  <2>3. bookings[c].slot \in SlotKey
    BY StoredVisits, LiveIsStored DEF Unfinished
  <2> QED
    BY <1>4, <2>1, <2>2, <2>3
<1>10. \A x \in SlotKey : slots'[x].status \in BUSY_SLOT_STATUSES =>
         \/ slots'[x] = slots[x] /\ bookings[b].slot # x
         \/ x = s
  BY <1>4, OccupiedRow DEF BUSY_SLOT_STATUSES
<1>11. \A x \in SlotKey : Present(slots', x) <=> Present(slots, x)
  BY <1>1, <1>4, <1>8, StoredVisits, OccupiedRow DEF Present, BUSY_SLOT_STATUSES
<1> DEFINE T == {b}
<1>12. \A c \in T :
         /\ bookings'[c].slot \in SlotKey
         /\ bookings'[c].duration = DefaultStep
         /\ Present(slots, bookings'[c].slot)
         /\ bookings'[c].status # "completed"
         /\ Occupies(bookings'[c], slots'[bookings'[c].slot])
  BY <1>1, <1>4, <1>6, <1>7, LiveIsStored
<1>13. /\ T \subseteq BookingIds
       /\ \A c \in BookingIds \ T : bookings'[c] = bookings[c]
       /\ \A c \in BookingIds \ T :
            Unfinished(c) => slots'[bookings[c].slot] = slots[bookings[c].slot]
       /\ \A x \in SlotKey : slots'[x].status \in BUSY_SLOT_STATUSES =>
            \/ slots'[x] = slots[x] /\ \A c \in T : bookings[c].slot # x
            \/ \E c \in T : /\ Occupies(bookings'[c], slots'[x])
                            /\ bookings'[c].slot = x
  BY <1>4, <1>6, <1>7, <1>9, <1>10
<1> HIDE DEF T
<1> QED
  BY <1>5, <1>11, <1>12, <1>13, OwnedAfterCall

(* hold_slot closes the client's finished visits, cancels the bookings     *)
(* behind a lapsed hold and writes a new booking with its row.             *)
LEMMA HoldOwned ==
  ASSUME ScheduleInv, NEW u \in Users, NEW s \in SlotKey, NEW b \in BookingIds,
         HoldSlot(u, s, b)
  PROVE  Owned'
<1> DEFINE past == LiveOf(u) \cap PastIds
           settled == Settle(past)
           stale == {c \in BookingIds : IsPending(settled[c]) /\ settled[c].slot = s}
           T == past \cup stale \cup {b}
           new == PendingBooking(u, s, DefaultStep)
           held == HeldSlot(u, now + HoldLength)
<1>1. /\ bookings[b] = AbsentBooking
      /\ Present(slots, s)
      /\ LiveOf(u) \subseteq PastIds
      /\ UNCHANGED <<now, schedule>>
  BY DEF HoldSlot, MayHold, Commit
<1>2. \A c \in past : /\ c \in BookingIds
                      /\ bookings[c] # AbsentBooking
                      /\ bookings[c].status # "cancelled"
                      /\ VisitEnd(bookings[c]) <= now
  BY LiveIsStored DEF LiveOf, PastIds, LiveIds, IsLive, LIVE_BOOKING_STATUSES
<1>3. FreeBlocks(past) = [x \in SlotKey |-> IF \E c \in past : bookings[c].slot = x
                                           THEN FreeSlot ELSE slots[x]]
  BY <1>2, FreedRows
<1>4. /\ StepForDay(s[1]) = DefaultStep
      /\ SlotsNeeded(DefaultStep, DefaultStep) = 1
      /\ ConsecutiveBlock(slots, s, 1) = {s}
  BY <1>1, OneStepVisit, OneSlotVisits, SlotKeyParts, OneSlotBlock, DataAssumption
     DEF DataAssumption
<1>5. /\ slots' = [x \in SlotKey |-> IF x = s THEN held ELSE FreeBlocks(past)[x]]
      /\ bookings' = [WithStatus(settled, stale, "cancelled") EXCEPT ![b] = new]
      /\ IsBookableSlot(FreeBlocks(past)[s], s, now)
  <2>1. stale = {c \in BookingIds : IsPending(settled[c]) /\ settled[c].slot \in {s}}
    OBVIOUS
  <2> HIDE DEF settled
  <2> QED
    BY <1>4, <2>1 DEF HoldSlot, MayHold, HoldBlock, PastOf, BookingsWithHold,
       Commit, settled
<1>6. VisitStart(s) > now
  BY <1>5 DEF IsBookableSlot
<1>7. \A c \in past : bookings[c].slot # s
  <2>1. \A x \in SlotKey : VisitStart(x) \in Nat
    BY VisitStartType
  <2>2. DefaultStep \in Nat \ {0} /\ now \in Nat
    BY DataAssumption DEF DataAssumption, ScheduleInv, TypeOK
  <2> QED
    BY <1>2, <1>6, <2>1, <2>2, StoredVisits
<1>8. IsEffectivelyFree(slots[s], now)
  BY <1>3, <1>5, <1>7 DEF IsBookableSlot
<1>9. b \notin past /\ b \notin stale
  BY <1>1, <1>2 DEF Settle, IsPending, AbsentBooking
<1>10. \A c \in past : /\ bookings'[c].status \in {"completed", "cancelled"}
                       /\ bookings'[c].slot = bookings[c].slot
                       /\ bookings'[c].duration = bookings[c].duration
                       /\ c \notin stale
  <2> SUFFICES ASSUME NEW c \in past
               PROVE  /\ bookings'[c].status \in {"completed", "cancelled"}
                      /\ bookings'[c].slot = bookings[c].slot
                      /\ bookings'[c].duration = bookings[c].duration
                      /\ c \notin stale
    OBVIOUS
  <2>1. /\ settled[c].status \in {"completed", "cancelled"}
        /\ settled[c].slot = bookings[c].slot
        /\ settled[c].duration = bookings[c].duration
    BY <1>2, StoredVisits DEF Settle, BookingRow
  <2>2. c \notin stale
    BY <2>1 DEF IsPending
  <2>3. c \in BookingIds /\ c # b
    BY <1>2, <1>9
  <2>4. bookings'[c] = settled[c]
    <3> HIDE DEF settled, stale, new
    <3> QED
      BY <1>5, <2>2, <2>3 DEF WithStatus
  <2> QED
    BY <2>1, <2>2, <2>4
<1>11. \A c \in BookingIds \ past : settled[c] = bookings[c]
  BY DEF Settle
<1>12. \A c \in stale : /\ c \in BookingIds /\ c \notin past
                        /\ bookings[c].status = "pending_payment"
                        /\ bookings[c].slot = s
                        /\ bookings[c] # AbsentBooking
  <2> HIDE DEF past, settled
  <2> QED
    BY <1>10, <1>11 DEF IsPending, AbsentBooking
<1>13. \A c \in stale : /\ bookings'[c].status = "cancelled"
                        /\ bookings'[c].slot = s
                        /\ bookings'[c].duration = bookings[c].duration
  <2> SUFFICES ASSUME NEW c \in stale
               PROVE  /\ bookings'[c].status = "cancelled"
                      /\ bookings'[c].slot = s
                      /\ bookings'[c].duration = bookings[c].duration
    OBVIOUS
  <2>1. settled[c] = bookings[c] /\ bookings[c] \in BookingRow /\ c # b
    BY <1>9, <1>11, <1>12, StoredVisits
  <2>2. bookings'[c] = [bookings[c] EXCEPT !.status = "cancelled"]
    <3> HIDE DEF settled, stale, new
    <3> QED
      BY <1>5, <1>12, <2>1 DEF WithStatus
  <2> QED
    BY <1>12, <2>1, <2>2 DEF BookingRow
<1>14. bookings'[b] = new
  <2> HIDE DEF settled, stale, new
  <2> QED
    BY <1>5 DEF WithStatus
<1>15. T \subseteq BookingIds
  BY <1>2
<1>16. \A c \in BookingIds \ T : bookings'[c] = bookings[c]
  <2> SUFFICES ASSUME NEW c \in BookingIds, c \notin past, c \notin stale, c # b
               PROVE  bookings'[c] = bookings[c]
    OBVIOUS
  <2> HIDE DEF past, settled, stale, new
  <2> QED
    BY <1>5, <1>11 DEF WithStatus
<1>17. /\ new.slot = s /\ new.duration = DefaultStep /\ IsLive(new)
       /\ new.status # "completed" /\ Occupies(new, held)
  BY OccupiedRow DEF PendingBooking, IsLive, IsPending, LIVE_BOOKING_STATUSES
<1> HIDE DEF settled, stale, new
<1>18. slots'[s] = held /\ held.status = "held"
  BY <1>5, OccupiedRow
<1> HIDE DEF held
<1>19. \A x \in SlotKey : x # s =>
         slots'[x] = IF \E c \in past : bookings[c].slot = x
                     THEN FreeSlot ELSE slots[x]
  BY <1>3, <1>5
<1>20. \A x \in SlotKey : Present(slots', x) <=> Present(slots, x)
  BY <1>1, <1>2, <1>18, <1>19, StoredVisits, OccupiedRow DEF Present
<1>21. \A c \in BookingIds \ T :
         Unfinished(c) => slots'[bookings[c].slot] = slots[bookings[c].slot]
  <2> SUFFICES ASSUME NEW c \in BookingIds, c \notin past, c \notin stale,
                      Unfinished(c)
               PROVE  slots'[bookings[c].slot] = slots[bookings[c].slot]
    OBVIOUS
  <2>1. bookings[c].slot \in SlotKey
    BY StoredVisits, LiveIsStored DEF Unfinished
  <2>2. \A d \in past : bookings[d].slot # bookings[c].slot
    BY <1>2, SoleVisit
  <2>3. Occupies(bookings[c], slots[bookings[c].slot])
    BY DEF ScheduleInv, VisitOwnsSlot
  <2>4. CASE bookings[c].slot = s
    <3>1. ~IsPending(bookings[c])
      BY <2>4, <1>11 DEF stale
    <3> QED
      BY <2>3, <2>4, <3>1, <1>8 DEF Occupies, IsEffectivelyFree
  <2> QED
    BY <2>1, <2>2, <2>4, <1>19
<1>22. \A x \in SlotKey : slots'[x].status \in BUSY_SLOT_STATUSES =>
         \/ /\ slots'[x] = slots[x]
            /\ \A c \in T : IsLive(bookings[c]) => bookings[c].slot # x
         \/ \E c \in T : /\ Occupies(bookings'[c], slots'[x])
                         /\ bookings'[c].slot = x
  <2> SUFFICES ASSUME NEW x \in SlotKey, x # s,
                      slots'[x].status \in BUSY_SLOT_STATUSES
               PROVE  /\ slots'[x] = slots[x]
                      /\ \A c \in T : IsLive(bookings[c]) => bookings[c].slot # x
    BY <1>14, <1>17, <1>18
  <2>1. \A c \in past : bookings[c].slot # x
    BY <1>19, OccupiedRow DEF BUSY_SLOT_STATUSES
  <2>2. \A c \in stale : bookings[c].slot # x
    BY <1>12
  <2>3. ~IsLive(bookings[b])
    BY <1>1, LiveIsStored
  <2> QED
    BY <1>19, <2>1, <2>2, <2>3
<1>23. ASSUME NEW c \in T
       PROVE  /\ bookings'[c].slot \in SlotKey
              /\ bookings'[c].duration = DefaultStep
              /\ Present(slots, bookings'[c].slot)
              /\ bookings'[c].status = "completed" => VisitEnd(bookings'[c]) <= now
              /\ IsLive(bookings'[c]) /\ VisitEnd(bookings'[c]) > now
                   => Occupies(bookings'[c], slots'[bookings'[c].slot])
  <2>1. CASE c \in past
    BY <2>1, <1>2, <1>10, StoredVisits DEF IsLive, LIVE_BOOKING_STATUSES, VisitEnd
  <2>2. CASE c \in stale
    BY <2>2, <1>1, <1>12, <1>13, StoredVisits DEF IsLive, LIVE_BOOKING_STATUSES
  <2>3. CASE c = b
    BY <2>3, <1>1, <1>14, <1>17, <1>18
  <2> QED
    BY <2>1, <2>2, <2>3
<1> HIDE DEF past, T
<1> QED
  BY <1>1, <1>15, <1>16, <1>20, <1>21, <1>22, <1>23, OwnedAfterCall

(* A rebuilt grid spares busy rows and rows with bookings behind them.     *)
LEMMA RebuiltGrid ==
  ASSUME ScheduleInv, NEW d \in days, NEW times,
         slots' = RebuildFreeSlots(d, times), UNCHANGED <<now, days, bookings>>,
         UniformStep'
  PROVE  Owned'
<1> USE DEF ScheduleInv
<1>1. \A s \in SlotKey :
        slots[s].status \in BUSY_SLOT_STATUSES => slots'[s] = slots[s]
  BY DEF RebuildFreeSlots
<1>2. \A s \in SlotKey : s[1] # d => slots'[s] = slots[s]
  BY DEF RebuildFreeSlots
<1>3. \A s \in SlotKey :
        [slots[s] EXCEPT !.status = "blocked"].status = "blocked"
  BY DEF TypeOK, SlotRow
<1>4. ASSUME NEW s \in SlotKey, slots[s].status \notin BUSY_SLOT_STATUSES
      PROVE  slots'[s].status \notin BUSY_SLOT_STATUSES
  <2>1. slots'[s] \in {slots[s], [slots[s] EXCEPT !.status = "blocked"],
                       FreeSlot, AbsentSlot}
    BY DEF RebuildFreeSlots
  <2> QED
    BY <2>1, <1>3, <1>4, OccupiedRow DEF BUSY_SLOT_STATUSES
<1>5. ASSUME NEW s \in SlotKey, Present(slots, s), Referenced(s)
      PROVE  Present(slots', s)
  <2>1. slots'[s] \in {slots[s], [slots[s] EXCEPT !.status = "blocked"]}
    BY <1>5 DEF RebuildFreeSlots
  <2> QED
    BY <2>1, <1>3, <1>5 DEF Present
<1>6. SlotOfOpenDay'
  BY <1>2 DEF SlotOfOpenDay, Present
<1> QED
  BY <1>1, <1>4, <1>5, <1>6, OwnedAfterGrid

(* The calls that change hours, open a day or close a slot.                *)
LEMMA GridOwned ==
  ASSUME ScheduleInv
  PROVE  /\ \A h \in Hours : SetWorkSettings(h) => Owned'
         /\ \A d \in Days : AddDayFromDefaults(d) => Owned'
         /\ \A d \in Days, h \in Hours : SetDayHours(d, h) => Owned'
         /\ \A d \in Days : ClearDayOverride(d) => Owned'
         /\ \A s \in SlotKey : ToggleSlotBlock(s) => Owned'
<1> USE DEF ScheduleInv
<1>1. ASSUME NEW h \in Hours, SetWorkSettings(h)
      PROVE  Owned'
  <2>1. UniformStep' /\ SlotOfOpenDay'
    BY <1>1 DEF SetWorkSettings, UniformStep, SlotOfOpenDay
  <2> QED
    BY <1>1, <2>1, OwnedAfterGrid DEF SetWorkSettings
<1>2. ASSUME NEW d \in Days, AddDayFromDefaults(d)
      PROVE  Owned'
  <2>1. UniformStep'
    BY <1>2 DEF AddDayFromDefaults, UniformStep
  <2>2. \A s \in SlotKey : s[1] # d => slots'[s] = slots[s]
    BY <1>2 DEF AddDayFromDefaults
  <2>3. \A s \in SlotKey : s[1] = d => slots[s].status = "absent"
    BY <1>2 DEF AddDayFromDefaults, SlotOfOpenDay, Present
  <2>4. \A s \in SlotKey : slots'[s] \in {slots[s], FreeSlot}
    BY <1>2 DEF AddDayFromDefaults
  <2>5. SlotOfOpenDay'
    BY <1>2, <2>2 DEF AddDayFromDefaults, SlotOfOpenDay, Present
  <2>6. \A s \in SlotKey :
          \/ slots[s].status \in BUSY_SLOT_STATUSES
          \/ slots'[s].status \in BUSY_SLOT_STATUSES
          => slots'[s] = slots[s]
    BY <2>2, <2>3, <2>4, OccupiedRow DEF BUSY_SLOT_STATUSES
  <2>7. \A s \in SlotKey : Present(slots, s) => Present(slots', s)
    BY <2>4, OccupiedRow DEF Present
  <2> QED
    BY <1>2, <2>1, <2>5, <2>6, <2>7, OwnedAfterGrid DEF AddDayFromDefaults
<1>3. ASSUME NEW d \in Days, NEW h \in Hours, SetDayHours(d, h)
      PROVE  Owned'
  <2>1. UniformStep'
    BY <1>3 DEF SetDayHours, UniformStep, TypeOK
  <2> QED
    BY <1>3, <2>1, RebuiltGrid DEF SetDayHours
<1>4. ASSUME NEW d \in Days, ClearDayOverride(d)
      PROVE  Owned'
  <2>1. UniformStep'
    BY <1>4 DEF ClearDayOverride, UniformStep, TypeOK
  <2> QED
    BY <1>4, <2>1, RebuiltGrid DEF ClearDayOverride
<1>5. ASSUME NEW s \in SlotKey, ToggleSlotBlock(s)
      PROVE  Owned'
  <2>1. UniformStep'
    BY <1>5 DEF ToggleSlotBlock, UniformStep, schedule
  <2>2. /\ slots[s].status \in {"free", "blocked"}
        /\ slots'[s].status \in {"free", "blocked"}
        /\ \A x \in SlotKey : x # s => slots'[x] = slots[x]
    BY <1>5 DEF ToggleSlotBlock, TypeOK, SlotRow
  <2>3. SlotOfOpenDay'
    BY <1>5, <2>2 DEF ToggleSlotBlock, SlotOfOpenDay, Present, schedule
  <2>4. \A x \in SlotKey :
          /\ \/ slots[x].status \in BUSY_SLOT_STATUSES
             \/ slots'[x].status \in BUSY_SLOT_STATUSES
             => slots'[x] = slots[x]
          /\ Present(slots, x) => Present(slots', x)
    BY <2>2 DEF BUSY_SLOT_STATUSES, Present
  <2>5. UNCHANGED <<now, bookings>>
    BY <1>5 DEF ToggleSlotBlock
  <2> QED
    BY <2>1, <2>3, <2>4, <2>5, OwnedAfterGrid
<1> QED
  BY <1>1, <1>2, <1>3, <1>4, <1>5

(* Days go with their rows and bookings, and none of those rows is busy.   *)
LEMMA DropOwned ==
  ASSUME ScheduleInv, NEW D, DropDays(D),
         \A s \in SlotKey : s[1] \in D => slots[s].status \notin BUSY_SLOT_STATUSES
  PROVE  Owned'
<1> USE DEF ScheduleInv
<1>1. \A b \in BookingIds :
        \/ bookings'[b] = AbsentBooking
        \/ /\ bookings'[b] = bookings[b]
           /\ bookings[b] # AbsentBooking => bookings[b].slot[1] \notin D
  BY DEF DropDays
<1>2. \A s \in SlotKey : slots'[s] = IF s[1] \in D THEN AbsentSlot ELSE slots[s]
  BY DEF DropDays
<1>3. UniformStep'
  BY <1>1 DEF DropDays, UniformStep
<1>4. SlotOfOpenDay'
  BY <1>2, OccupiedRow DEF DropDays, SlotOfOpenDay, Present
<1>5. BookingKeepsRow'
  BY <1>1, <1>2, StoredVisits DEF BookingKeepsRow, Present
<1>6. CompletedIsOver'
  BY <1>1 DEF CompletedIsOver, DropDays, AbsentBooking
<1>7. BusySlotOwned'
  <2> SUFFICES ASSUME NEW s \in SlotKey, slots'[s].status \in BUSY_SLOT_STATUSES
               PROVE  \E c \in BookingIds : /\ Occupies(bookings'[c], slots'[s])
                                            /\ bookings'[c].slot = s
    BY DEF BusySlotOwned
  <2>1. slots'[s] = slots[s] /\ s[1] \notin D
    BY <1>2, OccupiedRow DEF BUSY_SLOT_STATUSES
  <2>2. PICK c \in BookingIds : Occupies(bookings[c], slots[s]) /\ bookings[c].slot = s
    BY <2>1 DEF BusySlotOwned
  <2>3. bookings'[c] = bookings[c]
    BY <2>1, <2>2, OccupiedRow, LiveIsStored DEF DropDays
  <2> QED
    BY <2>1, <2>2, <2>3
<1>8. VisitOwnsSlot'
  <2> SUFFICES ASSUME NEW c \in BookingIds, Unfinished(c)'
               PROVE  Occupies(bookings'[c], slots'[bookings'[c].slot])
    BY DEF VisitOwnsSlot
  <2>1. bookings'[c] # AbsentBooking
    BY LiveIsStored DEF Unfinished
  <2>2. bookings'[c] = bookings[c] /\ bookings[c].slot[1] \notin D
    BY <1>1, <2>1
  <2>3. Unfinished(c)
    BY <2>2 DEF Unfinished, DropDays
  <2>4. bookings[c].slot \in SlotKey
    BY <2>1, <2>2, StoredVisits
  <2> QED
    BY <1>2, <2>2, <2>3, <2>4 DEF VisitOwnsSlot
<1> QED
  BY <1>3, <1>4, <1>5, <1>6, <1>7, <1>8 DEF Owned

(* Time only lets visits end.                                              *)
LEMMA TickOwned ==
  ASSUME ScheduleInv, Tick
  PROVE  Owned'
<1> USE DEF ScheduleInv, Tick, schedule
<1>1. UniformStep' /\ SlotOfOpenDay' /\ BookingKeepsRow' /\ BusySlotOwned'
  BY DEF UniformStep, SlotOfOpenDay, BookingKeepsRow, BusySlotOwned
<1>2. ASSUME NEW b \in BookingIds, bookings[b] # AbsentBooking
      PROVE  VisitEnd(bookings[b]) \in Int
  BY <1>2, StoredVisits, VisitStartType, DataAssumption DEF DataAssumption
<1>3. CompletedIsOver'
  BY <1>2 DEF CompletedIsOver, TypeOK, AbsentBooking
<1>4. VisitOwnsSlot'
  BY <1>2, LiveIsStored DEF VisitOwnsSlot, Unfinished, TypeOK
<1> QED
  BY <1>1, <1>3, <1>4 DEF Owned

(* Every step of the schedule keeps the invariant.                         *)
LEMMA ScheduleStep ==
  ASSUME ScheduleInv, [Next]_vars
  PROVE  ScheduleInv'
<1>1. TypeOK' /\ OneLiveBooking'
  BY TypeStep, OneLiveStep DEF ScheduleInv
<1> SUFFICES Owned'
  BY <1>1 DEF ScheduleInv, Owned
<1>2. ASSUME NEW b \in BookingIds, CancelBooking(b)
      PROVE  Owned'
  BY <1>2, CancelOwned DEF CancelBooking
<1>3. CASE ClientStep
  <2>1. ASSUME NEW u \in Users, OpenBookingForm(u)
        PROVE  Owned'
    BY <2>1, SettleOwned DEF OpenBookingForm
  <2>2. ASSUME NEW u \in Users, NEW s \in SlotKey, NEW b \in BookingIds,
               HoldSlot(u, s, b)
        PROVE  Owned'
    BY <2>2, HoldOwned
  <2>3. ASSUME NEW b \in BookingIds, ConfirmWithReceipt(b)
        PROVE  Owned'
    BY <2>3, ConfirmOwned
  <2>4. ASSUME NEW b \in BookingIds, ReceiptTooLate(b)
        PROVE  Owned'
    BY <2>4, CancelOwned DEF ReceiptTooLate, IsPending, AbsentBooking
  <2>5. ASSUME NEW b \in BookingIds, AttachLateReceipt(b)
        PROVE  Owned'
    BY <2>5, AttachOwned
  <2>6. ASSUME NEW b \in BookingIds, CancelByClient(b)
        PROVE  Owned'
    BY <2>6, <1>2 DEF CancelByClient
  <2> QED
    BY <1>3, <2>1, <2>2, <2>3, <2>4, <2>5, <2>6 DEF ClientStep
<1>4. CASE MasterStep
  <2>1. ASSUME NEW d \in Days, DeleteDay(d)
        PROVE  Owned'
    BY <2>1, DropOwned DEF DeleteDay
  <2>2. ASSUME NEW b \in BookingIds, NEW s \in SlotKey, Reschedule(b, s)
        PROVE  Owned'
    BY <2>2, RescheduleOwned
  <2> QED
    BY <1>2, <1>4, <2>1, <2>2, GridOwned DEF MasterStep
<1>5. CASE SettlePastBookings
  <2> DEFINE due == {b \in PastIds : bookings[b].slot[1] <= Today(now)}
  <2>1. due \subseteq PastIds /\ Commit(FreeBlocks(due), Settle(due))
    BY <1>5 DEF SettlePastBookings
  <2> HIDE DEF due
  <2> QED
    BY <2>1, SettleOwned
<1>6. CASE PurgePastDays
  <2> DEFINE D == {d \in days : /\ d < Today(now)
                                /\ \A s \in SlotKey : s[1] = d => ~Referenced(s)}
  <2>1. DropDays(D)
    BY <1>6 DEF PurgePastDays
  <2>2. \A s \in SlotKey : slots[s].status \in BUSY_SLOT_STATUSES => Referenced(s)
    BY OccupiedRow, LiveIsStored DEF ScheduleInv, BusySlotOwned, Referenced
  <2>3. \A s \in SlotKey : s[1] \in D => slots[s].status \notin BUSY_SLOT_STATUSES
    BY <2>2
  <2> HIDE DEF D
  <2> QED
    BY <2>1, <2>3, DropOwned
<1>7. CASE UNCHANGED vars
  BY <1>7 DEF vars, ScheduleInv, Owned, UniformStep, SlotOfOpenDay,
     BookingKeepsRow, CompletedIsOver, BusySlotOwned, VisitOwnsSlot, Unfinished
<1> QED
  BY <1>3, <1>4, <1>5, <1>6, <1>7, ReleaseOwned, TickOwned
     DEF Next, SchedulerStep

(* The invariant holds of an empty database.                               *)
LEMMA ScheduleInit ==
  ASSUME IndexesBuilt, InitialSteps = {DefaultStep}, Init
  PROVE  ScheduleInv
<1>1. TypeOK /\ UniformStep
  BY TypeInit, DataAssumption DEF Init, UniformStep, DataAssumption
<1>2. /\ \A b \in BookingIds : ~IsLive(bookings[b])
      /\ \A b \in BookingIds : bookings[b].status # "completed"
  BY DEF Init, IsLive, LIVE_BOOKING_STATUSES, AbsentBooking
<1>3. OneLiveBooking /\ VisitOwnsSlot /\ CompletedIsOver
  BY <1>2 DEF OneLiveBooking, LiveSlotsApart, LiveUsersApart, VisitOwnsSlot, Unfinished,
     CompletedIsOver
<1>4. BookingKeepsRow /\ SlotOfOpenDay /\ BusySlotOwned
  BY OccupiedRow DEF Init, BookingKeepsRow, SlotOfOpenDay, BusySlotOwned, Present,
     BUSY_SLOT_STATUSES
<1> QED
  BY <1>1, <1>3, <1>4 DEF ScheduleInv

(* ScheduleInv is an invariant as long as the settings row starts with the *)
(* default step, whatever the clients, the days, the hours and the length  *)
(* of a day, a hold and a step are.                                        *)
THEOREM ScheduleInvariant ==
  ASSUME IndexesBuilt, InitialSteps = {DefaultStep}
  PROVE  Spec => []ScheduleInv
<1>1. Init => ScheduleInv
  BY ScheduleInit
<1>2. ScheduleInv /\ [Next]_vars => ScheduleInv'
  BY ScheduleStep
<1> QED
  BY <1>1, <1>2, PTL DEF Spec

(* A visit that is not over occupies its slot row: nothing the master,     *)
(* another client or a job does gives the row away.                        *)
THEOREM VisitsOwnSlots ==
  ASSUME IndexesBuilt, InitialSteps = {DefaultStep}
  PROVE  Spec => []VisitOwnsSlot
<1>1. ScheduleInv => VisitOwnsSlot
  BY DEF ScheduleInv
<1> QED
  BY <1>1, ScheduleInvariant, PTL

(* A busy row is in the block of the booking that owns it.                 *)
LEMMA BusyRowsHaveBookings ==
  ASSUME ScheduleInv
  PROVE  BusySlotHasBooking
<1> SUFFICES ASSUME NEW s \in SlotKey, slots[s].status \in BUSY_SLOT_STATUSES
             PROVE  \E b \in BookingIds : /\ Occupies(bookings[b], slots[s])
                                          /\ s \in BlockSlots(bookings[b])
  BY DEF BusySlotHasBooking
<1>1. PICK b \in BookingIds : Occupies(bookings[b], slots[s]) /\ bookings[b].slot = s
  BY DEF ScheduleInv, BusySlotOwned
<1>2. BlockSlots(bookings[b]) = {s}
  BY <1>1, OccupiedRow, LiveIsStored, OneSlotVisits
<1> QED
  BY <1>1, <1>2

(* A held or booked row always has the live booking that will free it.     *)
THEOREM NoSlotLeaks ==
  ASSUME IndexesBuilt, InitialSteps = {DefaultStep}
  PROVE  Spec => []BusySlotHasBooking
<1>1. ScheduleInv => BusySlotHasBooking
  BY BusyRowsHaveBookings
<1> QED
  BY <1>1, ScheduleInvariant, PTL

-----------------------------------------------------------------------------
(***************************************************************************)
(* Steps.                                                                  *)
(***************************************************************************)

(* The prepayment of b is awaited, and its hold has lapsed.                *)
HoldIsOver(b) ==
  /\ IsPending(bookings[b])
  /\ ~(slots[bookings[b].slot].held_until >= now)

(* What one step may do to a visit that is not over.                       *)
Spared(b) ==
  \/ bookings'[b].status = bookings[b].status
  \/ bookings'[b].status = "active"
  \/ CancelBooking(b)
  \/ HoldIsOver(b)

(* The bookings a hold leaves live are those it did not touch, and none of *)
(* them is of its client or its slot: the row was bookable, so whoever had *)
(* it lost it, and the client's other bookings are over (hold_slot).       *)
LEMMA OthersOfHold ==
  ASSUME ScheduleInv, NEW u \in Users, NEW s \in SlotKey, NEW b \in BookingIds,
         MayHold(u, s, b)
  PROVE  /\ BookingsWithHold(u, s, b)[b] = PendingBooking(u, s, DefaultStep)
         /\ \A c \in BookingIds \ {b} :
              IsLive(BookingsWithHold(u, s, b)[c]) =>
                /\ BookingsWithHold(u, s, b)[c] = bookings[c]
                /\ bookings[c].slot # s /\ bookings[c].user # u
<1> DEFINE past == LiveOf(u) \cap PastIds
           settled == Settle(past)
           stale == {c \in BookingIds : IsPending(settled[c]) /\ settled[c].slot = s}
           new == PendingBooking(u, s, DefaultStep)
<1>1. /\ bookings[b] = AbsentBooking
      /\ Present(slots, s)
      /\ LiveOf(u) \subseteq PastIds
  BY DEF MayHold
<1>2. \A c \in past : /\ c \in BookingIds
                      /\ bookings[c] # AbsentBooking
                      /\ IsLive(bookings[c])
                      /\ VisitEnd(bookings[c]) <= now
  BY LiveIsStored DEF LiveOf, PastIds, LiveIds
<1>3. FreeBlocks(past) = [x \in SlotKey |-> IF \E c \in past : bookings[c].slot = x
                                           THEN FreeSlot ELSE slots[x]]
  BY <1>2, FreedRows
<1>4. /\ StepForDay(s[1]) = DefaultStep
      /\ SlotsNeeded(DefaultStep, DefaultStep) = 1
      /\ ConsecutiveBlock(slots, s, 1) = {s}
  BY <1>1, OneStepVisit, OneSlotVisits, SlotKeyParts, OneSlotBlock, DataAssumption
     DEF DataAssumption
<1>5. /\ BookingsWithHold(u, s, b)
           = [WithStatus(settled, stale, "cancelled") EXCEPT ![b] = new]
      /\ IsBookableSlot(FreeBlocks(past)[s], s, now)
  <2>1. stale = {c \in BookingIds : IsPending(settled[c]) /\ settled[c].slot \in {s}}
    OBVIOUS
  <2> HIDE DEF settled
  <2> QED
    BY <1>4, <2>1 DEF MayHold, HoldBlock, PastOf, BookingsWithHold, settled
<1>6. /\ VisitStart(s) > now /\ VisitStart(s) \in Nat /\ now \in Nat
      /\ DefaultStep \in Nat \ {0}
  BY <1>5, VisitStartType, DataAssumption
     DEF IsBookableSlot, DataAssumption, ScheduleInv, TypeOK
<1>7. \A c \in past : bookings[c].slot # s
  BY <1>2, <1>6, StoredVisits
<1>8. IsEffectivelyFree(slots[s], now)
  BY <1>3, <1>5, <1>7 DEF IsBookableSlot
<1>9. ASSUME NEW c \in BookingIds \ {b}, IsLive(BookingsWithHold(u, s, b)[c])
      PROVE  /\ BookingsWithHold(u, s, b)[c] = bookings[c]
             /\ bookings[c].slot # s /\ bookings[c].user # u
  <2>1. c \notin stale
    <3>1. SUFFICES ASSUME c \in stale PROVE FALSE
      OBVIOUS
    <3>2. settled[c] \in BookingRow
      <4>1. settled \in [BookingIds -> BookingOrAbsent]
        BY <1>2, SettleType DEF ScheduleInv
      <4>2. settled[c] # AbsentBooking
        BY <3>1 DEF IsPending, AbsentBooking
      <4> HIDE DEF settled
      <4> QED
        BY <4>1, <4>2 DEF BookingOrAbsent
    <3>3. BookingsWithHold(u, s, b)[c] = [settled[c] EXCEPT !.status = "cancelled"]
      <4> HIDE DEF settled, stale, new
      <4> QED
        BY <1>5, <1>9, <3>1 DEF WithStatus
    <3>4. BookingsWithHold(u, s, b)[c].status = "cancelled"
      <4> HIDE DEF settled
      <4> QED
        BY <3>2, <3>3 DEF BookingRow
    <3> QED
      BY <1>9, <3>4 DEF IsLive, LIVE_BOOKING_STATUSES
  <2>2. BookingsWithHold(u, s, b)[c] = settled[c]
    <3> HIDE DEF settled, stale, new
    <3> QED
      BY <1>5, <1>9, <2>1 DEF WithStatus
  <2>3. c \notin past
    <3>1. SUFFICES ASSUME c \in past PROVE FALSE
      OBVIOUS
    <3>2. settled[c].status \in {"completed", "cancelled"}
      BY <1>2, <3>1, StoredVisits DEF Settle, BookingRow
    <3> QED
      BY <1>9, <2>2, <3>2 DEF IsLive, LIVE_BOOKING_STATUSES
  <2>4. settled[c] = bookings[c] /\ IsLive(bookings[c])
    <3>1. settled[c] = bookings[c]
      BY <2>3 DEF Settle
    <3> QED
      BY <1>9, <2>2, <3>1
  <2>5. bookings[c].user # u
    BY <1>1, <2>3, <2>4 DEF LiveOf, LiveIds
  <2>6. bookings[c].slot # s
    <3>1. SUFFICES ASSUME bookings[c].slot = s PROVE FALSE
      OBVIOUS
    <3>2. ~IsPending(bookings[c])
      BY <2>1, <2>4, <3>1
    <3>3. bookings[c].status = "active"
      BY <2>4, <3>2 DEF IsLive, IsPending, LIVE_BOOKING_STATUSES
    <3>4. Unfinished(c)
      BY <1>6, <2>4, <3>1, StoredVisits, LiveIsStored DEF Unfinished
    <3>5. Occupies(bookings[c], slots[s])
      BY <3>1, <3>4 DEF ScheduleInv, VisitOwnsSlot
    <3> QED
      BY <1>8, <3>2, <3>3, <3>5 DEF Occupies, IsEffectivelyFree, IsPending
  <2> QED
    BY <2>2, <2>4, <2>5, <2>6
<1>10. BookingsWithHold(u, s, b)[b] = new
  <2> HIDE DEF settled, stale, new
  <2> QED
    BY <1>5 DEF WithStatus
<1> QED
  BY <1>9, <1>10

(* One call at a time the unique indexes never refuse a hold whose checks  *)
(* passed: the IntegrityError that hold_slot turns into a conflict can only*)
(* come from a call that overlaps.                                         *)
THEOREM HoldsMeetNoIndex ==
  ASSUME IndexesBuilt, InitialSteps = {DefaultStep}
  PROVE  Spec => []HoldMeetsNoIndex
<1>1. ASSUME ScheduleInv PROVE HoldMeetsNoIndex
  <2> SUFFICES ASSUME NEW u \in Users, NEW s \in SlotKey, NEW b \in BookingIds,
                      MayHold(u, s, b)
               PROVE  UniqueLiveIndexes(BookingsWithHold(u, s, b))
    BY DEF HoldMeetsNoIndex
  <2> DEFINE bk == BookingsWithHold(u, s, b)
  <2>1. bk[b].slot = s /\ bk[b].user = u
    <3>1. bk[b] = PendingBooking(u, s, DefaultStep)
      BY <1>1, OthersOfHold
    <3> HIDE DEF bk
    <3> QED
      BY <3>1 DEF PendingBooking
  <2>2. \A c \in BookingIds \ {b} :
          IsLive(bk[c]) => /\ bk[c] = bookings[c] /\ IsLive(bookings[c])
                           /\ bookings[c].slot # s /\ bookings[c].user # u
    <3>1. \A c \in BookingIds \ {b} :
            IsLive(bk[c]) => /\ bk[c] = bookings[c]
                             /\ bookings[c].slot # s /\ bookings[c].user # u
      BY <1>1, OthersOfHold
    <3> HIDE DEF bk
    <3> QED
      BY <3>1
  <2> HIDE DEF bk
  <2>3. OneLiveBooking
    BY <1>1 DEF ScheduleInv
  <2>4. UniqueLiveIndexes(bk)
    BY <2>1, <2>2, <2>3 DEF UniqueLiveIndexes, OneLiveBooking, LiveSlotsApart,
       LiveUsersApart
  <2> QED
    BY <2>4 DEF bk
<1> QED
  BY <1>1, ScheduleInvariant, PTL

(* What hold_slot does to the tables, row by row.                          *)
LEMMA HoldEffect ==
  ASSUME ScheduleInv, NEW u \in Users, NEW s \in SlotKey, NEW b \in BookingIds,
         HoldSlot(u, s, b)
  PROVE  /\ now' = now /\ OneLiveBooking'
         /\ bookings[b] = AbsentBooking
         /\ LiveOf(u) \subseteq PastIds
         /\ VisitStart(s) > now
         /\ bookings'[b] = PendingBooking(u, s, DefaultStep)
         /\ slots'[s] = HeldSlot(u, now + HoldLength)
         /\ \A c \in BookingIds \ {b} :
              \/ /\ bookings'[c] = bookings[c]
                 /\ Unfinished(c) =>
                      slots'[bookings[c].slot] = slots[bookings[c].slot]
              \/ /\ ~IsLive(bookings'[c])
                 /\ Unfinished(c) =>
                      /\ IsPending(bookings[c])
                      /\ slots[bookings[c].slot].held_until < now
<1> DEFINE past == LiveOf(u) \cap PastIds
           settled == Settle(past)
           stale == {c \in BookingIds : IsPending(settled[c]) /\ settled[c].slot = s}
           new == PendingBooking(u, s, DefaultStep)
           held == HeldSlot(u, now + HoldLength)
<1>1. /\ bookings[b] = AbsentBooking
      /\ Present(slots, s)
      /\ LiveOf(u) \subseteq PastIds
      /\ now' = now /\ OneLiveBooking'
  BY CallApart DEF HoldSlot, MayHold, Commit
<1>2. \A c \in past : /\ c \in BookingIds
                      /\ bookings[c] # AbsentBooking
                      /\ IsLive(bookings[c])
                      /\ bookings[c].status # "cancelled"
                      /\ VisitEnd(bookings[c]) <= now
  BY LiveIsStored DEF LiveOf, PastIds, LiveIds, IsLive, LIVE_BOOKING_STATUSES
<1>3. FreeBlocks(past) = [x \in SlotKey |-> IF \E c \in past : bookings[c].slot = x
                                           THEN FreeSlot ELSE slots[x]]
  BY <1>2, FreedRows
<1>4. /\ StepForDay(s[1]) = DefaultStep
      /\ SlotsNeeded(DefaultStep, DefaultStep) = 1
      /\ ConsecutiveBlock(slots, s, 1) = {s}
  BY <1>1, OneStepVisit, OneSlotVisits, SlotKeyParts, OneSlotBlock, DataAssumption
     DEF DataAssumption
<1>5. /\ slots' = [x \in SlotKey |-> IF x = s THEN held ELSE FreeBlocks(past)[x]]
      /\ bookings' = [WithStatus(settled, stale, "cancelled") EXCEPT ![b] = new]
      /\ IsBookableSlot(FreeBlocks(past)[s], s, now)
  <2>1. stale = {c \in BookingIds : IsPending(settled[c]) /\ settled[c].slot \in {s}}
    OBVIOUS
  <2> HIDE DEF settled
  <2> QED
    BY <1>4, <2>1 DEF HoldSlot, MayHold, HoldBlock, PastOf, BookingsWithHold,
       Commit, settled
<1>6. VisitStart(s) > now
  BY <1>5 DEF IsBookableSlot
<1>7. bookings'[b] = new /\ slots'[s] = held
  <2> HIDE DEF settled, stale, new, held
  <2> QED
    BY <1>5 DEF WithStatus
<1>8. \A c \in past : bookings[c].slot # s
  <2>1. \A x \in SlotKey : VisitStart(x) \in Nat
    BY VisitStartType
  <2>2. DefaultStep \in Nat \ {0} /\ now \in Nat
    BY DataAssumption DEF DataAssumption, ScheduleInv, TypeOK
  <2> QED
    BY <1>2, <1>6, <2>1, <2>2, StoredVisits
<1>9. IsEffectivelyFree(slots[s], now)
  BY <1>3, <1>5, <1>8 DEF IsBookableSlot
<1>10. ASSUME NEW c \in past, c # b
       PROVE  ~IsLive(bookings'[c]) /\ ~Unfinished(c)
  <2>1. bookings[c] \in BookingRow /\ VisitEnd(bookings[c]) \in Int /\ now \in Int
    BY <1>2, StoredVisits, VisitStartType, DataAssumption
       DEF DataAssumption, ScheduleInv, TypeOK
  <2>2. settled[c].status \in {"completed", "cancelled"}
    BY <1>2, <2>1 DEF Settle, BookingRow
  <2>3. c \notin stale
    BY <2>2 DEF IsPending
  <2>4. bookings'[c] = settled[c]
    <3> HIDE DEF settled, stale, new
    <3> QED
      BY <1>2, <1>5, <1>10, <2>3 DEF WithStatus
  <2> QED
    BY <1>2, <2>1, <2>2, <2>4 DEF Unfinished, IsLive, LIVE_BOOKING_STATUSES
<1>11. \A c \in BookingIds \ past : settled[c] = bookings[c]
  BY DEF Settle
<1>12. ASSUME NEW c \in BookingIds \ {b}, c \notin past, c \in stale
       PROVE  /\ ~IsLive(bookings'[c])
              /\ Unfinished(c) => /\ IsPending(bookings[c])
                                  /\ slots[bookings[c].slot].held_until < now
  <2>1. settled[c] = bookings[c] /\ IsPending(bookings[c]) /\ bookings[c].slot = s
    BY <1>11, <1>12
  <2>2. bookings[c] \in BookingRow
    BY <2>1, StoredVisits DEF IsPending, AbsentBooking
  <2>3. bookings'[c] = [bookings[c] EXCEPT !.status = "cancelled"]
    <3> HIDE DEF past, settled, stale, new
    <3> QED
      BY <1>5, <1>12, <2>1 DEF WithStatus
  <2>4. ~IsLive(bookings'[c])
    BY <2>2, <2>3 DEF BookingRow, IsLive, LIVE_BOOKING_STATUSES
  <2>5. ASSUME Unfinished(c)
        PROVE  slots[s].held_until < now
    <3>1. Occupies(bookings[c], slots[s])
      BY <2>1, <2>5 DEF ScheduleInv, VisitOwnsSlot
    <3> QED
      BY <1>9, <2>1, <3>1 DEF Occupies, IsEffectivelyFree, IsPending
  <2> QED
    BY <2>1, <2>4, <2>5
<1>13. ASSUME NEW c \in BookingIds \ {b}, c \notin past, c \notin stale
       PROVE  /\ bookings'[c] = bookings[c]
              /\ Unfinished(c) =>
                   slots'[bookings[c].slot] = slots[bookings[c].slot]
  <2>1. bookings'[c] = bookings[c]
    <3> HIDE DEF past, settled, stale, new
    <3> QED
      BY <1>5, <1>11, <1>13 DEF WithStatus
  <2>2. ASSUME Unfinished(c)
        PROVE  slots'[bookings[c].slot] = slots[bookings[c].slot]
    <3>1. bookings[c].slot \in SlotKey
      BY <2>2, StoredVisits, LiveIsStored DEF Unfinished
    <3>2. \A d \in past : bookings[d].slot # bookings[c].slot
      BY <1>2, <1>13, <2>2, SoleVisit
    <3>3. Occupies(bookings[c], slots[bookings[c].slot])
      BY <2>2 DEF ScheduleInv, VisitOwnsSlot
    <3>4. bookings[c].slot # s
      <4>1. ASSUME bookings[c].slot = s PROVE ~IsPending(bookings[c])
        BY <4>1, <1>11, <1>13
      <4> QED
        BY <3>3, <4>1, <1>9 DEF Occupies, IsEffectivelyFree
    <3> QED
      BY <1>3, <1>5, <3>1, <3>2, <3>4
  <2> QED
    BY <2>1, <2>2
<1> HIDE DEF past, settled, stale, new, held
<1>14. \A c \in BookingIds \ {b} :
         \/ /\ bookings'[c] = bookings[c]
            /\ Unfinished(c) =>
                 slots'[bookings[c].slot] = slots[bookings[c].slot]
         \/ /\ ~IsLive(bookings'[c])
            /\ Unfinished(c) =>
                 /\ IsPending(bookings[c])
                 /\ slots[bookings[c].slot].held_until < now
  BY <1>10, <1>12, <1>13
<1> QED
  BY <1>1, <1>6, <1>7, <1>14 DEF new, held

(* hold_slot of anybody cancels no visit whose hold stands.                *)
LEMMA HoldSpares ==
  ASSUME ScheduleInv, NEW b \in BookingIds, Unfinished(b),
         NEW u \in Users, NEW s \in SlotKey, NEW c \in BookingIds,
         HoldSlot(u, s, c)
  PROVE  Spared(b)
<1>1. b # c
  BY HoldEffect, LiveIsStored DEF Unfinished
<1>2. CASE bookings'[b] = bookings[b]
  BY <1>2 DEF Spared
<1>3. CASE bookings'[b] # bookings[b]
  <2>1. IsPending(bookings[b]) /\ slots[bookings[b].slot].held_until < now
    BY <1>1, <1>3, HoldEffect
  <2>2. slots[bookings[b].slot].held_until \in Int /\ now \in Int
    BY StoredVisits, LiveIsStored DEF Unfinished, ScheduleInv, TypeOK, SlotRow, NoTime
  <2> QED
    BY <2>1, <2>2 DEF Spared, HoldIsOver
<1> QED
  BY <1>2, <1>3

(* No step closes a visit that is not over, except a cancellation of that  *)
(* very booking or after its hold has lapsed.                              *)
LEMMA VisitSpared ==
  ASSUME ScheduleInv, NEW b \in BookingIds, Unfinished(b), [Next]_vars
  PROVE  Spared(b)
<1>1. /\ bookings[b] # AbsentBooking
      /\ bookings[b] \in BookingRow
      /\ bookings[b].slot \in SlotKey
      /\ Occupies(bookings[b], slots[bookings[b].slot])
  BY StoredVisits, LiveIsStored DEF Unfinished, ScheduleInv, VisitOwnsSlot
<1>2. /\ b \notin PastIds
      /\ now \in Nat
      /\ slots[bookings[b].slot].held_until \in Int
  <2>1. VisitEnd(bookings[b]) \in Int /\ now \in Int
    BY <1>1, StoredVisits, VisitStartType, DataAssumption
       DEF DataAssumption, ScheduleInv, TypeOK
  <2> QED
    BY <1>1, <2>1 DEF PastIds, Unfinished, ScheduleInv, TypeOK, SlotRow, NoTime
<1>3. ASSUME NEW B, B \subseteq PastIds, Commit(FreeBlocks(B), Settle(B))
      PROVE  Spared(b)
  BY <1>2, <1>3 DEF Commit, Settle, Spared
<1>4. ASSUME NEW c \in BookingIds, CancelBooking(c)
      PROVE  Spared(b)
  BY <1>4 DEF CancelBooking, Commit, WithStatus, Spared
<1>5. ASSUME NEW D, DropDays(D),
             \A s \in SlotKey : s[1] \in D => slots[s].status \notin BUSY_SLOT_STATUSES
      PROVE  Spared(b)
  <2>1. bookings[b].slot[1] \notin D
    BY <1>1, <1>5, OccupiedRow
  <2> QED
    BY <2>1, <1>5 DEF DropDays, Spared
<1>6. CASE ClientStep
  <2>1. ASSUME NEW u \in Users, OpenBookingForm(u)
        PROVE  Spared(b)
    BY <2>1, <1>3 DEF OpenBookingForm
  <2>2. ASSUME NEW u \in Users, NEW s \in SlotKey, NEW c \in BookingIds,
               HoldSlot(u, s, c)
        PROVE  Spared(b)
    BY <2>2, HoldSpares
  <2>3. ASSUME NEW c \in BookingIds, ConfirmWithReceipt(c)
        PROVE  Spared(b)
    <3>1. bookings' = [bookings EXCEPT ![c].status = "active", ![c].receipt = TRUE]
      BY <2>3 DEF ConfirmWithReceipt, Commit
    <3> QED
      BY <3>1, <1>1 DEF Spared, ScheduleInv, TypeOK, BookingRow
  <2>4. ASSUME NEW c \in BookingIds, ReceiptTooLate(c)
        PROVE  Spared(b)
    <3>1. CASE c # b
      BY <2>4, <3>1 DEF ReceiptTooLate, Commit, WithStatus, Spared
    <3>2. CASE c = b
      BY <2>4, <3>2, <1>1, <1>2
         DEF ReceiptTooLate, HoldStands, HoldIsOver, Occupies, IsPending, NoTime, Spared
    <3> QED
      BY <3>1, <3>2
  <2>5. ASSUME NEW c \in BookingIds, AttachLateReceipt(c)
        PROVE  Spared(b)
    <3>1. bookings' = [bookings EXCEPT ![c].receipt = TRUE]
      BY <2>5 DEF AttachLateReceipt, Commit
    <3> QED
      BY <3>1, <1>1 DEF Spared, ScheduleInv, TypeOK, BookingRow
  <2>6. ASSUME NEW c \in BookingIds, CancelByClient(c)
        PROVE  Spared(b)
    BY <2>6, <1>4 DEF CancelByClient
  <2> QED
    BY <1>6, <2>1, <2>2, <2>3, <2>4, <2>5, <2>6 DEF ClientStep
<1>7. CASE MasterStep
  <2>1. ASSUME UNCHANGED bookings
        PROVE  Spared(b)
    BY <2>1 DEF Spared
  <2>2. ASSUME NEW d \in Days, DeleteDay(d)
        PROVE  Spared(b)
    BY <2>2, <1>5 DEF DeleteDay
  <2>3. ASSUME NEW c \in BookingIds, NEW s \in SlotKey, Reschedule(c, s)
        PROVE  Spared(b)
    <3>1. bookings' = [bookings EXCEPT ![c].slot = s]
      BY <2>3 DEF Reschedule, Commit
    <3> QED
      BY <3>1, <1>1 DEF Spared, ScheduleInv, TypeOK, BookingRow
  <2> QED
    BY <1>4, <1>7, <2>1, <2>2, <2>3 DEF MasterStep, SetWorkSettings,
       AddDayFromDefaults, SetDayHours, ClearDayOverride, ToggleSlotBlock
<1>8. CASE ReleaseExpiredHolds
  <2> DEFINE pending == {c \in BookingIds :
                           IsPending(bookings[c]) /\ bookings[c].slot \in Lapsed}
  <2>1. bookings' = WithStatus(bookings, pending, "cancelled")
    BY <1>8 DEF ReleaseExpiredHolds, Commit
  <2>2. CASE b \in pending
    BY <2>2, <1>1, <1>2, DataAssumption
       DEF Lapsed, HoldExpired, HoldIsOver, Spared, NoTime, ScheduleInv, TypeOK
  <2>3. CASE b \notin pending
    <3> HIDE DEF pending
    <3> QED
      BY <2>1, <2>3 DEF WithStatus, Spared
  <2> QED
    BY <2>2, <2>3
<1>9. CASE SettlePastBookings
  <2> DEFINE due == {c \in PastIds : bookings[c].slot[1] <= Today(now)}
  <2>1. due \subseteq PastIds /\ Commit(FreeBlocks(due), Settle(due))
    BY <1>9 DEF SettlePastBookings
  <2> HIDE DEF due
  <2> QED
    BY <2>1, <1>3
<1>10. CASE PurgePastDays
  <2> DEFINE D == {d \in days : /\ d < Today(now)
                                /\ \A s \in SlotKey : s[1] = d => ~Referenced(s)}
  <2>1. DropDays(D)
    BY <1>10 DEF PurgePastDays
  <2>2. \A s \in SlotKey : slots[s].status \in BUSY_SLOT_STATUSES => Referenced(s)
    BY OccupiedRow, LiveIsStored DEF ScheduleInv, BusySlotOwned, Referenced
  <2>3. \A s \in SlotKey : s[1] \in D => slots[s].status \notin BUSY_SLOT_STATUSES
    BY <2>2
  <2> HIDE DEF D
  <2> QED
    BY <2>1, <2>3, <1>5
<1>11. CASE Tick \/ UNCHANGED vars
  BY <1>11 DEF Tick, vars, Spared
<1> QED
  BY <1>6, <1>7, <1>8, <1>9, <1>10, <1>11 DEF Next, SchedulerStep

(* A paid visit that is not over stays active until somebody cancels that  *)
(* very booking.                                                           *)
THEOREM PaidVisitsAreKept ==
  ASSUME IndexesBuilt, InitialSteps = {DefaultStep}
  PROVE  Spec => PaidVisitKept
<1>1. ASSUME ScheduleInv, [Next]_vars
      PROVE  [\A b \in BookingIds :
                Unfinished(b) /\ bookings[b].status = "active"
                  => bookings'[b].status = "active" \/ CancelBooking(b)]_vars
  BY <1>1, VisitSpared DEF Spared, HoldIsOver, IsPending
<1> QED
  BY <1>1, ScheduleInvariant, PTL DEF Spec, PaidVisitKept

(* A hold that stands is only ended by a cancellation of that very         *)
(* booking: no sweep, no rival and no change of hours takes it.            *)
THEOREM HoldsAreRespected ==
  ASSUME IndexesBuilt, InitialSteps = {DefaultStep}
  PROVE  Spec => HoldRespected
<1>1. ASSUME ScheduleInv, [Next]_vars
      PROVE  [\A b \in BookingIds :
                /\ IsPending(bookings[b])
                /\ slots[bookings[b].slot].held_until >= now
                /\ Unfinished(b)
                => \/ bookings'[b].status \in LIVE_BOOKING_STATUSES
                   \/ CancelBooking(b)]_vars
  BY <1>1, VisitSpared DEF Spared, HoldIsOver, IsPending, LIVE_BOOKING_STATUSES
<1> QED
  BY <1>1, ScheduleInvariant, PTL DEF Spec, HoldRespected

-----------------------------------------------------------------------------
(***************************************************************************)
(* The agenda.                                                             *)
(***************************************************************************)

(* What can be read from the agenda: the visit of every client who has one *)
(* ahead, and nobody else's.                                               *)
AgendaRead ==
  /\ agenda = [u \in Users |-> agenda[u]]
  /\ \A c \in BookingIds :
       Unfinished(c) => /\ bookings[c].user \in Users
                        /\ agenda[bookings[c].user] = VisitOf(c)
                        /\ VisitOf(c) \in Promise!Visit
  /\ \A u \in Users :
       agenda[u] # Null =>
         \E c \in BookingIds : Unfinished(c) /\ bookings[c].user = u

(* A client has one visit ahead at most (uq_live_booking_user), so the     *)
(* agenda can be read.                                                     *)
LEMMA AgendaIs == ScheduleInv => AgendaRead
<1> SUFFICES ASSUME ScheduleInv
             PROVE  AgendaRead
  OBVIOUS
<1>1. agenda = [u \in Users |-> agenda[u]]
  BY DEF agenda
<1>2. \A u \in Users :
        agenda[u] = IF Upcoming(u) = {} THEN Null
                    ELSE VisitOf(CHOOSE b \in Upcoming(u) : TRUE)
  BY DEF agenda
<1>3. ASSUME NEW c \in BookingIds, Unfinished(c)
      PROVE  /\ bookings[c].user \in Users
             /\ agenda[bookings[c].user] = VisitOf(c)
             /\ VisitOf(c) \in Promise!Visit
  <2>1. bookings[c] \in BookingRow /\ bookings[c].slot \in SlotKey
    BY <1>3, StoredVisits, LiveIsStored DEF Unfinished
  <2>2. bookings[c].user \in Users
    BY <2>1 DEF BookingRow
  <2>3. Upcoming(bookings[c].user) = {c}
    BY <1>3 DEF Upcoming, LiveOf, LiveIds, Unfinished, ScheduleInv,
       OneLiveBooking, LiveSlotsApart, LiveUsersApart
  <2>4. (CHOOSE b \in {c} : TRUE) = c
    OBVIOUS
  <2>5. agenda[bookings[c].user] = VisitOf(c)
    BY <1>2, <2>2, <2>3, <2>4
  <2>6. VisitEnd(bookings[c]) \in Int
    BY <1>3, <2>1, StoredVisits, LiveIsStored, VisitStartType, DataAssumption
       DEF Unfinished, DataAssumption
  <2>7. slots[bookings[c].slot].held_until \in Int /\ NoTime \in Int
    BY <2>1 DEF ScheduleInv, TypeOK, SlotRow, NoTime
  <2>8. VisitOf(c) \in Promise!Visit
    BY <2>1, <2>6, <2>7 DEF VisitOf, Promise!Visit
  <2> QED
    BY <2>2, <2>5, <2>8
<1>4. ASSUME NEW u \in Users, agenda[u] # Null
      PROVE  \E c \in BookingIds : Unfinished(c) /\ bookings[c].user = u
  <2>1. Upcoming(u) # {}
    BY <1>2, <1>4
  <2> QED
    BY <2>1 DEF Upcoming, LiveOf, LiveIds
<1> QED
  BY <1>1, <1>3, <1>4 DEF AgendaRead

(* A booking is the same visit after a step, or none before and after.     *)
Same(c) ==
  /\ Unfinished(c)' <=> Unfinished(c)
  /\ Unfinished(c) => /\ bookings'[c].user = bookings[c].user
                      /\ VisitOf(c)' = VisitOf(c)

(* A booking keeps its visit with its row and its slot's row.              *)
LEMMA SameVisit ==
  ASSUME NEW c \in BookingIds, now' = now, bookings'[c] = bookings[c],
         Unfinished(c) => slots'[bookings[c].slot] = slots[bookings[c].slot]
  PROVE  Same(c)
BY DEF Same, Unfinished, VisitOf

(* A booking that is no visit before and after a step has not changed.     *)
LEMMA NoVisitSame ==
  ASSUME NEW c \in BookingIds, ~Unfinished(c), ~Unfinished(c)'
  PROVE  Same(c)
BY DEF Same

(* The agenda after a step that ends the visits of D, leaves all others    *)
(* alone but those of E, and has client v with no visit of E.              *)
LEMMA AgendaAfter ==
  ASSUME ScheduleInv, AgendaRead, AgendaRead', Null \notin Promise!Visit,
         NEW D \in SUBSET BookingIds, NEW E \in SUBSET BookingIds,
         \A c \in BookingIds \ (D \cup E) : Same(c),
         \A c \in D : Unfinished(c) /\ ~Unfinished(c)',
         NEW v \in Users,
         \A c \in E : /\ Unfinished(c) => bookings[c].user # v
                      /\ Unfinished(c)' => bookings'[c].user # v
  PROVE  /\ (\E c \in D : bookings[c].user = v) => agenda'[v] = Null
         /\ (\A c \in D : bookings[c].user # v) => agenda'[v] = agenda[v]
<1>1. ASSUME agenda'[v] # Null
      PROVE  \E d \in BookingIds : /\ Unfinished(d)' /\ Unfinished(d)
                                   /\ bookings[d].user = v
                                   /\ d \notin D /\ Same(d)
  <2>1. PICK d \in BookingIds : Unfinished(d)' /\ bookings'[d].user = v
    BY <1>1 DEF AgendaRead
  <2>2. Same(d) /\ d \notin D
    BY <2>1
  <2> QED
    BY <2>1, <2>2 DEF Same
<1>2. ASSUME NEW c \in D, bookings[c].user = v, agenda'[v] # Null
      PROVE  FALSE
  <2>1. PICK d \in BookingIds : Unfinished(d) /\ bookings[d].user = v /\ d \notin D
    BY <1>1, <1>2
  <2>2. c \in BookingIds /\ c # d /\ Unfinished(c)
    BY <2>1
  <2> QED
    BY <1>2, <2>1, <2>2 DEF Unfinished, ScheduleInv, OneLiveBooking, LiveSlotsApart, LiveUsersApart
<1>3. ASSUME \A c \in D : bookings[c].user # v, agenda[v] # Null
      PROVE  agenda'[v] = agenda[v]
  <2>1. PICK c \in BookingIds : Unfinished(c) /\ bookings[c].user = v
    BY <1>3 DEF AgendaRead
  <2>2. Same(c)
    BY <1>3, <2>1
  <2>3. Unfinished(c)' /\ bookings'[c].user = v /\ VisitOf(c)' = VisitOf(c)
    BY <2>1, <2>2 DEF Same
  <2>4. agenda[v] = VisitOf(c)
    BY <2>1 DEF AgendaRead
  <2>5. agenda'[v] = VisitOf(c)'
    BY <2>3 DEF AgendaRead
  <2> QED
    BY <2>3, <2>4, <2>5
<1>4. ASSUME agenda[v] = Null, agenda'[v] # Null
      PROVE  FALSE
  <2>1. PICK d \in BookingIds : Unfinished(d) /\ bookings[d].user = v
    BY <1>1, <1>4
  <2>2. agenda[v] = VisitOf(d) /\ VisitOf(d) \in Promise!Visit
    BY <2>1 DEF AgendaRead
  <2> QED
    BY <1>4, <2>2
<1> QED
  BY <1>2, <1>3, <1>4

(* No visit changes, so the agenda does not.                               *)
LEMMA AgendaStays ==
  ASSUME ScheduleInv, AgendaRead, AgendaRead', Null \notin Promise!Visit,
         \A c \in BookingIds : Same(c)
  PROVE  agenda' = agenda
<1>1. \A v \in Users : agenda'[v] = agenda[v]
  BY AgendaAfter, {} \in SUBSET BookingIds
<1>2. agenda = [u \in Users |-> agenda[u]] /\ agenda' = [u \in Users |-> agenda'[u]]
  BY DEF AgendaRead
<1> QED
  BY <1>1, <1>2

(* The visits of D end, and those are all that the agenda loses.           *)
LEMMA AgendaLoses ==
  ASSUME ScheduleInv, AgendaRead, AgendaRead', Null \notin Promise!Visit,
         NEW D \in SUBSET BookingIds,
         \A c \in BookingIds \ D : Same(c),
         \A c \in D : Unfinished(c) /\ ~Unfinished(c)'
  PROVE  agenda' = Promise!Without({bookings[c].user : c \in D})
<1>1. \A v \in Users : agenda'[v] = IF v \in {bookings[c].user : c \in D}
                                  THEN Null ELSE agenda[v]
  BY AgendaAfter, {} \in SUBSET BookingIds
<1>2. agenda' = [u \in Users |-> agenda'[u]]
  BY DEF AgendaRead
<1> QED
  BY <1>1, <1>2 DEF Promise!Without

(***************************************************************************)
(* What each call does to the agenda.                                      *)
(***************************************************************************)

(* A cancellation takes the visit off the agenda, if it was on it.         *)
LEMMA CancelledVisit ==
  ASSUME ScheduleInv, AgendaRead, AgendaRead', Null \notin Promise!Visit,
         NEW b \in BookingIds, bookings[b] # AbsentBooking,
         bookings[b].status # "cancelled",
         Commit(FreeBlocks({b}), WithStatus(bookings, {b}, "cancelled"))
  PROVE  agenda' = agenda \/ \E u \in Users : Promise!Cancel(u)
<1>1. /\ now' = now
      /\ slots' = [s \in SlotKey |-> IF bookings[b].slot = s THEN FreeSlot ELSE slots[s]]
      /\ \A c \in BookingIds \ {b} : bookings'[c] = bookings[c]
      /\ ~IsLive(bookings'[b])
  <2>1. /\ now' = now /\ slots' = FreeBlocks({b})
        /\ bookings' = WithStatus(bookings, {b}, "cancelled")
    BY DEF Commit
  <2>2. bookings[b] \in BookingRow
    BY StoredVisits
  <2>3. bookings'[b] = [bookings[b] EXCEPT !.status = "cancelled"]
    BY <2>1 DEF WithStatus
  <2>4. bookings'[b].status = "cancelled"
    BY <2>2, <2>3 DEF BookingRow
  <2> QED
    BY <2>1, <2>4, FreedRows DEF WithStatus, IsLive, LIVE_BOOKING_STATUSES
<1>2. ASSUME NEW c \in BookingIds \ {b}
      PROVE  Same(c)
  <2>1. Unfinished(c) => slots'[bookings[c].slot] = slots[bookings[c].slot]
    BY <1>1, SoleVisit, StoredVisits, LiveIsStored DEF Unfinished
  <2> QED
    BY <1>1, <2>1, SameVisit
<1>3. ~Unfinished(b)'
  BY <1>1 DEF Unfinished
<1>4. CASE ~Unfinished(b)
  <2>1. \A c \in BookingIds : Same(c)
    BY <1>2, <1>3, <1>4, NoVisitSame
  <2> QED
    BY <2>1, AgendaStays
<1>5. CASE Unfinished(b)
  <2>1. agenda' = Promise!Without({bookings[c].user : c \in {b}})
    BY <1>2, <1>3, <1>5, AgendaLoses, {b} \in SUBSET BookingIds
  <2>2. bookings[b].user \in Users
    BY <1>5 DEF AgendaRead
  <2>3. {bookings[c].user : c \in {b}} = {bookings[b].user}
    OBVIOUS
  <2> QED
    BY <1>1, <2>1, <2>2, <2>3 DEF Promise!Cancel
<1> QED
  BY <1>4, <1>5

(* Past visits are settled: they have left the agenda already.             *)
LEMMA SettledVisits ==
  ASSUME ScheduleInv, AgendaRead, AgendaRead', Null \notin Promise!Visit,
         NEW B, B \subseteq PastIds, Commit(FreeBlocks(B), Settle(B))
  PROVE  agenda' = agenda
<1>1. \A b \in B : /\ b \in BookingIds /\ IsLive(bookings[b])
                   /\ bookings[b] # AbsentBooking /\ bookings[b].status # "cancelled"
                   /\ VisitEnd(bookings[b]) <= now
  BY LiveIsStored DEF PastIds, LiveIds, IsLive, LIVE_BOOKING_STATUSES
<1>2. /\ now' = now
      /\ slots' = [s \in SlotKey |-> IF \E b \in B : bookings[b].slot = s
                                   THEN FreeSlot ELSE slots[s]]
      /\ bookings' = Settle(B)
  BY <1>1, FreedRows DEF Commit
<1>3. ASSUME NEW c \in BookingIds
      PROVE  Same(c)
  <2>1. CASE c \in B
    <3>1. bookings[c] \in BookingRow
      BY <1>1, <2>1, StoredVisits
    <3>2. bookings'[c] = [bookings[c] EXCEPT
             !.status = IF bookings[c].status = "active" THEN "completed" ELSE "cancelled"]
      BY <1>2, <2>1 DEF Settle
    <3>3. ~IsLive(bookings'[c])
      BY <3>1, <3>2 DEF BookingRow, IsLive, LIVE_BOOKING_STATUSES
    <3>4. ~Unfinished(c)
      <4>1. VisitEnd(bookings[c]) \in Int /\ now \in Int
        BY <1>1, <2>1, StoredVisits, VisitStartType, DataAssumption
           DEF DataAssumption, ScheduleInv, TypeOK
      <4> QED
        BY <4>1, <1>1, <2>1 DEF Unfinished
    <3> QED
      BY <3>3, <3>4, NoVisitSame DEF Unfinished
  <2>2. CASE c \notin B
    <3>1. bookings'[c] = bookings[c]
      BY <1>2, <2>2 DEF Settle
    <3>2. Unfinished(c) => slots'[bookings[c].slot] = slots[bookings[c].slot]
      BY <1>1, <1>2, <2>2, SoleVisit, StoredVisits, LiveIsStored DEF Unfinished
    <3> QED
      BY <1>2, <3>1, <3>2, SameVisit
  <2> QED
    BY <2>1, <2>2
<1> QED
  BY <1>3, AgendaStays

(* The grid changes under the visits, not with them: a busy row stays.     *)
LEMMA GridKeepsAgenda ==
  ASSUME ScheduleInv, AgendaRead, AgendaRead', Null \notin Promise!Visit,
         UNCHANGED <<now, bookings>>,
         \A s \in SlotKey : slots[s].status \in BUSY_SLOT_STATUSES => slots'[s] = slots[s]
  PROVE  agenda' = agenda
<1>1. ASSUME NEW c \in BookingIds
      PROVE  Same(c)
  <2>1. Unfinished(c) => slots'[bookings[c].slot] = slots[bookings[c].slot]
    BY OccupiedRow, StoredVisits, LiveIsStored DEF Unfinished, ScheduleInv, VisitOwnsSlot
  <2> QED
    BY <2>1, SameVisit
<1> QED
  BY <1>1, AgendaStays

(* Days without a busy row go, and no visit ahead with them.               *)
LEMMA DroppedDays ==
  ASSUME ScheduleInv, AgendaRead, AgendaRead', Null \notin Promise!Visit,
         NEW D, DropDays(D),
         \A s \in SlotKey : s[1] \in D => slots[s].status \notin BUSY_SLOT_STATUSES
  PROVE  agenda' = agenda /\ now' = now
<1>1. now' = now
  BY DEF DropDays
<1>2. ASSUME NEW c \in BookingIds
      PROVE  Same(c)
  <2>1. CASE Unfinished(c)
    <3>1. bookings[c].slot \in SlotKey /\ bookings[c] # AbsentBooking
      BY <2>1, StoredVisits, LiveIsStored DEF Unfinished
    <3>2. bookings[c].slot[1] \notin D
      BY <2>1, <3>1, OccupiedRow DEF ScheduleInv, VisitOwnsSlot
    <3>3. bookings'[c] = bookings[c] /\ slots'[bookings[c].slot] = slots[bookings[c].slot]
      BY <3>1, <3>2 DEF DropDays
    <3> QED
      BY <1>1, <3>3, SameVisit
  <2>2. CASE ~Unfinished(c)
    <3>1. bookings'[c] = bookings[c] \/ ~IsLive(bookings'[c])
      BY LiveIsStored DEF DropDays
    <3> QED
      BY <1>1, <2>2, <3>1, NoVisitSame DEF Unfinished
  <2> QED
    BY <2>1, <2>2
<1> QED
  BY <1>1, <1>2, AgendaStays

(* A receipt in time pays the visit (confirm_with_receipt).                *)
LEMMA PaidOnAgenda ==
  ASSUME ScheduleInv, AgendaRead, AgendaRead', Null \notin Promise!Visit,
         NEW b \in BookingIds, ConfirmWithReceipt(b)
  PROVE  agenda' = agenda \/ \E u \in Users : Promise!Pay(u)
<1>1. /\ bookings[b] # AbsentBooking /\ IsLive(bookings[b])
      /\ bookings[b].status = "pending_payment"
  BY DEF ConfirmWithReceipt, IsPending, AbsentBooking, IsLive, LIVE_BOOKING_STATUSES
<1>2. BlockSlots(bookings[b]) = {bookings[b].slot}
  BY <1>1, OneSlotVisits
<1>3. /\ slots' = [s \in SlotKey |-> IF s = bookings[b].slot THEN BookedSlot
                                                            ELSE slots[s]]
      /\ bookings' = [bookings EXCEPT ![b].status = "active", ![b].receipt = TRUE]
      /\ now' = now
  BY <1>2 DEF ConfirmWithReceipt, Commit
<1>4. /\ bookings'[b].status = "active"
      /\ bookings'[b].user = bookings[b].user
      /\ bookings'[b].slot = bookings[b].slot
      /\ bookings'[b].duration = bookings[b].duration
      /\ \A c \in BookingIds \ {b} : bookings'[c] = bookings[c]
  BY <1>1, <1>3, StoredVisits DEF BookingRow, ScheduleInv, TypeOK
<1>5. \A c \in BookingIds \ {b} : Same(c)
  <2>1. \A c \in BookingIds \ {b} :
          Unfinished(c) => slots'[bookings[c].slot] = slots[bookings[c].slot]
    BY <1>1, <1>3, SoleVisit, StoredVisits, LiveIsStored DEF Unfinished
  <2> QED
    BY <1>3, <1>4, <2>1, SameVisit
<1>6. Unfinished(b)' <=> Unfinished(b)
  BY <1>1, <1>3, <1>4 DEF Unfinished, VisitEnd, IsLive, LIVE_BOOKING_STATUSES
<1>7. CASE ~Unfinished(b)
  <2>1. \A c \in BookingIds : Same(c)
    BY <1>5, <1>6, <1>7, NoVisitSame
  <2> QED
    BY <2>1, AgendaStays
<1>8. CASE Unfinished(b)
  <2> DEFINE u == bookings[b].user
  <2>1. /\ u \in Users /\ agenda[u] = VisitOf(b) /\ VisitOf(b) \in Promise!Visit
        /\ agenda'[u] = VisitOf(b)'
    BY <1>4, <1>6, <1>8 DEF AgendaRead
  <2>2. /\ VisitOf(b)'.slot = VisitOf(b).slot
        /\ VisitOf(b)'.end = VisitOf(b).end
        /\ VisitOf(b)' = [slot |-> VisitOf(b).slot, end |-> VisitOf(b).end,
                          paid |-> TRUE, until |-> -1]
    BY <1>4 DEF VisitOf, VisitEnd, NoTime
  <2>3. ~VisitOf(b).paid /\ VisitOf(b).until >= now
    BY <1>1 DEF VisitOf, ConfirmWithReceipt, HoldStands
  <2>4. \A v \in Users \ {u} : agenda'[v] = agenda[v]
    <3> SUFFICES ASSUME NEW v \in Users, v # u
                 PROVE  agenda'[v] = agenda[v]
      OBVIOUS
    <3> DEFINE D == {}
               E == {b}
    <3>1. /\ D \in SUBSET BookingIds /\ E \in SUBSET BookingIds
          /\ \A c \in BookingIds \ (D \cup E) : Same(c)
          /\ \A c \in D : FALSE
          /\ \A c \in E : bookings[c].user # v /\ bookings'[c].user # v
      BY <1>4, <1>5
    <3> HIDE DEF D, E
    <3> QED
      BY <3>1, AgendaAfter
  <2>5. agenda = [v \in Users |-> agenda[v]] /\ agenda' = [v \in Users |-> agenda'[v]]
    BY DEF AgendaRead
  <2> HIDE DEF u
  <2>6. agenda'[u] = [slot |-> agenda[u].slot, end |-> agenda[u].end,
                      paid |-> TRUE, until |-> -1]
    BY <2>1, <2>2
  <2>7. agenda' = [agenda EXCEPT ![u] = [slot |-> @.slot, end |-> @.end,
                                         paid |-> TRUE, until |-> -1]]
    BY <2>1, <2>4, <2>5, <2>6
  <2>8. now \in Int
    BY DEF ScheduleInv, TypeOK
  <2>9. Promise!Ahead(u) /\ ~agenda[u].paid /\ ~Promise!Lapsed(u)
    BY <2>1, <2>3, <2>8 DEF Promise!Ahead, Promise!Lapsed, Promise!Visit
  <2> QED
    BY <1>3, <2>1, <2>7, <2>9 DEF Promise!Pay
<1> QED
  BY <1>7, <1>8

(* A late receipt revives nothing (attach_late_receipt).                   *)
LEMMA LateReceiptKeepsAgenda ==
  ASSUME ScheduleInv, AgendaRead, AgendaRead', Null \notin Promise!Visit,
         NEW b \in BookingIds, AttachLateReceipt(b)
  PROVE  agenda' = agenda
<1>1. bookings[b] # AbsentBooking /\ bookings[b].status = "cancelled"
  BY DEF AttachLateReceipt, AbsentBooking
<1>2. /\ bookings'[b].status = "cancelled"
      /\ \A c \in BookingIds \ {b} : bookings'[c] = bookings[c]
      /\ slots' = slots /\ now' = now
  BY <1>1, StoredVisits DEF AttachLateReceipt, Commit, BookingRow, ScheduleInv, TypeOK
<1>3. Same(b)
  BY <1>1, <1>2, NoVisitSame DEF Unfinished, IsLive, LIVE_BOOKING_STATUSES
<1>4. \A c \in BookingIds \ {b} : Same(c)
  BY <1>2, SameVisit
<1> QED
  BY <1>3, <1>4, AgendaStays

(* The sweep of lapsed holds takes none that stands.                       *)
LEMMA SweptHolds ==
  ASSUME ScheduleInv, AgendaRead, AgendaRead', Null \notin Promise!Visit,
         ReleaseExpiredHolds
  PROVE  Promise!Lapse
<1> DEFINE T == {b \in BookingIds :
                   IsPending(bookings[b]) /\ bookings[b].slot \in Lapsed}
           D == {b \in T : Unfinished(b)}
           gone == {bookings[c].user : c \in D}
<1>1. /\ slots' = [s \in SlotKey |-> IF s \in Lapsed THEN FreeSlot ELSE slots[s]]
      /\ bookings' = WithStatus(bookings, T, "cancelled")
      /\ now' = now
  BY DEF ReleaseExpiredHolds, Commit
<1>2. /\ T \subseteq BookingIds /\ D \in SUBSET BookingIds /\ D \subseteq T
      /\ \A b \in T : IsPending(bookings[b]) /\ bookings[b].slot \in Lapsed
      /\ \A b \in T : Unfinished(b) => b \in D
      /\ \A b \in D : Unfinished(b)
      /\ \A b \in BookingIds \ T : IsPending(bookings[b]) => bookings[b].slot \notin Lapsed
  OBVIOUS
<1> HIDE DEF T, D
<1>3. \A c \in T : ~Unfinished(c)'
  <2> SUFFICES ASSUME NEW c \in T PROVE ~IsLive(bookings'[c])
    BY DEF Unfinished
  <2>1. bookings[c] \in BookingRow
    BY <1>2, StoredVisits DEF IsPending, AbsentBooking
  <2>2. bookings'[c] = [bookings[c] EXCEPT !.status = "cancelled"]
    BY <1>1, <1>2 DEF WithStatus
  <2> QED
    BY <2>1, <2>2 DEF BookingRow, IsLive, LIVE_BOOKING_STATUSES
<1>4. ASSUME NEW c \in BookingIds \ T
      PROVE  Same(c)
  <2>1. bookings'[c] = bookings[c]
    BY <1>1 DEF WithStatus
  <2>2. Unfinished(c) => slots'[bookings[c].slot] = slots[bookings[c].slot]
    <3> SUFFICES ASSUME Unfinished(c)
                 PROVE  slots'[bookings[c].slot] = slots[bookings[c].slot]
      OBVIOUS
    <3>1. Occupies(bookings[c], slots[bookings[c].slot])
      BY DEF ScheduleInv, VisitOwnsSlot
    <3>2. bookings[c].slot \in SlotKey
      BY StoredVisits, LiveIsStored DEF Unfinished
    <3>3. bookings[c].slot \notin Lapsed
      BY <1>2, <3>1 DEF Occupies, Lapsed, HoldExpired
    <3> QED
      BY <1>1, <3>2, <3>3
  <2> QED
    BY <1>1, <2>1, <2>2, SameVisit
<1>5. \A c \in BookingIds \ D : Same(c)
  BY <1>2, <1>3, <1>4, NoVisitSame
<1>6. \A c \in D : Unfinished(c) /\ ~Unfinished(c)'
  BY <1>2, <1>3
<1>7. agenda' = Promise!Without(gone)
  BY <1>2, <1>5, <1>6, AgendaLoses
<1>8. \A u \in gone : u \in Users /\ Promise!Lapsed(u)
  <2> SUFFICES ASSUME NEW c \in D
               PROVE  bookings[c].user \in Users /\ Promise!Lapsed(bookings[c].user)
    OBVIOUS
  <2>1. /\ bookings[c].user \in Users /\ agenda[bookings[c].user] = VisitOf(c)
        /\ VisitOf(c) \in Promise!Visit
    BY <1>2 DEF AgendaRead
  <2>2. slots[bookings[c].slot].held_until \in Int /\ now \in Nat
    BY <1>2 DEF Lapsed, ScheduleInv, TypeOK, SlotRow, NoTime
  <2>3. /\ bookings[c].status = "pending_payment"
        /\ slots[bookings[c].slot].held_until < now
    BY <1>2, <2>2 DEF IsPending, Lapsed, HoldExpired, NoTime
  <2>4. ~VisitOf(c).paid /\ VisitOf(c).until < now
    BY <2>3 DEF VisitOf
  <2> QED
    BY <2>1, <2>4 DEF Promise!Lapsed, Promise!Ahead
<1> HIDE DEF gone
<1>9. agenda' = Promise!Without({u \in Users : Promise!Lapsed(u) /\ agenda'[u] = Null})
  <2>1. \A u \in Users : agenda'[u] = IF u \in gone THEN Null ELSE agenda[u]
    BY <1>7 DEF Promise!Without
  <2>2. \A u \in Users : Promise!Lapsed(u) => agenda[u] # Null
    BY DEF Promise!Lapsed, Promise!Ahead
  <2>3. {u \in Users : Promise!Lapsed(u) /\ agenda'[u] = Null} = gone
    BY <1>8, <2>1, <2>2
  <2> QED
    BY <1>7, <2>3
<1> QED
  BY <1>1, <1>9 DEF Promise!Lapse

(* Time ends the visits whose last moment it passes.                       *)
LEMMA PassedVisits ==
  ASSUME ScheduleInv, AgendaRead, AgendaRead', Null \notin Promise!Visit, Tick
  PROVE  Promise!Pass
<1> DEFINE D == {b \in BookingIds : Unfinished(b) /\ VisitEnd(bookings[b]) <= now + 1}
           gone == {bookings[c].user : c \in D}
<1>1. now' = now + 1 /\ slots' = slots /\ bookings' = bookings /\ now \in Int
  BY DEF Tick, ScheduleInv, TypeOK
<1>2. \A c \in BookingIds : Unfinished(c) => VisitEnd(bookings[c]) \in Int
  BY StoredVisits, LiveIsStored, VisitStartType, DataAssumption
     DEF DataAssumption, Unfinished
<1>3. ASSUME NEW c \in BookingIds \ D
      PROVE  Same(c)
  <2>1. Unfinished(c)' <=> Unfinished(c)
    <3>1. CASE Unfinished(c)
      BY <1>1, <1>2, <3>1 DEF Unfinished
    <3>2. CASE ~Unfinished(c)
      <4>1. IsLive(bookings[c]) => VisitEnd(bookings[c]) \in Int
        BY StoredVisits, LiveIsStored, VisitStartType, DataAssumption
           DEF DataAssumption
      <4> QED
        BY <1>1, <3>2, <4>1 DEF Unfinished
    <3> QED
      BY <3>1, <3>2
  <2> QED
    BY <1>1, <2>1 DEF Same, VisitOf
<1>4. \A c \in D : Unfinished(c) /\ ~Unfinished(c)'
  BY <1>1, <1>2 DEF Unfinished
<1>5. D \in SUBSET BookingIds
  OBVIOUS
<1>6. ASSUME NEW u \in Users
      PROVE  u \in gone <=> Promise!Ahead(u) /\ agenda[u].end <= now + 1
  <2>1. CASE agenda[u] = Null
    <3>1. \A c \in D : bookings[c].user # u
      BY <2>1 DEF AgendaRead
    <3> QED
      BY <2>1, <3>1 DEF Promise!Ahead
  <2>2. CASE agenda[u] # Null
    <3>1. PICK c \in BookingIds : Unfinished(c) /\ bookings[c].user = u
      BY <2>2 DEF AgendaRead
    <3>2. agenda[u].end = VisitEnd(bookings[c])
      <4>1. agenda[u] = VisitOf(c)
        BY <3>1 DEF AgendaRead
      <4>2. VisitOf(c).end = VisitEnd(bookings[c])
        BY DEF VisitOf
      <4> QED
        BY <4>1, <4>2
    <3>3. \A d \in D : bookings[d].user = u => d = c
      BY <3>1 DEF Unfinished, ScheduleInv, OneLiveBooking, LiveSlotsApart, LiveUsersApart
    <3> QED
      BY <2>2, <3>1, <3>2, <3>3 DEF Promise!Ahead
  <2> QED
    BY <2>1, <2>2
<1>7. gone \subseteq Users
  BY DEF AgendaRead
<1> HIDE DEF D
<1>8. agenda' = Promise!Without(gone)
  BY <1>3, <1>4, <1>5, AgendaLoses
<1> HIDE DEF gone
<1>9. gone = {u \in Users : Promise!Ahead(u) /\ agenda[u].end <= now'}
  BY <1>1, <1>6, <1>7
<1> QED
  BY <1>1, <1>8, <1>9 DEF Promise!Pass

(* The visits of two clients are in different slots.                       *)
LEMMA SlotsApart ==
  ASSUME AgendaRead', OneLiveBooking',
         NEW u \in Users, NEW v \in Users, u # v,
         agenda'[u] # Null, agenda'[v] # Null
  PROVE  agenda'[v].slot # agenda'[u].slot
<1>1. PICK c \in BookingIds : Unfinished(c)' /\ bookings'[c].user = u
  BY DEF AgendaRead
<1>2. PICK d \in BookingIds : Unfinished(d)' /\ bookings'[d].user = v
  BY DEF AgendaRead
<1>3. bookings'[c].slot # bookings'[d].slot
  BY <1>1, <1>2 DEF OneLiveBooking, LiveSlotsApart, LiveUsersApart, Unfinished
<1>4. agenda'[u] = VisitOf(c)' /\ agenda'[v] = VisitOf(d)'
  BY <1>1, <1>2 DEF AgendaRead
<1>5. VisitOf(c)'.slot = bookings'[c].slot /\ VisitOf(d)'.slot = bookings'[d].slot
  BY DEF VisitOf
<1> QED
  BY <1>3, <1>4, <1>5

(* A move by the master gives the client another visit, or ends the one    *)
(* there is when the new slot is in the past (reschedule).                 *)
LEMMA MovedVisit ==
  ASSUME ScheduleInv, AgendaRead, AgendaRead', Null \notin Promise!Visit,
         NEW b \in BookingIds, NEW s \in SlotKey, Reschedule(b, s)
  PROVE  agenda' = agenda \/ \E u \in Users : Promise!Move(u) \/ Promise!Cancel(u)
<1> DEFINE taken == IF IsPending(bookings[b])
                    THEN HeldSlot(bookings[b].user, now + HoldLength)
                    ELSE BookedSlot
           u == bookings[b].user
<1>1. /\ bookings[b] # AbsentBooking /\ IsLive(bookings[b]) /\ Present(slots, s)
      /\ bookings[b].status # "cancelled"
  BY LiveIsStored DEF Reschedule, IsLive, LIVE_BOOKING_STATUSES
<1>2. ConsecutiveBlock(slots, s,
        SlotsNeeded(bookings[b].duration, StepForDay(s[1]))) = {s}
  <2>1. SlotsNeeded(DefaultStep, DefaultStep) = 1
    BY OneStepVisit, DataAssumption DEF DataAssumption
  <2> QED
    BY <1>1, <2>1, StoredVisits, OneSlotVisits, SlotKeyParts, OneSlotBlock
<1>3. FreeBlocks({b}) = [x \in SlotKey |-> IF x = bookings[b].slot
                                          THEN FreeSlot ELSE slots[x]]
  BY <1>1, FreedRows
<1>4. /\ slots' = [x \in SlotKey |-> IF x = s THEN taken
                                    ELSE IF x = bookings[b].slot THEN FreeSlot
                                    ELSE slots[x]]
      /\ bookings' = [bookings EXCEPT ![b].slot = s]
      /\ now' = now /\ OneLiveBooking'
  BY <1>2, <1>3, CallApart DEF Reschedule, Commit
<1>5. /\ bookings'[b].slot = s
      /\ bookings'[b].status = bookings[b].status
      /\ bookings'[b].user = bookings[b].user
      /\ bookings[b].user \in Users
      /\ \A c \in BookingIds \ {b} : bookings'[c] = bookings[c]
  BY <1>1, <1>4, StoredVisits DEF ScheduleInv, TypeOK, BookingRow
<1> HIDE DEF taken
<1>6. ASSUME NEW c \in BookingIds \ {b}
      PROVE  Same(c)
  <2>1. Unfinished(c) => slots'[bookings[c].slot] = slots[bookings[c].slot]
    <3> SUFFICES ASSUME Unfinished(c)
                 PROVE  slots'[bookings[c].slot] = slots[bookings[c].slot]
      OBVIOUS
    <3>1. bookings[c].slot # bookings[b].slot
      BY <1>1, SoleVisit
    <3>2. bookings[c].slot # s
      BY <1>1, <1>4, <1>5 DEF OneLiveBooking, LiveSlotsApart, LiveUsersApart, Unfinished, IsLive
    <3>3. bookings[c].slot \in SlotKey
      BY StoredVisits, LiveIsStored DEF Unfinished
    <3> QED
      BY <1>4, <3>1, <3>2, <3>3
  <2> QED
    BY <1>4, <1>5, <2>1, SameVisit
<1>7. CASE ~Unfinished(b)' /\ ~Unfinished(b)
  <2>1. \A c \in BookingIds : Same(c)
    BY <1>6, <1>7, NoVisitSame
  <2> QED
    BY <2>1, AgendaStays
<1>8. CASE ~Unfinished(b)' /\ Unfinished(b)
  <2>1. agenda' = Promise!Without({bookings[c].user : c \in {b}})
    BY <1>6, <1>8, AgendaLoses, {b} \in SUBSET BookingIds
  <2>2. {bookings[c].user : c \in {b}} = {bookings[b].user}
    OBVIOUS
  <2> QED
    BY <1>4, <1>5, <2>1, <2>2 DEF Promise!Cancel
<1>9. CASE Unfinished(b)'
  <2>1. /\ agenda'[u] = VisitOf(b)' /\ VisitOf(b)' \in Promise!Visit
        /\ VisitEnd(bookings'[b]) > now
    BY <1>4, <1>5, <1>9 DEF AgendaRead, Unfinished
  <2>2. agenda'[u] \in Promise!Visit /\ agenda'[u].end > now /\ agenda'[u] # Null
    BY <2>1 DEF VisitOf
  <2>3. ASSUME NEW v \in Users \ {u}
        PROVE  agenda'[v] = agenda[v]
    <3> DEFINE D == {}
               E == {b}
    <3>1. /\ D \in SUBSET BookingIds /\ E \in SUBSET BookingIds
          /\ \A c \in BookingIds \ (D \cup E) : Same(c)
          /\ \A c \in D : FALSE
          /\ \A c \in E : bookings[c].user # v /\ bookings'[c].user # v
      BY <1>5, <1>6
    <3> HIDE DEF D, E
    <3> QED
      BY <3>1, AgendaAfter
  <2>4. Promise!Enter(u, {})
    BY <1>4, <1>5, <2>2, <2>3, SlotsApart DEF Promise!Enter, Promise!Without
  <2>5. ASSUME Promise!Ahead(u)
        PROVE  agenda'[u].paid = agenda[u].paid
    <3>1. PICK c \in BookingIds : Unfinished(c) /\ bookings[c].user = u
      BY <1>5, <2>5 DEF AgendaRead, Promise!Ahead
    <3>2. c = b
      BY <1>1, <3>1 DEF Unfinished, ScheduleInv, OneLiveBooking, LiveSlotsApart, LiveUsersApart
    <3>3. agenda[u] = VisitOf(b)
      BY <3>1, <3>2 DEF AgendaRead
    <3>4. VisitOf(b)'.paid = VisitOf(b).paid
      BY <1>5 DEF VisitOf
    <3> QED
      BY <2>1, <3>3, <3>4
  <2> QED
    BY <1>5, <2>4, <2>5 DEF Promise!Move
<1> QED
  BY <1>7, <1>8, <1>9

(* A new hold puts its client on the agenda, in a slot that is free or     *)
(* whose hold has run out (hold_slot).                                     *)
LEMMA BookedOnAgenda ==
  ASSUME ScheduleInv, AgendaRead, AgendaRead', Null \notin Promise!Visit,
         NEW u \in Users, NEW s \in SlotKey, NEW b \in BookingIds,
         HoldSlot(u, s, b)
  PROVE  Promise!Book(u)
<1> DEFINE D == {c \in BookingIds \ {b} : Unfinished(c) /\ ~IsLive(bookings'[c])}
           E == {b}
           U == {v \in Users : Promise!Lapsed(v) /\ agenda'[v] = Null}
<1>1. /\ now' = now /\ OneLiveBooking'
      /\ bookings[b] = AbsentBooking
      /\ VisitStart(s) > now
      /\ LiveOf(u) \subseteq PastIds
      /\ bookings'[b] = PendingBooking(u, s, DefaultStep)
      /\ slots'[s] = HeldSlot(u, now + HoldLength)
  BY HoldEffect
<1>2. \A c \in BookingIds \ {b} :
        \/ /\ bookings'[c] = bookings[c]
           /\ Unfinished(c) =>
                slots'[bookings[c].slot] = slots[bookings[c].slot]
        \/ /\ ~IsLive(bookings'[c])
           /\ Unfinished(c) =>
                /\ IsPending(bookings[c])
                /\ slots[bookings[c].slot].held_until < now
  BY HoldEffect
<1>3. /\ now \in Nat /\ HoldLength \in Nat /\ DefaultStep \in Nat \ {0}
      /\ VisitStart(s) \in Nat
  BY VisitStartType, DataAssumption DEF DataAssumption, ScheduleInv, TypeOK
<1>4. /\ bookings'[b].status = "pending_payment" /\ bookings'[b].user = u
      /\ bookings'[b].slot = s /\ bookings'[b].duration = DefaultStep
      /\ slots'[s].held_until = now + HoldLength
  BY <1>1 DEF PendingBooking, HeldSlot
<1>5. Unfinished(b)' /\ ~Unfinished(b)
  BY <1>1, <1>3, <1>4, LiveIsStored
     DEF Unfinished, IsLive, LIVE_BOOKING_STATUSES, VisitEnd
<1>6. /\ D \in SUBSET BookingIds /\ E \in SUBSET BookingIds
      /\ \A c \in D : Unfinished(c) /\ ~Unfinished(c)'
  BY DEF Unfinished
<1>7. ASSUME NEW c \in BookingIds \ (D \cup E)
      PROVE  Same(c)
  <2>1. CASE IsLive(bookings'[c]) \/ bookings'[c] = bookings[c]
    BY <1>1, <1>2, <2>1, SameVisit
  <2>2. CASE ~IsLive(bookings'[c])
    BY <2>2, NoVisitSame DEF Unfinished
  <2> QED
    BY <2>1, <2>2
<1>8. ~Promise!Ahead(u)
  <2>1. ASSUME NEW c \in BookingIds, Unfinished(c), bookings[c].user = u
        PROVE  FALSE
    <3>1. VisitEnd(bookings[c]) \in Int
      BY <2>1, StoredVisits, LiveIsStored, VisitStartType, DataAssumption
         DEF DataAssumption, Unfinished
    <3> QED
      BY <1>1, <1>3, <2>1, <3>1 DEF LiveOf, LiveIds, PastIds, Unfinished
  <2> QED
    BY <2>1 DEF AgendaRead, Promise!Ahead
<1>9. agenda'[u] = VisitOf(b)' /\ VisitOf(b)' \in Promise!Visit
  BY <1>4, <1>5 DEF AgendaRead
<1>10. agenda'[u] \in Promise!Visit /\ agenda'[u].end > now /\ agenda'[u] # Null
  <2>1. VisitOf(b)'.end = VisitEnd(bookings'[b])
    BY DEF VisitOf
  <2> QED
    BY <1>1, <1>5, <1>9, <2>1 DEF Unfinished
<1>11. ~agenda'[u].paid /\ agenda'[u].until >= now
  <2>1. ~VisitOf(b)'.paid /\ VisitOf(b)'.until = now + HoldLength
    BY <1>4 DEF VisitOf
  <2> QED
    BY <1>3, <1>9, <2>1
<1> HIDE DEF U
<1>12. ASSUME NEW v \in Users \ {u}
       PROVE  agenda'[v] = Promise!Without(U)[v]
  <2>1. \A c \in E : /\ Unfinished(c) => bookings[c].user # v
                     /\ Unfinished(c)' => bookings'[c].user # v
    BY <1>4, <1>5
  <2> HIDE DEF E
  <2>2. CASE \A c \in D : bookings[c].user # v
    <3>1. agenda'[v] = agenda[v]
      <4> HIDE DEF D
      <4> QED
        BY <1>6, <1>7, <2>1, <2>2, AgendaAfter
    <3> QED
      BY <3>1 DEF Promise!Without, U
  <2>3. CASE \E c \in D : bookings[c].user = v
    <3>1. PICK c \in D : bookings[c].user = v
      BY <2>3
    <3>2. agenda'[v] = Null
      <4> HIDE DEF D
      <4> QED
        BY <1>6, <1>7, <2>1, <2>3, AgendaAfter
    <3>3. /\ Unfinished(c) /\ IsPending(bookings[c])
          /\ slots[bookings[c].slot].held_until < now
      <4>1. bookings'[c] # bookings[c] /\ c \in BookingIds \ {b} /\ Unfinished(c)
        BY <3>1 DEF Unfinished
      <4> QED
        BY <1>2, <4>1
    <3>4. agenda[v] = VisitOf(c) /\ VisitOf(c) \in Promise!Visit
      BY <3>1, <3>3 DEF AgendaRead
    <3>5. ~VisitOf(c).paid /\ VisitOf(c).until < now
      <4>1. bookings[c].status = "pending_payment"
        BY <3>3 DEF IsPending
      <4> QED
        BY <3>3, <4>1 DEF VisitOf
    <3>6. Promise!Lapsed(v)
      BY <3>4, <3>5 DEF Promise!Lapsed, Promise!Ahead
    <3> QED
      BY <3>2, <3>6 DEF Promise!Without, U
  <2> QED
    BY <2>2, <2>3
<1>13. Promise!Enter(u, U)
  BY <1>1, <1>10, <1>12, SlotsApart DEF Promise!Enter
<1> QED
  BY <1>8, <1>11, <1>13 DEF Promise!Book, U

(* A rebuilt grid, an open day or a closed slot is nobody's visit.         *)
LEMMA GridChanges ==
  ASSUME ScheduleInv, AgendaRead, AgendaRead', Null \notin Promise!Visit
  PROVE  /\ \A h \in Hours : SetWorkSettings(h) => agenda' = agenda
         /\ \A d \in Days : AddDayFromDefaults(d) => agenda' = agenda
         /\ \A d \in Days, h \in Hours : SetDayHours(d, h) => agenda' = agenda
         /\ \A d \in Days : ClearDayOverride(d) => agenda' = agenda
         /\ \A s \in SlotKey : ToggleSlotBlock(s) => agenda' = agenda
<1>1. ASSUME NEW h \in Hours, SetWorkSettings(h)
      PROVE  agenda' = agenda
  BY <1>1, GridKeepsAgenda DEF SetWorkSettings
<1>2. ASSUME NEW d \in Days, AddDayFromDefaults(d)
      PROVE  agenda' = agenda
  <2>1. \A s \in SlotKey : s[1] # d => slots'[s] = slots[s]
    BY <1>2 DEF AddDayFromDefaults
  <2>2. \A s \in SlotKey : s[1] = d => slots[s].status = "absent"
    BY <1>2 DEF AddDayFromDefaults, ScheduleInv, SlotOfOpenDay, Present
  <2>3. \A s \in SlotKey : slots[s].status \in BUSY_SLOT_STATUSES => slots'[s] = slots[s]
    BY <2>1, <2>2 DEF BUSY_SLOT_STATUSES
  <2> QED
    BY <1>2, <2>3, GridKeepsAgenda DEF AddDayFromDefaults
<1>3. ASSUME NEW d \in Days, NEW times, slots' = RebuildFreeSlots(d, times),
             UNCHANGED <<now, bookings>>
      PROVE  agenda' = agenda
  <2>1. \A s \in SlotKey : slots[s].status \in BUSY_SLOT_STATUSES => slots'[s] = slots[s]
    BY <1>3 DEF RebuildFreeSlots
  <2> QED
    BY <1>3, <2>1, GridKeepsAgenda
<1>4. ASSUME NEW s \in SlotKey, ToggleSlotBlock(s)
      PROVE  agenda' = agenda
  <2>1. \A x \in SlotKey : slots[x].status \in BUSY_SLOT_STATUSES => slots'[x] = slots[x]
    BY <1>4 DEF ToggleSlotBlock, BUSY_SLOT_STATUSES, ScheduleInv, TypeOK
  <2> QED
    BY <1>4, <2>1, GridKeepsAgenda DEF ToggleSlotBlock
<1> QED
  BY <1>1, <1>2, <1>3, <1>4 DEF SetDayHours, ClearDayOverride

(* Every step of the services is a step of the agenda, or none.            *)
LEMMA AgendaStep ==
  ASSUME ScheduleInv, AgendaRead, AgendaRead', Null \notin Promise!Visit,
         [Next]_vars
  PROVE  [Promise!Next]_<<now, agenda>>
<1>1. ASSUME agenda' = agenda, now' = now
      PROVE  [Promise!Next]_<<now, agenda>>
  BY <1>1
<1>2. ASSUME NEW b \in BookingIds, CancelBooking(b)
      PROVE  [Promise!Next]_<<now, agenda>>
  <2>1. agenda' = agenda \/ \E u \in Users : Promise!Cancel(u)
    BY <1>2, CancelledVisit DEF CancelBooking
  <2>2. now' = now
    BY <1>2 DEF CancelBooking, Commit
  <2> QED
    BY <2>1, <2>2, <1>1 DEF Promise!Next
<1>3. CASE ClientStep
  <2>1. ASSUME NEW u \in Users, OpenBookingForm(u)
        PROVE  [Promise!Next]_<<now, agenda>>
    <3>1. agenda' = agenda
      BY <2>1, SettledVisits DEF OpenBookingForm
    <3> QED
      BY <1>1, <2>1, <3>1 DEF OpenBookingForm, Commit
  <2>2. ASSUME NEW u \in Users, NEW s \in SlotKey, NEW b \in BookingIds,
               HoldSlot(u, s, b)
        PROVE  [Promise!Next]_<<now, agenda>>
    BY <2>2, BookedOnAgenda DEF Promise!Next
  <2>3. ASSUME NEW b \in BookingIds, ConfirmWithReceipt(b)
        PROVE  [Promise!Next]_<<now, agenda>>
    <3>1. agenda' = agenda \/ \E u \in Users : Promise!Pay(u)
      BY <2>3, PaidOnAgenda
    <3>2. now' = now
      BY <2>3 DEF ConfirmWithReceipt, Commit
    <3> QED
      BY <1>1, <3>1, <3>2 DEF Promise!Next
  <2>4. ASSUME NEW b \in BookingIds, ReceiptTooLate(b)
        PROVE  [Promise!Next]_<<now, agenda>>
    <3>1. agenda' = agenda \/ \E u \in Users : Promise!Cancel(u)
      BY <2>4, CancelledVisit DEF ReceiptTooLate, IsPending, AbsentBooking
    <3>2. now' = now
      BY <2>4 DEF ReceiptTooLate, Commit
    <3> QED
      BY <1>1, <3>1, <3>2 DEF Promise!Next
  <2>5. ASSUME NEW b \in BookingIds, AttachLateReceipt(b)
        PROVE  [Promise!Next]_<<now, agenda>>
    BY <1>1, <2>5, LateReceiptKeepsAgenda DEF AttachLateReceipt, Commit
  <2>6. ASSUME NEW b \in BookingIds, CancelByClient(b)
        PROVE  [Promise!Next]_<<now, agenda>>
    BY <1>2, <2>6 DEF CancelByClient
  <2> QED
    BY <1>3, <2>1, <2>2, <2>3, <2>4, <2>5, <2>6 DEF ClientStep
<1>4. CASE MasterStep
  <2>1. \/ \E h \in Hours : SetWorkSettings(h)
        \/ \E d \in Days : AddDayFromDefaults(d) \/ ClearDayOverride(d)
        \/ \E d \in Days, h \in Hours : SetDayHours(d, h)
        \/ \E s \in SlotKey : ToggleSlotBlock(s)
        => agenda' = agenda /\ now' = now
    BY GridChanges DEF SetWorkSettings, AddDayFromDefaults, SetDayHours,
       ClearDayOverride, ToggleSlotBlock
  <2>2. ASSUME NEW d \in Days, DeleteDay(d)
        PROVE  [Promise!Next]_<<now, agenda>>
    <3>1. agenda' = agenda /\ now' = now
      BY <2>2, DroppedDays DEF DeleteDay
    <3> QED
      BY <1>1, <3>1
  <2>3. ASSUME NEW b \in BookingIds, NEW s \in SlotKey, Reschedule(b, s)
        PROVE  [Promise!Next]_<<now, agenda>>
    <3>1. agenda' = agenda \/ \E u \in Users : Promise!Move(u) \/ Promise!Cancel(u)
      BY <2>3, MovedVisit
    <3>2. now' = now
      BY <2>3 DEF Reschedule, Commit
    <3> QED
      BY <1>1, <3>1, <3>2 DEF Promise!Next
  <2> QED
    BY <1>1, <1>2, <1>4, <2>1, <2>2, <2>3 DEF MasterStep
<1>5. CASE ReleaseExpiredHolds
  BY <1>5, SweptHolds DEF Promise!Next
<1>6. CASE SettlePastBookings
  <2> DEFINE due == {b \in PastIds : bookings[b].slot[1] <= Today(now)}
  <2>1. due \subseteq PastIds /\ Commit(FreeBlocks(due), Settle(due))
    BY <1>6 DEF SettlePastBookings
  <2> HIDE DEF due
  <2>2. agenda' = agenda
    BY <2>1, SettledVisits
  <2> QED
    BY <1>1, <2>1, <2>2 DEF Commit
<1>7. CASE PurgePastDays
  <2> DEFINE D == {d \in days : /\ d < Today(now)
                                /\ \A s \in SlotKey : s[1] = d => ~Referenced(s)}
  <2>1. DropDays(D)
    BY <1>7 DEF PurgePastDays
  <2>2. \A s \in SlotKey : slots[s].status \in BUSY_SLOT_STATUSES => Referenced(s)
    BY OccupiedRow, LiveIsStored DEF ScheduleInv, BusySlotOwned, Referenced
  <2>3. \A s \in SlotKey : s[1] \in D => slots[s].status \notin BUSY_SLOT_STATUSES
    BY <2>2
  <2> HIDE DEF D
  <2>4. agenda' = agenda /\ now' = now
    BY <2>1, <2>3, DroppedDays
  <2> QED
    BY <1>1, <2>4
<1>8. CASE Tick
  BY <1>8, PassedVisits DEF Promise!Next
<1>9. CASE UNCHANGED vars
  <2>1. \A c \in BookingIds : Same(c)
    BY <1>9 DEF vars, Same, Unfinished, VisitOf
  <2>2. agenda' = agenda
    BY <2>1, AgendaStays
  <2> QED
    BY <1>1, <1>9, <2>2 DEF vars
<1> QED
  BY <1>3, <1>4, <1>5, <1>6, <1>7, <1>8, <1>9 DEF Next, SchedulerStep

(* An empty database is an empty agenda.                                   *)
LEMMA AgendaInit == Init => Promise!Init
<1> SUFFICES ASSUME Init PROVE Promise!Init
  OBVIOUS
<1>1. \A u \in Users : Upcoming(u) = {}
  BY DEF Init, Upcoming, LiveOf, LiveIds, IsLive, LIVE_BOOKING_STATUSES, AbsentBooking
<1>2. agenda = [u \in Users |-> Null]
  BY <1>1 DEF agenda
<1> QED
  BY <1>2 DEF Init, Promise!Init

(* Every call and every sweep changes the agenda as the salon promises:    *)
(* a visit comes, moves and goes for the reasons Agenda gives, and to the  *)
(* clients it names.                                                       *)
THEOREM AgendaImplemented ==
  ASSUME IndexesBuilt, InitialSteps = {DefaultStep}, Null \notin Promise!Visit
  PROVE  Spec => AgendaKept
<1>1. ScheduleInv => AgendaRead
  BY AgendaIs
<1>2. ASSUME ScheduleInv, AgendaRead, AgendaRead', [Next]_vars
      PROVE  [Promise!Next]_<<now, agenda>>
  BY <1>2, AgendaStep
<1>3. Init => Promise!Init
  BY AgendaInit
<1> QED
  BY <1>1, <1>2, <1>3, ScheduleInvariant, PTL DEF Spec, AgendaKept, Promise!Spec

(* Everything that calls one at a time keep.                               *)
ServiceKept ==
  /\ []ScheduleInv
  /\ []BusySlotHasBooking
  /\ []HoldMeetsNoIndex
  /\ PaidVisitKept
  /\ HoldRespected
  /\ AgendaKept

(* All of it together, for the programs built on these calls: they keep    *)
(* what every history of whole calls keeps.                                *)
THEOREM ServicesKeepAll ==
  ASSUME IndexesBuilt, InitialSteps = {DefaultStep}, Null \notin Promise!Visit
  PROVE  Spec => ServiceKept
BY ScheduleInvariant, NoSlotLeaks, HoldsMeetNoIndex, PaidVisitsAreKept,
   HoldsAreRespected, AgendaImplemented, PTL DEF ServiceKept
=============================================================================
