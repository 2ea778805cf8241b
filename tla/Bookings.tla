------------------------------ MODULE Bookings ------------------------------
(***************************************************************************)
(* ScheduleService and BookingService (src/services/schedule_service.py)   *)
(* when every method runs alone: one action is one service call, from the  *)
(* session it opens to the commit that ends it.  The calls come from the   *)
(* client and admin handlers and from the scheduler jobs.  A call that     *)
(* raises a domain error commits nothing, so it is an action that is not   *)
(* enabled; the one error path that does commit, a receipt for a lapsed    *)
(* hold, is an action of its own.                                          *)
(*                                                                         *)
(* BookingRaces splits the calls into their reads and their commits.       *)
(***************************************************************************)
EXTENDS SalonData

CONSTANTS
  Hours,         \* pairs <<open, close>> the master may enter
  InitialSteps,  \* slot_minutes the settings row may hold at start
  Horizon        \* bound on the clock

ASSUME ScheduleAssumption ==
  /\ \A h \in Hours : h \in Starts \X Nat /\ h[1] < h[2]
  /\ InitialSteps \subseteq Nat \ {0}
  /\ Horizon \in Nat

VARIABLES
  now,            \* the bot clock
  work_settings,  \* the work_settings row: open, close, step
  days,           \* days with a working_days row
  day_step,       \* working_days.slot_minutes, 0 for NULL
  slots,
  bookings

vars == <<now, work_settings, days, day_step, slots, bookings>>
schedule == <<work_settings, days, day_step>>

TypeOK ==
  /\ now \in Nat
  /\ work_settings \in [open : Nat, close : Nat, step : Nat \ {0}]
  /\ days \subseteq Days
  /\ day_step \in [Days -> Nat]
  /\ slots \in [SlotKey -> SlotRow]
  /\ bookings \in [BookingIds -> BookingRow \cup {AbsentBooking}]

-----------------------------------------------------------------------------
(***************************************************************************)
(* Helpers of the services.                                                *)
(***************************************************************************)
StepForDay(d) ==
  IF day_step[d] # 0 THEN day_step[d] ELSE work_settings.step

(* _block_slots: the slots a booking occupies, by today's grid and step.   *)
BlockSlots(row) ==
  ConsecutiveBlock(slots, row.slot,
                   SlotsNeeded(row.duration, StepForDay(row.slot[1])))

LiveIds == {b \in BookingIds : IsLive(bookings[b])}
LiveOf(u) == {b \in LiveIds : bookings[b].user = u}
PastIds == {b \in LiveIds : VisitEnd(bookings[b]) <= now}

(* _free_block for every booking of B.                                     *)
FreeBlocks(B) ==
  [s \in SlotKey |->
     IF \E b \in B : s \in BlockSlots(bookings[b]) THEN FreeSlot ELSE slots[s]]

WithStatus(bk, B, status) ==
  [b \in BookingIds |->
     IF b \in B THEN [bk[b] EXCEPT !.status = status] ELSE bk[b]]

(* A finished visit is completed; one that was never paid is cancelled.    *)
Settle(B) ==
  [b \in BookingIds |->
     IF b \in B
     THEN [bookings[b] EXCEPT
             !.status = IF @ = "active" THEN "completed" ELSE "cancelled"]
     ELSE bookings[b]]

(* free_slots_for_day and list_days_with_free_slots: what a form may offer. *)
FreeSlotsOf(d) ==
  {s \in SlotKey : s[1] = d /\ IsBookableSlot(slots[s], s, now)}
FreeDays == {d \in days : d >= Today(now) /\ FreeSlotsOf(d) # {}}

CommitWithoutIndexes(sl, bk) ==   \* mutant: init_db never created the indexes
  /\ slots' = sl
  /\ bookings' = bk
  /\ UNCHANGED <<now, schedule>>

(* The commit fails, and the call with it, when an index that was built is *)
(* violated.                                                               *)
Commit(sl, bk) ==
  /\ UniqueLiveIndexes(bk)
  /\ slots' = sl
  /\ bookings' = bk
  /\ UNCHANGED <<now, schedule>>

-----------------------------------------------------------------------------
(***************************************************************************)
(* The client.                                                             *)
(***************************************************************************)

(* user_has_active_booking, called when the booking form is opened.        *)
OpenBookingForm(u) ==
  LET past == LiveOf(u) \cap PastIds IN
  /\ past # {}
  /\ Commit(FreeBlocks(past), Settle(past))

(* hold_slot, after _settle_user_past closed the visits of u that are     *)
(* over.  No caller passes a duration, so a visit lasts one step.          *)
PastOf(u) == LiveOf(u) \cap PastIds

HoldBlock(s) ==
  LET step == StepForDay(s[1])
  IN ConsecutiveBlock(slots, s, SlotsNeeded(step, step))

MayHoldBesidePaid(u, s, b) ==   \* mutant: only a pending booking is in the way
  LET step == StepForDay(s[1])
      freed == FreeBlocks(PastOf(u))
  IN
  /\ bookings[b] = AbsentBooking
  /\ \A c \in LiveOf(u) \ PastIds : ~IsPending(bookings[c])
  /\ Present(slots, s) /\ s[1] >= Today(now)
  /\ Cardinality(HoldBlock(s)) = SlotsNeeded(step, step)
  /\ \A x \in HoldBlock(s) : IsBookableSlot(freed[x], x, now)

MayHold(u, s, b) ==
  LET step == StepForDay(s[1])
      freed == FreeBlocks(PastOf(u))
  IN
  /\ bookings[b] = AbsentBooking
  /\ LiveOf(u) \subseteq PastIds
  /\ Present(slots, s) /\ s[1] >= Today(now)
  /\ Cardinality(HoldBlock(s)) = SlotsNeeded(step, step)
  /\ \A x \in HoldBlock(s) : IsBookableSlot(freed[x], x, now)

(* A prepayment that was never paid loses the slot to the new one.         *)
BookingsWithHold(u, s, b) ==
  LET settled == Settle(PastOf(u))
      stale == {c \in BookingIds :
                  IsPending(settled[c]) /\ settled[c].slot \in HoldBlock(s)}
  IN [WithStatus(settled, stale, "cancelled")
        EXCEPT ![b] = PendingBooking(u, s, StepForDay(s[1]))]

HoldSlot(u, s, b) ==
  /\ MayHold(u, s, b)
  /\ Commit([x \in SlotKey |->
               IF x \in HoldBlock(s) THEN HeldSlot(u, now + HoldLength)
               ELSE FreeBlocks(PastOf(u))[x]],
            BookingsWithHold(u, s, b))

(* confirm_with_receipt, called with the booking of the client's own form  *)
(* or with the one find_receipt_target returns.                            *)
HoldStands(b) ==
  LET slot == slots[bookings[b].slot] IN
  /\ slot.status = "held"
  /\ slot.held_by = bookings[b].user
  /\ slot.held_until # NoTime /\ slot.held_until >= now

ConfirmWithReceipt(b) ==
  /\ IsPending(bookings[b])
  /\ HoldStands(b)
  /\ Commit([s \in SlotKey |->
               IF s \in BlockSlots(bookings[b]) THEN BookedSlot ELSE slots[s]],
            [bookings EXCEPT ![b].status = "active", ![b].receipt = TRUE])

ReceiptTooLateKeepsSlot(b) ==   \* mutant: the slot is not given back
  /\ IsPending(bookings[b])
  /\ ~HoldStands(b)
  /\ Commit(slots, WithStatus(bookings, {b}, "cancelled"))

(* The same call when the hold has lapsed: it cancels, frees and raises.   *)
ReceiptTooLate(b) ==
  /\ IsPending(bookings[b])
  /\ ~HoldStands(b)
  /\ Commit(FreeBlocks({b}), WithStatus(bookings, {b}, "cancelled"))

(* attach_late_receipt, on the cancelled booking find_receipt_target found. *)
AttachLateReceipt(b) ==
  /\ bookings[b].status = "cancelled"
  /\ \A c \in LiveOf(bookings[b].user) : ~IsPending(bookings[c])
  /\ ~bookings[b].receipt
  /\ Commit(slots, [bookings EXCEPT ![b].receipt = TRUE])

(* cancel_booking: the admin's button and the "cancel" of the client's     *)
(* form, which carries whatever booking id the form remembers.             *)
CancelBooking(b) ==
  /\ bookings[b] # AbsentBooking
  /\ bookings[b].status # "cancelled"
  /\ Commit(FreeBlocks({b}), WithStatus(bookings, {b}, "cancelled"))

(* cancel_by_client: live, and a paid visit only a day ahead.              *)
CancelByClient(b) ==
  /\ IsLive(bookings[b])
  /\ \/ bookings[b].status # "active"
     \/ VisitStart(bookings[b].slot) - now >= CancelCutoff
  /\ CancelBooking(b)

-----------------------------------------------------------------------------
(***************************************************************************)
(* The master.                                                             *)
(***************************************************************************)
(* parse_hours_message ignores a typed step: DefaultStep is all it returns. *)
SetWorkSettings(h) ==
  /\ work_settings' = [open |-> h[1], close |-> h[2], step |-> DefaultStep]
  /\ UNCHANGED <<now, days, day_step, slots, bookings>>

AddDayFromDefaults(d) ==
  LET times == GridTimes(work_settings.open, work_settings.close,
                         work_settings.step)
  IN
  /\ d \notin days /\ d >= Today(now)
  /\ times # {}
  /\ days' = days \cup {d}
  /\ slots' = [s \in SlotKey |->
                 IF s[1] = d /\ s[2] \in times THEN FreeSlot ELSE slots[s]]
  /\ UNCHANGED <<now, work_settings, day_step, bookings>>

RebuildAllSlots(d, times) ==   \* mutant: slots with bookings are not spared
  [s \in SlotKey |->
     CASE s[1] # d -> slots[s]
       [] s[1] = d /\ s[2] \in times -> FreeSlot
       [] OTHER -> AbsentSlot]

(* _rebuild_free_slots.  Busy and closed rows stay as they are; a row with *)
(* any booking behind it stays too, closed when the new grid lacks it.     *)
Referenced(s) ==
  \E b \in BookingIds : bookings[b] # AbsentBooking /\ bookings[b].slot = s

RebuildFreeSlots(d, times) ==
  LET kept(s) == slots[s].status \in BUSY_SLOT_STATUSES \cup {"blocked"} IN
  [s \in SlotKey |->
     CASE s[1] # d \/ kept(s) -> slots[s]
       [] s[1] = d /\ ~kept(s) /\ Present(slots, s) /\ Referenced(s) ->
            IF s[2] \in times THEN slots[s]
            ELSE [slots[s] EXCEPT !.status = "blocked"]
       [] OTHER -> IF s[2] \in times THEN FreeSlot ELSE AbsentSlot]

SetDayHours(d, h) ==
  /\ d \in days
  /\ day_step' = [day_step EXCEPT ![d] = DefaultStep]
  /\ slots' = RebuildFreeSlots(d, GridTimes(h[1], h[2], DefaultStep))
  /\ UNCHANGED <<now, work_settings, days, bookings>>

ClearDayOverride(d) ==
  /\ d \in days
  /\ day_step' = [day_step EXCEPT ![d] = 0]
  /\ slots' = RebuildFreeSlots(d, GridTimes(work_settings.open,
                                            work_settings.close,
                                            work_settings.step))
  /\ UNCHANGED <<now, work_settings, days, bookings>>

DropDays(D) ==
  /\ days' = days \ D
  /\ day_step' = [d \in Days |-> IF d \in D THEN 0 ELSE day_step[d]]
  /\ slots' = [s \in SlotKey |-> IF s[1] \in D THEN AbsentSlot ELSE slots[s]]
  /\ bookings' = [b \in BookingIds |->
                    IF bookings[b] # AbsentBooking /\ bookings[b].slot[1] \in D
                    THEN AbsentBooking ELSE bookings[b]]
  /\ UNCHANGED <<now, work_settings>>

DeleteDay(d) ==
  /\ d \in days
  /\ \A s \in SlotKey : s[1] = d => slots[s].status \notin BUSY_SLOT_STATUSES
  /\ DropDays({d})

ToggleSlotBlock(s) ==
  /\ slots[s].status \in {"free", "blocked"}
  /\ slots' = [slots EXCEPT ![s].status =
                 IF @ = "free" THEN "blocked" ELSE "free"]
  /\ UNCHANGED <<now, schedule, bookings>>

RescheduleWithoutRelease(b, s) ==   \* mutant: the old slot stays taken
  LET row == bookings[b]
      block == ConsecutiveBlock(slots, s,
                 SlotsNeeded(row.duration, StepForDay(s[1])))
      taken == IF IsPending(row) THEN HeldSlot(row.user, now + HoldLength)
               ELSE BookedSlot
  IN
  /\ IsLive(row)
  /\ \A x \in block : IsEffectivelyFree(slots[x], now)
  /\ block # {}
  /\ Commit([x \in SlotKey |-> IF x \in block THEN taken ELSE slots[x]],
            [bookings EXCEPT ![b].slot = s])

(* reschedule.  The master's screen offers future slots only, but the tap  *)
(* may come late: the call itself never looks at the time of the new slot. *)
Reschedule(b, s) ==
  LET row == bookings[b]
      need == SlotsNeeded(row.duration, StepForDay(s[1]))
      block == ConsecutiveBlock(slots, s, need)
      freed == FreeBlocks({b})
      taken == IF IsPending(row) THEN HeldSlot(row.user, now + HoldLength)
               ELSE BookedSlot
  IN
  /\ IsLive(row)
  /\ Present(slots, s)
  /\ Cardinality(block) = need
  /\ \A x \in block : \/ IsEffectivelyFree(slots[x], now)
                      \/ x \in BlockSlots(row)
  /\ Commit([x \in SlotKey |-> IF x \in block THEN taken ELSE freed[x]],
            [bookings EXCEPT ![b].slot = s])

-----------------------------------------------------------------------------
(***************************************************************************)
(* The scheduler jobs.                                                     *)
(***************************************************************************)
Lapsed == {s \in SlotKey : HoldExpired(slots[s], now)}

ReleaseWhenAllLapsed ==   \* mutant: one standing hold stops the sweep
  /\ Lapsed # {}
  /\ \A s \in SlotKey : slots[s].status = "held" => s \in Lapsed
  /\ Commit([s \in SlotKey |-> IF s \in Lapsed THEN FreeSlot ELSE slots[s]],
            WithStatus(bookings,
                       {b \in BookingIds : /\ IsPending(bookings[b])
                                           /\ bookings[b].slot \in Lapsed},
                       "cancelled"))

ReleaseExpiredHolds ==
  LET pending == {b \in BookingIds :
                    IsPending(bookings[b]) /\ bookings[b].slot \in Lapsed}
  IN
  /\ Lapsed # {}
  /\ Commit([s \in SlotKey |-> IF s \in Lapsed THEN FreeSlot ELSE slots[s]],
            WithStatus(bookings, pending, "cancelled"))

SettleEarly ==   \* mutant: a visit is closed when it starts
  LET due == {b \in LiveIds : VisitStart(bookings[b].slot) <= now} IN
  /\ due # {}
  /\ Commit(FreeBlocks(due), Settle(due))

SettleYesterday ==   \* mutant: today's visits wait for the next day
  LET due == {b \in PastIds : bookings[b].slot[1] < Today(now)} IN
  /\ due # {}
  /\ Commit(FreeBlocks(due), Settle(due))

SettlePastBookings ==
  LET due == {b \in PastIds : bookings[b].slot[1] <= Today(now)} IN
  /\ due # {}
  /\ Commit(FreeBlocks(due), Settle(due))

PurgePastDays ==
  LET empty == {d \in days : /\ d < Today(now)
                             /\ \A s \in SlotKey : s[1] = d => ~Referenced(s)}
  IN empty # {} /\ DropDays(empty)

Tick == now < Horizon /\ now' = now + 1 /\ UNCHANGED <<schedule, slots, bookings>>

-----------------------------------------------------------------------------
(* An empty database: init_db seeds the settings row and nothing else.     *)
Init ==
  /\ now = 0
  /\ \E h \in Hours, step \in InitialSteps :
       work_settings = [open |-> h[1], close |-> h[2], step |-> step]
  /\ days = {}
  /\ day_step = [d \in Days |-> 0]
  /\ slots = [s \in SlotKey |-> AbsentSlot]
  /\ bookings = [b \in BookingIds |-> AbsentBooking]

ClientStep ==
  \/ \E u \in Users : OpenBookingForm(u)
  \/ \E u \in Users, s \in SlotKey, b \in BookingIds : HoldSlot(u, s, b)
  \/ \E b \in BookingIds : ConfirmWithReceipt(b)
  \/ \E b \in BookingIds : ReceiptTooLate(b)
  \/ \E b \in BookingIds : AttachLateReceipt(b)
  \/ \E b \in BookingIds : CancelByClient(b)

MasterStep ==
  \/ \E h \in Hours : SetWorkSettings(h)
  \/ \E d \in Days : AddDayFromDefaults(d)
  \/ \E d \in Days, h \in Hours : SetDayHours(d, h)
  \/ \E d \in Days : ClearDayOverride(d)
  \/ \E d \in Days : DeleteDay(d)
  \/ \E s \in SlotKey : ToggleSlotBlock(s)
  \/ \E b \in BookingIds : CancelBooking(b)
  \/ \E b \in BookingIds, s \in SlotKey : Reschedule(b, s)

SchedulerStep ==
  \/ ReleaseExpiredHolds
  \/ SettlePastBookings
  \/ PurgePastDays

Next == Tick \/ ClientStep \/ MasterStep \/ SchedulerStep

Spec == Init /\ [][Next]_vars

(***************************************************************************)
(* The jobs run at fixed intervals for as long as the process lives, and a *)
(* job that fails is run again at the next one (_guarded), so a sweep that *)
(* stays enabled is eventually taken.  Nobody has to press a button.       *)
(***************************************************************************)
FairSpec ==
  /\ Spec
  /\ WF_vars(Tick)
  /\ WF_vars(ReleaseExpiredHolds)
  /\ WF_vars(SettlePastBookings)

-----------------------------------------------------------------------------
(***************************************************************************)
(* Safety.                                                                 *)
(***************************************************************************)
Unfinished(b) == IsLive(bookings[b]) /\ VisitEnd(bookings[b]) > now

(* A client has one live booking at most, even where init_db could not     *)
(* build uq_live_booking_user: the checks of hold_slot see to it, as long  *)
(* as settling, cancelling and moving never bring a booking back to life.  *)
OneLivePerClient == LiveUsersApart(bookings)

(* The indexes are there for calls that overlap: one call at a time they   *)
(* never refuse the hold of a slot the client was offered, since no stale  *)
(* row is left to "wrongly block the client" (_settle_user_past).  It      *)
(* breaks if a row is bookable while a live booking of it is not over, or  *)
(* if the checks leave the client another live booking.                    *)
HoldMeetsNoIndex ==
  \A u \in Users, s \in SlotKey, b \in BookingIds :
    MayHold(u, s, b) => UniqueLiveIndexes(BookingsWithHold(u, s, b))

(* A client whose visit is not over occupies its slot row.  It breaks if   *)
(* any of the cancellations, sweeps, rebuilds or moves frees a row that    *)
(* has meanwhile been given to somebody else.                              *)
VisitOwnsSlot ==
  \A b \in BookingIds :
    Unfinished(b) => Occupies(bookings[b], slots[bookings[b].slot])

(* No slot leaks: a busy row always has the live booking that will free    *)
(* it.  A leaked row can neither be offered, closed nor deleted again.     *)
BusySlotHasBooking ==
  \A s \in SlotKey :
    slots[s].status \in BUSY_SLOT_STATUSES =>
      \E b \in BookingIds :
        Occupies(bookings[b], slots[s]) /\ s \in BlockSlots(bookings[b])

(***************************************************************************)
(* The inductive strengthening of the safety invariants, for a database    *)
(* with both indexes whose steps are all DefaultStep, the only one the     *)
(* present code writes.                                                    *)
(***************************************************************************)

(* Only the index stops reschedule from moving a booking onto a lapsed     *)
(* hold whose own booking is still pending.                                *)
OneLiveBooking == LiveSlotsApart(bookings) /\ LiveUsersApart(bookings)

UniformStep ==
  /\ work_settings.step = DefaultStep
  /\ \A d \in Days : day_step[d] \in {0, DefaultStep}
  /\ \A b \in BookingIds :
       bookings[b] # AbsentBooking => bookings[b].duration = DefaultStep

(* One foreign key: no slot row goes while a booking refers to it.         *)
BookingKeepsRow ==
  \A b \in BookingIds :
    bookings[b] # AbsentBooking => Present(slots, bookings[b].slot)

(* The other one: no slot row without its working_days row.                *)
SlotOfOpenDay == \A s \in SlotKey : Present(slots, s) => s[1] \in days

CompletedIsOver ==
  \A b \in BookingIds :
    bookings[b].status = "completed" => VisitEnd(bookings[b]) <= now

(* BusySlotHasBooking, with the block of a one-step visit spelt out.       *)
BusySlotOwned ==
  \A s \in SlotKey :
    slots[s].status \in BUSY_SLOT_STATUSES =>
      \E b \in BookingIds :
        Occupies(bookings[b], slots[s]) /\ bookings[b].slot = s

(* Every booking has its slot row, a completed visit is over, a visit that *)
(* is not over owns its row and a busy row has its owner.  A cancellation  *)
(* may free the row of a completed visit, so ownership can only be claimed *)
(* for visits that are not over, and completion must mean over.            *)
ScheduleInv ==
  /\ TypeOK
  /\ IndexesBuilt
  /\ OneLiveBooking
  /\ UniformStep
  /\ BookingKeepsRow
  /\ SlotOfOpenDay
  /\ CompletedIsOver
  /\ BusySlotOwned
  /\ VisitOwnsSlot

(* What the tables promise: the agenda of the salon, as seen by its        *)
(* clients.  A finished visit has left it, settled or not.                 *)
Upcoming(u) == {b \in LiveOf(u) : Unfinished(b)}

VisitOf(b) ==
  [slot |-> bookings[b].slot, end |-> VisitEnd(bookings[b]),
   paid |-> bookings[b].status = "active",
   until |-> IF bookings[b].status = "active" THEN NoTime
             ELSE slots[bookings[b].slot].held_until]

agenda ==
  [u \in Users |-> IF Upcoming(u) = {} THEN Null
                   ELSE VisitOf(CHOOSE b \in Upcoming(u) : TRUE)]

Promise == INSTANCE Agenda WITH Slots <- SlotKey, NoVisit <- Null

(* Every call and every sweep is one of the changes the agenda allows, to  *)
(* the visits of the clients it names and to nobody else's.                *)
AgendaKept == Promise!Spec

(* A paid visit that is not over stays active whatever anyone else does,   *)
(* until somebody cancels that very booking.                               *)
PaidVisitKept ==
  [][\A b \in BookingIds :
       Unfinished(b) /\ bookings[b].status = "active"
         => bookings'[b].status = "active" \/ CancelBooking(b)]_vars

(* A hold is respected until its last moment: neither the sweep, nor       *)
(* another client, nor a change of hours takes it away; only a             *)
(* cancellation of that booking, a receipt or a move by the master.        *)
HoldRespected ==
  [][\A b \in BookingIds :
       /\ IsPending(bookings[b])
       /\ slots[bookings[b].slot].held_until >= now
       /\ Unfinished(b)
       => \/ bookings'[b].status \in LIVE_BOOKING_STATUSES
          \/ CancelBooking(b)]_vars

(***************************************************************************)
(* Liveness, under FairSpec.                                               *)
(***************************************************************************)

(* A lapsed hold does not keep a slot or a client for ever.                *)
LapsedHoldReleased ==
  \A s \in SlotKey : (s \in Lapsed) ~> (s \notin Lapsed)

(* A finished visit is eventually closed and stops counting against the    *)
(* one-live-booking rule of its client.                                    *)
FinishedVisitSettled ==
  \A b \in BookingIds : (b \in PastIds) ~> (b \notin PastIds)
=============================================================================
