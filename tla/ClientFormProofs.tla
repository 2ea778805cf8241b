-------------------------- MODULE ClientFormProofs --------------------------
(***************************************************************************)
(* The booking form implements the services it calls, so the theorems of   *)
(* BookingsProofs hold of the bot with its forms; and a form reaches       *)
(* nobody else's booking, except one that has usurped the id of a deleted  *)
(* one, which needs a database that hands ids out again.                   *)
(***************************************************************************)
EXTENDS ClientForm, BookingsProofs

(* The calls of the handlers, but for a hold.                              *)
FormCall ==
  \/ UNCHANGED vars
  \/ \E u \in Users : OpenBookingForm(u)
  \/ \E b \in BookingIds :
       \/ ConfirmWithReceipt(b) \/ ReceiptTooLate(b)
       \/ AttachLateReceipt(b) \/ CancelByClient(b) \/ CancelBooking(b)

(* Every step of Bookings but a hold, or none at all.                      *)
OtherCall == FormCall \/ Tick \/ MasterStep \/ SchedulerStep

SomeChooseTime ==
  \E u \in Users, s \in SlotKey, b \in BookingIds : ChooseTime(u, s, b)

(* Every handler makes at most one service call; only the choice of a time *)
(* makes a hold.                                                           *)
LEMMA HandlersMakeOneCall ==
  ASSUME NEW u \in Users, FormStep(u), ~SomeChooseTime
  PROVE  FormCall
<1> USE DEF FormCall
<1>1. CASE BookEntry(u)
  BY <1>1 DEF BookEntry
<1>2. CASE LateReceipt(u)
  <2>1. PICK b \in BookingIds : AttachLateReceipt(b)
    BY <1>2 DEF LateReceipt, Newest, Rows
  <2> QED
    BY <2>1
<1>3. CASE ReceiptConfirmed(u)
  <2>1. paying[u].booking \in BookingIds
    BY <1>3 DEF ReceiptConfirmed, OwnBooking, Rows
  <2> QED
    BY <1>3, <2>1 DEF ReceiptConfirmed
<1>4. CASE ReceiptRefused(u)
  BY <1>4 DEF ReceiptRefused, OwnBooking, Rows
<1>5. CASE LeaveForm(u)
  BY <1>5 DEF LeaveForm, Rows
<1>6. ASSUME NEW b \in BookingIds, ClientCancelYes(u, b)
      PROVE  FormCall
  BY <1>6 DEF ClientCancelYes
<1>7. ASSUME NEW step, GoBack(u, step)
      PROVE  FormCall
  BY <1>7 DEF GoBack
<1>8. CASE \/ EnterName(u) \/ EnterPhone(u) \/ ResetForm(u)
           \/ BookingReceipt(u) \/ ReceiptRecovered(u)
           \/ ReceiptAnswered(u) \/ ForgetForm(u)
           \/ \E d \in Days : ChooseDay(u, d)
  BY <1>8 DEF EnterName, EnterPhone, ResetForm, BookingReceipt,
     ReceiptRecovered, StartPaying, ReceiptAnswered, ForgetForm, ChooseDay
<1> QED
  BY <1>1, <1>2, <1>3, <1>4, <1>5, <1>6, <1>7, <1>8 DEF FormStep, SomeChooseTime

LEMMA StepsMakeOneCall ==
  ASSUME [FormNext]_allVars, ~SomeChooseTime
  PROVE  OtherCall
<1>1. CASE UNCHANGED allVars \/ Restart
  BY <1>1 DEF allVars, Restart, OtherCall, FormCall
<1>2. CASE Tick \/ MasterStep \/ SchedulerStep
  BY <1>2 DEF OtherCall
<1>3. CASE \E u \in Users : FormStep(u)
  BY <1>3, HandlersMakeOneCall DEF OtherCall
<1> QED
  BY <1>1, <1>2, <1>3 DEF FormNext

(* So every step of the bot is a step of the service, or leaves it alone.  *)
LEMMA FormStepIsServiceStep == [FormNext]_allVars => [Next]_vars
<1> SUFFICES ASSUME [FormNext]_allVars PROVE [Next]_vars
  OBVIOUS
<1>1. CASE SomeChooseTime
  BY <1>1 DEF SomeChooseTime, ChooseTime, Next, ClientStep
<1>2. CASE ~SomeChooseTime
  <2>1. OtherCall
    BY <1>2, StepsMakeOneCall
  <2> QED
    BY <2>1 DEF OtherCall, FormCall, Next, ClientStep, MasterStep
<1> QED
  BY <1>1, <1>2

(* The bot with its forms, restarts and buttons of old screens implements  *)
(* the bookings service: no handler changes a table but by a service call. *)
THEOREM FormImplementsService == FormSpec => Spec
<1>1. FormInit => Init
  BY DEF FormInit
<1> QED
  BY <1>1, FormStepIsServiceStep, PTL DEF FormSpec, Spec

(* So the schedule stays consistent whatever is tapped in whatever order.  *)
THEOREM FormKeepsSchedule ==
  ASSUME IndexesBuilt, InitialSteps = {DefaultStep}
  PROVE  FormSpec => []ScheduleInv
  BY FormImplementsService, ScheduleInvariant, PTL

-----------------------------------------------------------------------------
(***************************************************************************)
(* Whose booking a form remembers.                                         *)
(***************************************************************************)

(* No stored booking changes hands, and no row appears.                    *)
OwnersStay(B) ==
  \A b \in B : bookings'[b] # AbsentBooking =>
    bookings[b] # AbsentBooking /\ bookings'[b].user = bookings[b].user

(* Writing a status keeps the rows and their owners.                       *)
LEMMA StatusKeepsOwners ==
  ASSUME NEW bk \in [BookingIds -> BookingOrAbsent], NEW B,
         \A b \in B : bk[b] # AbsentBooking, NEW status, NEW c \in BookingIds,
         WithStatus(bk, B, status)[c] # AbsentBooking
  PROVE  bk[c] # AbsentBooking /\ WithStatus(bk, B, status)[c].user = bk[c].user
<1>1. CASE c \in B
  <2>1. bk[c] \in BookingRow
    BY <1>1, StoredRow
  <2>2. WithStatus(bk, B, status)[c] = [bk[c] EXCEPT !.status = status]
    BY <1>1 DEF WithStatus
  <2> QED
    BY <1>1, <2>1, <2>2 DEF BookingRow
<1>2. CASE c \notin B
  BY <1>2 DEF WithStatus
<1> QED
  BY <1>1, <1>2

(* So does closing finished visits.                                        *)
LEMMA SettleKeepsOwners ==
  ASSUME TypeOK, NEW B, B \subseteq LiveIds, NEW c \in BookingIds,
         Settle(B)[c] # AbsentBooking
  PROVE  bookings[c] # AbsentBooking /\ Settle(B)[c].user = bookings[c].user
<1>1. CASE c \in B
  <2>1. bookings[c] # AbsentBooking
    BY <1>1 DEF LiveIds, IsLive, LIVE_BOOKING_STATUSES, AbsentBooking
  <2>2. bookings[c] \in BookingRow
    BY <2>1, StoredRow DEF TypeOK, BookingOrAbsent
  <2>3. Settle(B)[c] = [bookings[c] EXCEPT
          !.status = IF bookings[c].status = "active"
                     THEN "completed" ELSE "cancelled"]
    BY <1>1 DEF Settle
  <2> QED
    BY <2>1, <2>2, <2>3 DEF BookingRow
<1>2. CASE c \notin B
  BY <1>2 DEF Settle
<1> QED
  BY <1>1, <1>2

(* hold_slot adds the one row it is given, in the name of its client.      *)
LEMMA HoldAddsOneRow ==
  ASSUME TypeOK, NEW u \in Users, NEW s \in SlotKey, NEW b \in BookingIds,
         HoldSlot(u, s, b)
  PROVE  bookings'[b].user = u /\ OwnersStay(BookingIds \ {b})
<1> DEFINE past == LiveOf(u) \cap PastIds
           settled == Settle(past)
           step == StepForDay(s[1])
           block == ConsecutiveBlock(slots, s, SlotsNeeded(step, step))
           stale == {c \in BookingIds :
                       IsPending(settled[c]) /\ settled[c].slot \in block}
           bk == WithStatus(settled, stale, "cancelled")
<1>1. bookings' = [bk EXCEPT ![b] = PendingBooking(u, s, step)]
  BY DEF HoldSlot, HoldBlock, PastOf, BookingsWithHold, Commit
<1>2. past \subseteq LiveIds
  BY DEF LiveOf
<1>3. settled \in [BookingIds -> BookingOrAbsent]
  BY <1>2, SettleType DEF LiveIds, IsLive, LIVE_BOOKING_STATUSES, AbsentBooking
<1>4. \A c \in stale : settled[c] # AbsentBooking
  BY DEF IsPending, AbsentBooking
<1>5. ASSUME NEW c \in BookingIds \ {b}, bookings'[c] # AbsentBooking
      PROVE  bookings[c] # AbsentBooking /\ bookings'[c].user = bookings[c].user
  <2>0. bookings'[c] = bk[c] /\ c \in BookingIds
    BY <1>1, <1>5 DEF WithStatus
  <2> HIDE DEF settled, stale
  <2>1. settled[c] # AbsentBooking /\ bk[c].user = settled[c].user
    BY <1>3, <1>4, <1>5, <2>0, StatusKeepsOwners
  <2> USE DEF settled
  <2> HIDE DEF past
  <2>2. bookings[c] # AbsentBooking /\ settled[c].user = bookings[c].user
    BY <1>2, <2>0, <2>1, SettleKeepsOwners
  <2> QED
    BY <2>0, <2>1, <2>2
<1>6. bookings'[b].user = u
  BY <1>1 DEF WithStatus, PendingBooking
<1> QED
  BY <1>5, <1>6 DEF OwnersStay

(* No other call adds a row or changes an owner.                           *)
LEMMA OtherCallsKeepOwners ==
  ASSUME TypeOK, OtherCall
  PROVE  OwnersStay(BookingIds)
<1>rows. bookings \in [BookingIds -> BookingOrAbsent]
  BY DEF TypeOK, BookingOrAbsent
<1>live. \A b \in LiveIds : bookings[b] # AbsentBooking
  BY DEF LiveIds, IsLive, LIVE_BOOKING_STATUSES, AbsentBooking
<1>same. ASSUME UNCHANGED bookings PROVE OwnersStay(BookingIds)
  BY <1>same DEF OwnersStay
<1>status. ASSUME NEW B, \A b \in B : bookings[b] # AbsentBooking,
                  bookings' = WithStatus(bookings, B, "cancelled")
           PROVE  OwnersStay(BookingIds)
  BY <1>rows, <1>status, StatusKeepsOwners DEF OwnersStay
<1>settle. ASSUME NEW B, B \subseteq LiveIds, bookings' = Settle(B)
           PROVE  OwnersStay(BookingIds)
  BY <1>settle, SettleKeepsOwners DEF OwnersStay
<1>drop. ASSUME NEW D, DropDays(D) PROVE OwnersStay(BookingIds)
  BY <1>drop DEF DropDays, OwnersStay
<1>cancel. ASSUME NEW b \in BookingIds, CancelBooking(b)
           PROVE  OwnersStay(BookingIds)
  BY <1>cancel, <1>status DEF CancelBooking, Commit
<1>write. ASSUME NEW b \in BookingIds, bookings[b] # AbsentBooking,
                 \A c \in BookingIds \ {b} : bookings'[c] = bookings[c],
                 bookings'[b].user = bookings[b].user
          PROVE  OwnersStay(BookingIds)
  BY <1>write DEF OwnersStay
<1>1. ASSUME NEW u \in Users, OpenBookingForm(u)
      PROVE  OwnersStay(BookingIds)
  BY <1>1, <1>settle DEF OpenBookingForm, Commit, LiveOf
<1>4. ASSUME NEW b \in BookingIds,
             \/ ConfirmWithReceipt(b) \/ ReceiptTooLate(b)
             \/ AttachLateReceipt(b) \/ CancelByClient(b)
      PROVE  OwnersStay(BookingIds)
  <2>2. CASE ConfirmWithReceipt(b)
    <3>1. bookings[b] # AbsentBooking
      BY <2>2 DEF ConfirmWithReceipt, IsPending, AbsentBooking
    <3>2. bookings[b] \in BookingRow
      BY <3>1, <1>rows, StoredRow
    <3>3. bookings' = [bookings EXCEPT ![b].status = "active", ![b].receipt = TRUE]
      BY <2>2 DEF ConfirmWithReceipt, Commit
    <3> QED
      BY <3>1, <3>2, <3>3, <1>rows, <1>write DEF BookingRow
  <2>3. CASE ReceiptTooLate(b)
    BY <2>3, <1>status DEF ReceiptTooLate, Commit, IsPending, AbsentBooking
  <2>4. CASE AttachLateReceipt(b)
    <3>1. bookings[b] # AbsentBooking
      BY <2>4 DEF AttachLateReceipt, AbsentBooking
    <3>2. bookings[b] \in BookingRow
      BY <3>1, <1>rows, StoredRow
    <3>3. bookings' = [bookings EXCEPT ![b].receipt = TRUE]
      BY <2>4 DEF AttachLateReceipt, Commit
    <3> QED
      BY <3>1, <3>2, <3>3, <1>rows, <1>write DEF BookingRow
  <2> QED
    BY <1>4, <1>cancel, <2>2, <2>3, <2>4 DEF CancelByClient
<1>2. CASE MasterStep
  <2>1. ASSUME NEW b \in BookingIds, NEW s \in SlotKey, Reschedule(b, s)
        PROVE  OwnersStay(BookingIds)
    <3>1. bookings[b] # AbsentBooking
      BY <2>1, <1>live DEF Reschedule, LiveIds
    <3>2. bookings[b] \in BookingRow
      BY <3>1, <1>rows, StoredRow
    <3>3. bookings' = [bookings EXCEPT ![b].slot = s]
      BY <2>1 DEF Reschedule, Commit
    <3> QED
      BY <3>1, <3>2, <3>3, <1>rows, <1>write DEF BookingRow
  <2> QED
    BY <1>2, <1>same, <1>drop, <1>cancel, <2>1 DEF MasterStep, SetWorkSettings,
       AddDayFromDefaults, SetDayHours, ClearDayOverride, DeleteDay,
       ToggleSlotBlock
<1>3. CASE SchedulerStep
  <2>1. CASE ReleaseExpiredHolds
    BY <2>1, <1>status DEF ReleaseExpiredHolds, Commit, IsPending, AbsentBooking
  <2>2. CASE SettlePastBookings
    BY <2>2, <1>settle DEF SettlePastBookings, Commit, PastIds
  <2>3. CASE PurgePastDays
    BY <2>3, <1>drop DEF PurgePastDays
  <2> QED
    BY <1>3, <2>1, <2>2, <2>3 DEF SchedulerStep
<1> QED
  BY <1>same, <1>cancel, <1>1, <1>2, <1>3, <1>4 DEF OtherCall, FormCall, Tick, vars

-----------------------------------------------------------------------------
(* Every handler keeps the forms well formed.                              *)
LEMMA FormTypeStep ==
  ASSUME FormTypeOK, [FormNext]_allVars
  PROVE  FormTypeOK'
<1> DEFINE FormType == [state : FormStates, data : SUBSET Details,
                        booking : BookingIds \cup {Null}]
           PayType == [booking : BookingIds \cup {Null},
                       step : {"none", "confirm", "answer"}]
           Core == /\ form \in [Users -> FormType] /\ paying \in [Users -> PayType]
                   /\ last_id \in Nat
                   /\ \A u \in Users : InState(u, "wait_receipt") =>
                                         form[u].booking \in BookingIds
           Remembers(f) == f.state = "wait_receipt" => f.booking \in BookingIds
<1> USE DEF InState
<1>0. NoForm \in FormType /\ Remembers(NoForm) /\ NoReceipt \in PayType
  BY DEF NoForm, NoReceipt, FormStates
<1>form. ASSUME NEW u \in Users, NEW f \in FormType, Remembers(f),
                form' = [form EXCEPT ![u] = f], UNCHANGED <<paying, last_id>>
         PROVE  Core'
  BY <1>form DEF FormTypeOK
<1>clear. ASSUME NEW u \in Users, ClearForm(u), UNCHANGED <<paying, last_id>>
          PROVE  Core'
  BY <1>0, <1>form, <1>clear DEF ClearForm
<1>state. ASSUME NEW u \in Users, NEW state \in FormStates \ {"wait_receipt"},
                 NEW data \in SUBSET Details,
                 form' = [form EXCEPT ![u].state = state, ![u].data = data],
                 UNCHANGED <<paying, last_id>>
          PROVE  Core'
  <2>1. form[u] \in FormType
    BY DEF FormTypeOK
  <2> DEFINE f == [form[u] EXCEPT !.state = state, !.data = data]
  <2>2. f \in FormType /\ Remembers(f)
    BY <2>1
  <2>3. form' = [form EXCEPT ![u] = f]
    BY <1>state, <2>1 DEF FormTypeOK
  <2> HIDE DEF f
  <2> QED
    BY <1>state, <1>form, <2>2, <2>3
<1>set. ASSUME NEW u \in Users, NEW state \in FormStates \ {"wait_receipt"},
               SetState(u, state), UNCHANGED <<paying, last_id>>
        PROVE  Core'
  BY <1>set DEF FormTypeOK, SetState
<1>pay. ASSUME NEW u \in Users, NEW b \in BookingIds, StartPaying(u, b)
        PROVE  Core'
  BY <1>pay DEF FormTypeOK, StartPaying
<1>same. ASSUME UNCHANGED formVars PROVE Core'
  BY <1>same DEF FormTypeOK, formVars
<1>1. ASSUME UNCHANGED allVars PROVE Core'
  BY <1>1, <1>same DEF allVars
<1>2. ASSUME Restart PROVE Core'
  BY <1>0, <1>2 DEF Restart, FormTypeOK
<1>3. ASSUME UNCHANGED formVars PROVE Core'
  BY <1>3, <1>same
<1>4. ASSUME NEW u \in Users, FormStep(u)
      PROVE  Core'
  <2>1. CASE BookEntry(u)
    <3>1. [NoForm EXCEPT !.state = "full_name"] \in FormType
      BY DEF NoForm, FormStates
    <3>2. Remembers([NoForm EXCEPT !.state = "full_name"])
      BY DEF NoForm
    <3> QED
      BY <2>1, <3>1, <3>2, <1>form, <1>same DEF BookEntry, formVars
  <2>2. CASE EnterName(u)
    <3>1. form[u].data \cup {"full_name"} \in SUBSET Details
      BY DEF FormTypeOK, Details
    <3> QED
      BY <2>2, <3>1, <1>state DEF EnterName, FormStates
  <2>3. CASE EnterPhone(u)
    <3>1. form[u].data \cup {"phone"} \in SUBSET Details
      BY DEF FormTypeOK, Details
    <3> QED
      BY <2>3, <3>1, <1>state, <1>clear DEF EnterPhone, FormStates
  <2>4. ASSUME NEW step \in {"name", "phone", "day"}, GoBack(u, step)
        PROVE  Core'
    BY <2>4, <1>set, <1>clear DEF GoBack, FormStates
  <2>5. ASSUME NEW d \in Days, ChooseDay(u, d)
        PROVE  Core'
    BY <2>5, <1>set, <1>clear DEF ChooseDay, FormStates
  <2>6. ASSUME NEW s \in SlotKey, NEW b \in BookingIds, ChooseTime(u, s, b)
        PROVE  Core'
    <3>1. last_id' \in Nat
      BY <2>6, FormAssumption DEF ChooseTime, HandOut, FormTypeOK, FormAssumption
    <3> QED
      BY <2>6, <3>1 DEF ChooseTime, FormTypeOK, FormStates
  <2>7. CASE ResetForm(u) \/ LeaveForm(u) \/ ForgetForm(u)
    BY <2>7, <1>clear DEF ResetForm, LeaveForm, ForgetForm
  <2>8. CASE BookingReceipt(u)
    BY <2>8, <1>pay DEF BookingReceipt, FormTypeOK
  <2>9. CASE ReceiptRecovered(u)
    BY <2>9, <1>pay DEF ReceiptRecovered, Newest, PendingOf, LiveOf, LiveIds
  <2>10. CASE LateReceipt(u) \/ \E b \in BookingIds : ClientCancelYes(u, b)
    BY <2>10, <1>same DEF LateReceipt, ClientCancelYes
  <2>11. CASE ReceiptConfirmed(u) \/ ReceiptRefused(u)
    BY <2>11 DEF ReceiptConfirmed, ReceiptRefused, Answering, FormTypeOK
  <2>12. CASE ReceiptAnswered(u)
    BY <2>12, <1>0 DEF ReceiptAnswered, ClearForm, FormTypeOK
  <2> QED
    BY <1>4, <2>1, <2>2, <2>3, <2>4, <2>5, <2>6, <2>7, <2>8, <2>9, <2>10,
       <2>11, <2>12 DEF FormStep
<1>5. Core'
  BY <1>1, <1>2, <1>3, <1>4 DEF FormNext
<1>6. policy' \in IdPolicies /\ orphaned' \in SUBSET (Users \X BookingIds)
  BY DEF FormTypeOK, FormNext, IdHistory, allVars, idVars
<1> QED
  BY <1>5, <1>6 DEF FormTypeOK

(* The forms are well formed at the start.                                 *)
LEMMA FormTypeInit == FormInit => FormTypeOK
  BY DEF FormInit, FormTypeOK, NoForm, NoReceipt, FormStates, InState

(* A form that waits for a receipt always remembers a booking: the receipt *)
(* handler never meets its "no booking_id" branch.                         *)
THEOREM FormsWellFormed == FormSpec => []FormTypeOK
<1>1. FormTypeOK /\ [FormNext]_allVars => FormTypeOK'
  BY FormTypeStep
<1> QED
  BY FormTypeInit, <1>1, PTL DEF FormSpec

(* What a form or a receipt in hand remembers after a step is what it, or  *)
(* another part of the same client's form, remembered before, or the       *)
(* client's own booking.                                                   *)
LEMMA RememberedIds ==
  ASSUME FormTypeOK, [FormNext]_allVars,
         ~SomeChooseTime
  PROVE  /\ last_id' = last_id
         /\ \A u \in Users :
              \A b \in Remembered(u)' : b \in Remembered(u) \/ OwnBooking(u, b)
<1> USE DEF Remembered
<1> DEFINE Kept(u) ==
             \A b \in {form'[u].booking, paying'[u].booking} \ {Null} :
               b \in {form[u].booking, paying[u].booking} \/ OwnBooking(u, b)
<1>0. /\ form \in [Users -> [state : FormStates, data : SUBSET Details,
                             booking : BookingIds \cup {Null}]]
      /\ paying \in [Users -> [booking : BookingIds \cup {Null},
                               step : {"none", "confirm", "answer"}]]
  BY DEF FormTypeOK
<1>same. ASSUME UNCHANGED formVars
         PROVE  last_id' = last_id /\ \A u \in Users : Kept(u)
  BY <1>same DEF formVars
<1>1. CASE Restart
  BY <1>1 DEF Restart, NoForm, NoReceipt
<1>2. ASSUME NEW u \in Users, FormStep(u)
      PROVE  last_id' = last_id /\ \A v \in Users : Kept(v)
  <2>clear. ASSUME ClearForm(u), UNCHANGED <<paying, last_id>>
            PROVE  last_id' = last_id /\ \A v \in Users : Kept(v)
    BY <2>clear, <1>0 DEF ClearForm, NoForm
  <2>set. ASSUME NEW state, SetState(u, state), UNCHANGED <<paying, last_id>>
          PROVE  last_id' = last_id /\ \A v \in Users : Kept(v)
    BY <2>set, <1>0 DEF SetState
  <2>1. CASE BookEntry(u)
    BY <2>1, <1>0, <1>same DEF BookEntry, NoForm, formVars
  <2>2. CASE EnterName(u) \/ EnterPhone(u)
    BY <2>2, <2>clear, <1>0 DEF EnterName, EnterPhone
  <2>3. ASSUME NEW step \in {"name", "phone", "day"}, GoBack(u, step)
        PROVE  last_id' = last_id /\ \A v \in Users : Kept(v)
    BY <2>3, <2>clear, <2>set DEF GoBack
  <2>4. ASSUME NEW d \in Days, ChooseDay(u, d)
        PROVE  last_id' = last_id /\ \A v \in Users : Kept(v)
    BY <2>4, <2>clear, <2>set DEF ChooseDay
  <2>5. CASE ResetForm(u) \/ LeaveForm(u) \/ ForgetForm(u)
    BY <2>5, <2>clear DEF ResetForm, LeaveForm, ForgetForm
  <2>6. CASE BookingReceipt(u)
    BY <2>6, <1>0 DEF BookingReceipt, StartPaying
  <2>7. CASE ReceiptRecovered(u)
    <3>1. PICK b \in PendingOf(u) : StartPaying(u, b)
      BY <2>7 DEF ReceiptRecovered, Newest
    <3>2. OwnBooking(u, b)
      BY DEF OwnBooking, Rows, PendingOf, LiveOf, LiveIds, IsLive,
         LIVE_BOOKING_STATUSES, AbsentBooking
    <3> QED
      BY <3>1, <3>2, <1>0 DEF StartPaying
  <2>8. CASE LateReceipt(u) \/ \E b \in BookingIds : ClientCancelYes(u, b)
    BY <2>8, <1>same DEF LateReceipt, ClientCancelYes
  <2>9. CASE ReceiptConfirmed(u) \/ ReceiptRefused(u)
    BY <2>9, <1>0 DEF ReceiptConfirmed, ReceiptRefused, Answering
  <2>10. CASE ReceiptAnswered(u)
    BY <2>10, <1>0 DEF ReceiptAnswered, ClearForm, NoForm, NoReceipt
  <2> QED
    BY <1>2, <2>1, <2>2, <2>3, <2>4, <2>5, <2>6, <2>7, <2>8, <2>9, <2>10
       DEF FormStep, SomeChooseTime
<1> QED
  BY <1>same, <1>1, <1>2 DEF FormNext, allVars

(* An id that has been orphaned stays so while it is remembered, and an id *)
(* whose row goes becomes one.                                             *)
LEMMA OrphansStay ==
  ASSUME FormTypeOK, [FormNext]_allVars, NEW u \in Users, NEW b \in Remembered(u)',
         b \in BookingIds, <<u, b>> \in orphaned \/ b \in Rows \ Rows'
  PROVE  <<u, b>> \in orphaned'
<1>1. CASE UNCHANGED allVars
  <2>1. orphaned' = orphaned /\ Rows' = Rows
    BY <1>1 DEF allVars, idVars, vars, Rows
  <2> QED
    BY <2>1
<1>2. CASE IdHistory
  BY <1>2 DEF IdHistory
<1> QED
  BY <1>1, <1>2 DEF FormNext

(* The policy of a history is chosen once.                                 *)
LEMMA PolicyStays ==
  ASSUME [FormNext]_allVars
  PROVE  policy' = policy
BY DEF FormNext, IdHistory, allVars, idVars

(* What a form remembers after a client has booked: as before, and the new *)
(* booking is in his own form.                                             *)
LEMMA RememberedAfterBooking ==
  ASSUME FormTypeOK, NEW u \in Users, NEW s \in SlotKey, NEW c \in BookingIds,
         ChooseTime(u, s, c)
  PROVE  /\ \A v \in Users : \A b \in Remembered(v)' :
              b \in BookingIds /\ (b \in Remembered(v) \/ (v = u /\ b = c))
         /\ last_id' \in Nat /\ c <= last_id' /\ last_id <= last_id'
         /\ c \notin Rows /\ (~policy.reuse => c = last_id + 1)
<1>1. /\ paying' = paying
      /\ form' = [form EXCEPT ![u].state = "wait_receipt", ![u].booking = c]
  BY DEF ChooseTime
<1>2. /\ form \in [Users -> [state : FormStates, data : SUBSET Details,
                             booking : BookingIds \cup {Null}]]
      /\ \A v \in Users : paying[v].booking \in BookingIds \cup {Null}
      /\ last_id \in Nat
  BY DEF FormTypeOK
<1>3. \A v \in Users :
        \/ form'[v].booking = form[v].booking
        \/ v = u /\ form'[v].booking = c
  BY <1>1, <1>2
<1>4. \A v \in Users : form[v].booking \in BookingIds \cup {Null}
  BY <1>2
<1>5. c \in Nat
  BY FormAssumption DEF FormAssumption
<1> QED
  BY <1>1, <1>2, <1>3, <1>4, <1>5 DEF Remembered, ChooseTime, HandOut, FreshId

(* Ownership is inductive: a row that appears has an id that is above      *)
(* everything stored or remembered, or one that whoever else remembers it  *)
(* has lost to a deletion.                                                 *)
LEMMA OwnershipStep ==
  ASSUME OwnershipInv, [FormNext]_allVars
  PROVE  OwnershipInv'
<1> USE DEF OwnershipInv
<1>1. TypeOK'
  BY FormStepIsServiceStep, TypeStep
<1>2. FormTypeOK'
  BY FormTypeStep
<1>0. policy' = policy /\ \A u \in Users : \A b \in Remembered(u)' : b \in BookingIds
  BY <1>2, PolicyStays DEF FormTypeOK, Remembered
<1>3. ASSUME NEW u \in Users, NEW s \in SlotKey, NEW c \in BookingIds,
             ChooseTime(u, s, c)
      PROVE  IdsHandedOut' /\ OrphansKnown' /\ FormKeepsOwnBooking'
  <2>1. /\ \A v \in Users : \A b \in Remembered(v)' :
             b \in BookingIds /\ (b \in Remembered(v) \/ (v = u /\ b = c))
        /\ last_id' \in Nat /\ c <= last_id' /\ last_id <= last_id'
        /\ c \notin Rows /\ (~policy.reuse => c = last_id + 1)
    BY <1>3, RememberedAfterBooking
  <2>2. bookings'[c].user = u /\ OwnersStay(BookingIds \ {c})
    BY <1>3, HoldAddsOneRow DEF ChooseTime
  <2>3. /\ \A b \in BookingIds : b \in Nat
        /\ last_id \in Nat /\ Rows \subseteq BookingIds /\ Rows' \subseteq BookingIds
    BY FormAssumption DEF FormAssumption, FormTypeOK, Rows
  <2>4. \A b \in Rows' : b = c \/ (b \in Rows /\ bookings'[b].user = bookings[b].user)
    BY <2>2, <2>3 DEF OwnersStay, Rows
  <2>5. IdsHandedOut'
    <3>1. ASSUME NEW b \in BookingIds, b = c \/ b <= last_id PROVE b <= last_id'
      BY <2>1, <2>3, <3>1
    <3>2. \A b \in Rows' : b <= last_id'
      BY <2>3, <2>4, <3>1 DEF IdsHandedOut
    <3>3. \A v \in Users : \A b \in Remembered(v)' : b <= last_id'
      BY <2>1, <3>1 DEF IdsHandedOut
    <3> QED
      BY <3>2, <3>3 DEF IdsHandedOut
  <2>6. c \in Rows'
    BY <1>3 DEF ChooseTime, HoldSlot, BookingsWithHold, Commit, Rows, PendingBooking,
       AbsentBooking, WithStatus
  <2>7. OrphansKnown'
    <3> SUFFICES ASSUME NEW v \in Users, NEW b \in Remembered(v)', b \notin Rows'
                 PROVE  <<v, b>> \in orphaned'
      BY DEF OrphansKnown
    <3>1. b \in BookingIds /\ b \in Remembered(v)
      BY <2>1, <2>6
    <3> QED
      BY <3>1, OrphansStay DEF OrphansKnown
  <2>8. ASSUME NEW v \in Users, NEW b \in Rows', b \in Remembered(v)'
        PROVE  bookings'[b].user = v \/ (policy.reuse /\ <<v, b>> \in orphaned')
    <3>1. CASE b = c /\ v # u
      <4>1. b \in Remembered(v) /\ b \notin Rows
        BY <2>1, <2>8, <3>1
      <4>2. policy.reuse
        BY <2>1, <2>3, <3>1, <4>1 DEF IdsHandedOut
      <4>3. <<v, b>> \in orphaned'
        BY <2>1, <2>8, <4>1, OrphansStay DEF OrphansKnown
      <4> QED
        BY <4>2, <4>3
    <3>2. CASE b # c
      <4>1. b \in Remembered(v) /\ b \in Rows /\ bookings'[b].user = bookings[b].user
        BY <2>1, <2>4, <2>8, <3>2
      <4>2. <<v, b>> \in orphaned => <<v, b>> \in orphaned'
        BY <2>1, <2>8, OrphansStay
      <4> QED
        BY <4>1, <4>2 DEF FormKeepsOwnBooking, Usurped
    <3> QED
      BY <2>2, <3>1, <3>2
  <2>9. FormKeepsOwnBooking'
    BY <1>0, <2>8 DEF FormKeepsOwnBooking, Usurped
  <2> QED
    BY <2>5, <2>7, <2>9
<1>4. ASSUME ~SomeChooseTime
      PROVE  IdsHandedOut' /\ OrphansKnown' /\ FormKeepsOwnBooking'
  <2>1. OwnersStay(BookingIds)
    BY <1>4, StepsMakeOneCall, OtherCallsKeepOwners
  <2>2. \A b \in Rows' : b \in Rows /\ bookings'[b].user = bookings[b].user
    BY <2>1 DEF OwnersStay, Rows
  <2>3. /\ last_id' = last_id
        /\ \A u \in Users :
             \A b \in Remembered(u)' : b \in Remembered(u) \/ OwnBooking(u, b)
    BY <1>4, RememberedIds
  <2>4. IdsHandedOut'
    BY <2>2, <2>3 DEF IdsHandedOut, OwnBooking
  <2>5. OrphansKnown'
    <3> SUFFICES ASSUME NEW v \in Users, NEW b \in Remembered(v)', b \notin Rows'
                 PROVE  <<v, b>> \in orphaned'
      BY DEF OrphansKnown
    <3>1. b \in Rows \/ <<v, b>> \in orphaned
      BY <2>3 DEF OrphansKnown, OwnBooking
    <3> QED
      BY <1>0, <3>1, OrphansStay
  <2>6. ASSUME NEW v \in Users, NEW b \in Rows', b \in Remembered(v)'
        PROVE  bookings'[b].user = v \/ (policy.reuse /\ <<v, b>> \in orphaned')
    <3>1. bookings[b].user = v \/ Usurped(v, b)
      BY <2>2, <2>3, <2>6 DEF FormKeepsOwnBooking, OwnBooking
    <3>2. <<v, b>> \in orphaned => <<v, b>> \in orphaned'
      BY <1>0, <2>6, OrphansStay
    <3> QED
      BY <2>2, <2>6, <3>1, <3>2 DEF Usurped
  <2>7. FormKeepsOwnBooking'
    BY <1>0, <2>6 DEF FormKeepsOwnBooking, Usurped
  <2> QED
    BY <2>4, <2>5, <2>7
<1> QED
  BY <1>1, <1>2, <1>3, <1>4 DEF SomeChooseTime

(* A form, however old, never reaches another client's booking: not at all *)
(* where booking ids come from a sequence, and on SQLite only one that was *)
(* given the id of a booking deleted while the form had it in memory.      *)
THEOREM FormsKeepOwnBooking == FormSpec => []OwnershipInv
<1>1. FormInit => OwnershipInv
  BY FormTypeInit, TypeInit DEF FormInit, OwnershipInv, IdsHandedOut, OrphansKnown,
     FormKeepsOwnBooking, Remembered, Rows, Init, NoForm, NoReceipt
<1>2. OwnershipInv /\ [FormNext]_allVars => OwnershipInv'
  BY OwnershipStep
<1> QED
  BY <1>1, <1>2, PTL DEF FormSpec

(* Writing one status to one booking leaves all the others as they were.   *)
LEMMA OneRowWritten ==
  ASSUME TypeOK, NEW b \in BookingIds,
         bookings' = WithStatus(bookings, {b}, "cancelled"),
         NEW c \in BookingIds, c # b
  PROVE  bookings'[c] = bookings[c]
  BY DEF WithStatus

(* So leaving a form cancels no booking of another client but a usurper's. *)
THEOREM LeavingSparesOthers == FormSpec => LeaveSparesOthers
<1> DEFINE Spares ==
      \A u \in Users :
        LeaveForm(u) =>
          \A b \in Rows :
            bookings[b].user # u /\ ~Usurped(u, b) => bookings'[b] = bookings[b]
<1>1. OwnershipInv => Spares
  <2> SUFFICES ASSUME OwnershipInv, NEW u \in Users, LeaveForm(u),
                      NEW c \in Rows, bookings[c].user # u, ~Usurped(u, c)
               PROVE  bookings'[c] = bookings[c]
    OBVIOUS
  <2>1. CASE UNCHANGED vars
    BY <2>1 DEF vars
  <2>2. CASE form[u].booking \in Rows /\ CancelBooking(form[u].booking)
    <3>1. form[u].booking \in BookingIds /\ c \in BookingIds
      BY <2>2 DEF Rows
    <3>2. c # form[u].booking
      <4>1. Null \notin Rows
        BY FormAssumption DEF FormAssumption, Rows
      <4> QED
        BY <2>2, <4>1 DEF OwnershipInv, FormKeepsOwnBooking, Remembered
    <3> QED
      BY <2>2, <3>1, <3>2, OneRowWritten DEF CancelBooking, Commit, OwnershipInv
  <2> QED
    BY <2>1, <2>2 DEF LeaveForm
<1>2. FormSpec => []OwnershipInv
  BY FormsKeepOwnBooking
<1>3. OwnershipInv => [Spares]_allVars
  BY <1>1
<1> HIDE DEF Spares
<1>4. FormSpec => [][Spares]_allVars
  BY <1>2, <1>3, PTL
<1> QED
  BY <1>4 DEF Spares, LeaveSparesOthers

(* A receipt pays for, cancels or joins a booking of its sender, whether   *)
(* or not ids are handed out again: confirm_with_receipt checks the owner. *)
THEOREM ReceiptsForOwnVisits == FormSpec => ReceiptForOwnVisit
<1> DEFINE Own ==
      \A u \in Users :
        ReceiptConfirmed(u) \/ ReceiptRefused(u) \/ LateReceipt(u) =>
          \A b \in Rows : bookings[b].user # u => bookings'[b] = bookings[b]
<1>1. TypeOK => Own
  <2> SUFFICES ASSUME TypeOK, NEW u \in Users,
                      ReceiptConfirmed(u) \/ ReceiptRefused(u) \/ LateReceipt(u),
                      NEW c \in Rows, bookings[c].user # u
               PROVE  bookings'[c] = bookings[c]
    OBVIOUS
  <2> DEFINE b == paying[u].booking
  <2>1. CASE UNCHANGED vars
    BY <2>1 DEF vars
  <2>2. ASSUME OwnBooking(u, b)
        PROVE  b \in BookingIds /\ c \in BookingIds /\ c # b
    BY <2>2 DEF OwnBooking, Rows
  <2>3. CASE OwnBooking(u, b) /\ ReceiptTooLate(b)
    BY <2>2, <2>3, OneRowWritten DEF ReceiptTooLate, Commit
  <2>4. CASE OwnBooking(u, b) /\ ConfirmWithReceipt(b)
    BY <2>2, <2>4 DEF ConfirmWithReceipt, Commit, TypeOK
  <2>5. CASE LateReceipt(u)
    <3>1. PICK a \in Rows : bookings[a].user = u /\ AttachLateReceipt(a)
      BY <2>5 DEF LateReceipt, Newest
    <3>2. c \in BookingIds /\ a \in BookingIds /\ c # a
      BY <3>1 DEF Rows
    <3> QED
      BY <3>1, <3>2 DEF AttachLateReceipt, Commit, TypeOK
  <2> QED
    BY <2>1, <2>3, <2>4, <2>5 DEF ReceiptConfirmed, ReceiptRefused
<1>2. FormSpec => []TypeOK
  BY FormImplementsService, TypeCorrect, PTL
<1>3. TypeOK => [Own]_allVars
  BY <1>1
<1> HIDE DEF Own
<1>4. FormSpec => [][Own]_allVars
  BY <1>2, <1>3, PTL
<1> QED
  BY <1>4 DEF Own, ReceiptForOwnVisit

-----------------------------------------------------------------------------
(***************************************************************************)
(* Which booking a form waits to be paid for.                              *)
(***************************************************************************)

(* No call but a hold makes a booking pending.                             *)
LEMMA OtherCallsMakeNonePending ==
  ASSUME TypeOK, OtherCall, NEW c \in BookingIds, IsPending(bookings'[c])
  PROVE  IsPending(bookings[c])
<1>rows. bookings \in [BookingIds -> BookingOrAbsent]
  BY DEF TypeOK, BookingOrAbsent
<1>same. ASSUME UNCHANGED bookings PROVE IsPending(bookings[c])
  BY <1>same
<1>status. ASSUME NEW B, bookings' = WithStatus(bookings, B, "cancelled")
           PROVE  IsPending(bookings[c])
  BY <1>rows, <1>status, StatusEndsLife DEF IsPending, IsLive, LIVE_BOOKING_STATUSES
<1>settle. ASSUME NEW B, bookings' = Settle(B)
           PROVE  IsPending(bookings[c])
  BY <1>settle, SettleEndsLife DEF IsPending, IsLive, LIVE_BOOKING_STATUSES
<1>drop. ASSUME NEW D, DropDays(D) PROVE IsPending(bookings[c])
  BY <1>drop DEF DropDays, IsPending, AbsentBooking
<1>write. ASSUME NEW b \in BookingIds, NEW r,
                 bookings' = [bookings EXCEPT ![b] = r],
                 IsPending(r) => IsPending(bookings[b])
          PROVE  IsPending(bookings[c])
  BY <1>rows, <1>write
<1>cancel. ASSUME NEW b \in BookingIds, CancelBooking(b)
           PROVE  IsPending(bookings[c])
  BY <1>cancel, <1>status DEF CancelBooking, Commit
<1>1. CASE FormCall
  <2>1. ASSUME NEW b \in BookingIds, ConfirmWithReceipt(b)
        PROVE  IsPending(bookings[c])
    BY <2>1, <1>rows, <1>write DEF ConfirmWithReceipt, Commit
  <2>2. ASSUME NEW b \in BookingIds, AttachLateReceipt(b)
        PROVE  IsPending(bookings[c])
    <3> DEFINE r == [bookings[b] EXCEPT !.receipt = TRUE]
    <3>1. bookings[b] \in BookingRow
      BY <2>2, <1>rows DEF AttachLateReceipt, BookingOrAbsent, AbsentBooking
    <3>2. ~IsPending(r)
      BY <2>2, <3>1 DEF AttachLateReceipt, BookingRow, IsPending
    <3>3. bookings' = [bookings EXCEPT ![b] = r]
      BY <2>2, <1>rows, <3>1 DEF AttachLateReceipt, Commit
    <3> HIDE DEF r
    <3> QED
      BY <3>2, <3>3, <1>write
  <2> QED
    BY <1>1, <2>1, <2>2, <1>same, <1>status, <1>settle, <1>cancel DEF FormCall,
       OpenBookingForm, ReceiptTooLate, CancelByClient, Commit, vars
<1>2. CASE MasterStep
  <2>1. ASSUME NEW b \in BookingIds, NEW s \in SlotKey, Reschedule(b, s)
        PROVE  IsPending(bookings[c])
    <3> DEFINE r == [bookings[b] EXCEPT !.slot = s]
    <3>1. bookings[b] \in BookingRow
      BY <2>1, <1>rows DEF Reschedule, IsLive, LIVE_BOOKING_STATUSES,
         BookingOrAbsent, AbsentBooking
    <3>2. IsPending(r) => IsPending(bookings[b])
      BY <3>1 DEF BookingRow, IsPending
    <3>3. bookings' = [bookings EXCEPT ![b] = r]
      BY <2>1, <1>rows, <3>1 DEF Reschedule, Commit
    <3> HIDE DEF r
    <3> QED
      BY <3>2, <3>3, <1>write
  <2> QED
    BY <1>2, <2>1, <1>same, <1>drop, <1>cancel DEF MasterStep, SetWorkSettings,
       AddDayFromDefaults, SetDayHours, ClearDayOverride, DeleteDay, ToggleSlotBlock
<1>3. CASE SchedulerStep
  BY <1>3, <1>status, <1>settle, <1>drop DEF SchedulerStep, ReleaseExpiredHolds,
     SettlePastBookings, PurgePastDays, Commit
<1>4. CASE Tick
  BY <1>4, <1>same DEF Tick
<1> QED
  BY <1>1, <1>2, <1>3, <1>4 DEF OtherCall

(* Only the choice of a time makes a form wait, and while it waits it      *)
(* remembers the same booking.                                             *)
LEMMA WaitingStays ==
  ASSUME FormTypeOK, [FormNext]_allVars, ~SomeChooseTime, NEW v \in Users,
         form'[v].state = "wait_receipt"
  PROVE  form[v].state = "wait_receipt" /\ form'[v].booking = form[v].booking
<1>form. form \in [Users -> [state : FormStates, data : SUBSET Details,
                             booking : BookingIds \cup {Null}]]
  BY DEF FormTypeOK
<1>1. CASE UNCHANGED form
  BY <1>1
<1>2. CASE Restart
  BY <1>2 DEF Restart, NoForm
<1>3. ASSUME NEW u \in Users, FormStep(u)
      PROVE  form[v].state = "wait_receipt" /\ form'[v].booking = form[v].booking
  <2>1. CASE ClearForm(u)
    BY <2>1, <1>form DEF ClearForm, NoForm
  <2>2. ASSUME NEW state \in FormStates \ {"wait_receipt"}, SetState(u, state)
        PROVE  form[v].state = "wait_receipt" /\ form'[v].booking = form[v].booking
    BY <2>2, <1>form DEF SetState
  <2>3. CASE BookEntry(u)
    BY <2>3, <1>1, <1>form DEF BookEntry, NoForm
  <2>4. CASE EnterName(u) \/ EnterPhone(u)
    BY <2>1, <2>4, <1>form DEF EnterName, EnterPhone
  <2>5. ASSUME NEW step \in {"name", "phone", "day"}, GoBack(u, step)
        PROVE  form[v].state = "wait_receipt" /\ form'[v].booking = form[v].booking
    BY <2>1, <2>2, <2>5 DEF GoBack, FormStates
  <2>6. CASE \E d \in Days : ChooseDay(u, d)
    BY <2>1, <2>2, <2>6 DEF ChooseDay, FormStates
  <2>7. CASE ResetForm(u) \/ ReceiptAnswered(u) \/ LeaveForm(u) \/ ForgetForm(u)
    BY <2>1, <2>7 DEF ResetForm, ReceiptAnswered, LeaveForm, ForgetForm
  <2>8. CASE \/ BookingReceipt(u) \/ ReceiptRecovered(u) \/ LateReceipt(u)
             \/ ReceiptConfirmed(u) \/ ReceiptRefused(u)
             \/ \E b \in BookingIds : ClientCancelYes(u, b)
    BY <2>8, <1>1 DEF BookingReceipt, ReceiptRecovered, StartPaying, LateReceipt,
       ReceiptConfirmed, ReceiptRefused, ClientCancelYes, formVars
  <2> QED
    BY <1>3, <2>3, <2>4, <2>5, <2>6, <2>7, <2>8 DEF FormStep, SomeChooseTime
<1> QED
  BY <1>1, <1>2, <1>3 DEF FormNext, allVars, formVars

(* So the receipt a form waits for is the one its client owes.             *)
THEOREM FormsWaitForPending == FormSpec => []FormWaitsForPending
<1>1. FormInit => FormWaitsForPending
  BY DEF FormInit, FormWaitsForPending, InState, NoForm
<1>2. TypeOK /\ FormTypeOK /\ FormWaitsForPending /\ [FormNext]_allVars
        => FormWaitsForPending'
  <2> SUFFICES ASSUME TypeOK, FormTypeOK, FormWaitsForPending, [FormNext]_allVars,
                      NEW v \in Users, form'[v].state = "wait_receipt",
                      NEW c \in BookingIds, IsPending(bookings'[c]),
                      bookings'[c].user = v
               PROVE  c = form'[v].booking
    BY DEF FormWaitsForPending, InState, PendingOf, LiveOf, LiveIds
  <2>1. ASSUME IsPending(bookings[c]), bookings[c].user = v,
               form[v].state = "wait_receipt", form'[v].booking = form[v].booking
        PROVE  c = form'[v].booking
    BY <2>1 DEF FormWaitsForPending, InState, PendingOf, LiveOf, LiveIds,
       IsPending, IsLive, LIVE_BOOKING_STATUSES
  <2>2. ASSUME NEW u \in Users, NEW s \in SlotKey, NEW b \in BookingIds,
               ChooseTime(u, s, b)
        PROVE  c = form'[v].booking
    <3>1. /\ bookings'[b].user = u
          /\ c # b => /\ bookings'[c] = bookings[c] /\ bookings[c].user # u
                      /\ IsPending(bookings[c])
      BY <2>2, HoldLeavesOneLive DEF ChooseTime, IsPending, IsLive, LIVE_BOOKING_STATUSES
    <3>2. form' = [form EXCEPT ![u].state = "wait_receipt", ![u].booking = b]
      BY <2>2 DEF ChooseTime
    <3>3. CASE v = u
      <4>1. form'[u].booking = b
        BY <3>2 DEF FormTypeOK
      <4> QED
        BY <3>1, <3>3, <4>1
    <3>4. CASE v # u
      <4>1. form'[v] = form[v]
        BY <3>2, <3>4 DEF FormTypeOK
      <4> QED
        BY <2>1, <3>1, <3>4, <4>1
    <3> QED
      BY <3>3, <3>4
  <2>3. CASE ~SomeChooseTime
    <3>1. IsPending(bookings[c]) /\ bookings[c] # AbsentBooking
      BY <2>3, StepsMakeOneCall, OtherCallsMakeNonePending DEF IsPending, AbsentBooking
    <3>2. bookings'[c].user = bookings[c].user
      BY <2>3, StepsMakeOneCall, OtherCallsKeepOwners DEF OwnersStay, IsPending, AbsentBooking
    <3> QED
      BY <2>1, <2>3, <3>1, <3>2, WaitingStays
  <2> QED
    BY <2>2, <2>3 DEF SomeChooseTime
<1>3. FormSpec => []TypeOK
  BY FormImplementsService, TypeCorrect, PTL
<1> QED
  BY <1>1, <1>2, <1>3, FormsWellFormed, PTL DEF FormSpec
=============================================================================
