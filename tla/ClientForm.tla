----------------------------- MODULE ClientForm -----------------------------
(***************************************************************************)
(* The booking form of the clients (src/handlers/booking.py, menu.py,      *)
(* start.py) over the services of Bookings.  A form is the FSM state and   *)
(* data aiogram keeps per client.  It lives in the memory of the process,  *)
(* so a restart loses it, and it remembers a booking by its id only.       *)
(*                                                                         *)
(* A handler runs to its end in one step, except the one that takes a      *)
(* receipt: it reads the form, shows "checking the receipt", confirms, and *)
(* clears the form at the end, and other handlers run in between.  The     *)
(* buttons of the form have no state filter other than the guards below: a *)
(* screen is edited in place, but a tap made before the edit still counts. *)
(***************************************************************************)
EXTENDS Bookings

CONSTANT
  IdPolicies  \* how a history's database gives out ids, and a bound on them

ASSUME FormAssumption ==
  /\ BookingIds \subseteq Nat \ {0}
  /\ IsFiniteSet(BookingIds)
  /\ IdPolicies \subseteq [reuse : BOOLEAN, ids : SUBSET BookingIds]
  /\ Null \notin Nat

VARIABLES
  form,       \* per client: FSM state, the details entered, booking_id
  paying,     \* per client: the receipt being handled, and its next step
  last_id,    \* the highest id handed out so far
  policy,     \* reuse: SQLite takes max(id) + 1; else a sequence counts on
  orphaned    \* history: <<client, id>> whose row went while it was remembered

formVars == <<form, paying, last_id>>
idVars == <<policy, orphaned>>
allVars == <<vars, formVars, idVars>>

FormStates ==
  {"none", "full_name", "phone", "choose_day", "choose_time", "wait_receipt"}
Details == {"full_name", "phone"}

NoForm == [state |-> "none", data |-> {}, booking |-> Null]
NoReceipt == [booking |-> Null, step |-> "none"]

Rows == {b \in BookingIds : bookings[b] # AbsentBooking}

FreshIdOfTable(b) == \A c \in Rows : c < b   \* mutant: a sequence set back

FreshId(b) ==
  /\ b \notin Rows
  /\ IF policy.reuse
     THEN b = 1 + (IF Rows = {} THEN 0
                   ELSE CHOOSE m \in Rows : \A c \in Rows : c <= m)
     ELSE b = last_id + 1

HandOut(b) ==
  /\ b \in policy.ids
  /\ FreshId(b)
  /\ last_id' = IF b > last_id THEN b ELSE last_id

(* The ids a client's form, or his receipt in hand, has in memory.         *)
Remembered(u) == {form[u].booking, paying[u].booking} \ {Null}

(* The history follows every step: an id is orphaned when its row goes,    *)
(* and as long as the client's form has it in memory.                      *)
IdHistory ==
  /\ orphaned' = {p \in Users \X BookingIds :
                    /\ p[2] \in Remembered(p[1])'
                    /\ p \in orphaned \/ p[2] \in Rows \ Rows'}
  /\ UNCHANGED policy

-----------------------------------------------------------------------------
InState(u, state) == form[u].state = state
SetState(u, state) == form' = [form EXCEPT ![u].state = state]
ClearForm(u) == form' = [form EXCEPT ![u] = NoForm]

(* book_entry: a client without a live booking starts with an empty form.  *)
BookEntry(u) ==
  /\ IF LiveOf(u) \cap PastIds # {} THEN OpenBookingForm(u) ELSE UNCHANGED vars
  /\ IF LiveOf(u) \subseteq PastIds
     THEN form' = [form EXCEPT ![u] = [NoForm EXCEPT !.state = "full_name"]]
     ELSE UNCHANGED form
  /\ UNCHANGED <<paying, last_id>>

EnterName(u) ==
  /\ InState(u, "full_name")
  /\ form' = [form EXCEPT ![u].state = "phone", ![u].data = @ \cup {"full_name"}]
  /\ UNCHANGED <<vars, paying, last_id>>

EnterPhone(u) ==
  /\ InState(u, "phone")
  /\ IF FreeDays = {} THEN ClearForm(u)
     ELSE form' = [form EXCEPT ![u].state = "choose_day",
                               ![u].data = @ \cup {"phone"}]
  /\ UNCHANGED <<vars, paying, last_id>>

(* The "back" buttons, of whatever screen is still there.  The data stay,  *)
(* booking_id among them.                                                  *)
GoBack(u, step) ==
  /\ CASE step = "name" -> SetState(u, "full_name")
       [] step = "phone" -> SetState(u, "phone")
       [] step = "day" -> IF FreeDays = {} THEN ClearForm(u)
                          ELSE SetState(u, "choose_day")
  /\ UNCHANGED <<vars, paying, last_id>>

ChooseDay(u, d) ==
  /\ InState(u, "choose_day")
  /\ IF FreeSlotsOf(d) # {} THEN SetState(u, "choose_time")
     ELSE FreeDays = {} /\ ClearForm(u)
  /\ UNCHANGED <<vars, paying, last_id>>

ChooseTimeForgetsId(u, s, b) ==   \* mutant: booking_id is not remembered
  /\ InState(u, "choose_time")
  /\ form[u].data = Details
  /\ HandOut(b)
  /\ HoldSlot(u, s, b)
  /\ SetState(u, "wait_receipt")
  /\ UNCHANGED paying

ChooseTimeKeepsId(u, s, b) ==   \* mutant: an id of before is not replaced
  /\ InState(u, "choose_time")
  /\ form[u].data = Details
  /\ HandOut(b)
  /\ HoldSlot(u, s, b)
  /\ form' = [form EXCEPT ![u].state = "wait_receipt",
                          ![u].booking = IF @ = Null THEN b ELSE @]
  /\ UNCHANGED paying

(* booking_choose_slot: hold the slot and wait for the receipt.            *)
ChooseTime(u, s, b) ==
  /\ InState(u, "choose_time")
  /\ form[u].data = Details
  /\ HandOut(b)
  /\ HoldSlot(u, s, b)
  /\ form' = [form EXCEPT ![u].state = "wait_receipt", ![u].booking = b]
  /\ UNCHANGED paying

(* The same tap on a form whose details are incomplete.                    *)
ResetForm(u) ==
  /\ InState(u, "choose_time")
  /\ form[u].data # Details
  /\ ClearForm(u)
  /\ UNCHANGED <<vars, paying, last_id>>

-----------------------------------------------------------------------------
(***************************************************************************)
(* A photo or a file.  In wait_receipt it is the receipt for the booking   *)
(* of the form; without a form, for the one find_receipt_target finds; in  *)
(* any other state it gets the fallback reply.                             *)
(***************************************************************************)
PendingOf(u) == {b \in LiveOf(u) : IsPending(bookings[b])}

StartPaying(u, b) ==
  /\ paying[u] = NoReceipt
  /\ paying' = [paying EXCEPT ![u] = [booking |-> b, step |-> "confirm"]]
  /\ UNCHANGED <<vars, form, last_id>>

BookingReceipt(u) ==
  /\ InState(u, "wait_receipt")
  /\ StartPaying(u, form[u].booking)

Newest(B) == {b \in B : \A c \in B : c <= b}

ReceiptRecovered(u) ==
  /\ InState(u, "none")
  /\ \E b \in Newest(PendingOf(u)) : StartPaying(u, b)

LateReceiptOfAnyone(u) ==   \* mutant: the query lost its condition on the client
  LET unpaid == {b \in Rows : /\ bookings[b].status = "cancelled"
                              /\ ~bookings[b].receipt}
  IN
  /\ InState(u, "none")
  /\ PendingOf(u) = {}
  /\ \E b \in Newest(unpaid) : AttachLateReceipt(b)
  /\ UNCHANGED formVars

(* Without a pending booking: the newest cancelled one without a receipt.  *)
(* It must be less than three hours old; the bounded clock does not reach  *)
(* that age.                                                               *)
LateReceipt(u) ==
  LET unpaid == {b \in Rows : /\ bookings[b].user = u
                              /\ bookings[b].status = "cancelled"
                              /\ ~bookings[b].receipt}
  IN
  /\ InState(u, "none")
  /\ PendingOf(u) = {}
  /\ \E b \in Newest(unpaid) : AttachLateReceipt(b)
  /\ UNCHANGED formVars

(* The first check of confirm_with_receipt.                                *)
OwnBooking(u, b) == b \in Rows /\ bookings[b].user = u

Answering(u) == paying' = [paying EXCEPT ![u].step = "answer"]

ReceiptConfirmed(u) ==
  LET b == paying[u].booking IN
  /\ paying[u].step = "confirm"
  /\ OwnBooking(u, b)
  /\ ConfirmWithReceipt(b)
  /\ Answering(u)
  /\ UNCHANGED <<form, last_id>>

(* The call raises: the booking is gone, another client's, already         *)
(* processed, or its hold has lapsed and it is cancelled now.              *)
ReceiptRefused(u) ==
  LET b == paying[u].booking IN
  /\ paying[u].step = "confirm"
  /\ IF OwnBooking(u, b) /\ IsPending(bookings[b])
     THEN ReceiptTooLate(b)
     ELSE UNCHANGED vars
  /\ Answering(u)
  /\ UNCHANGED <<form, last_id>>

ReceiptAnswered(u) ==
  /\ paying[u].step = "answer"
  /\ ClearForm(u)
  /\ paying' = [paying EXCEPT ![u] = NoReceipt]
  /\ UNCHANGED <<vars, last_id>>

-----------------------------------------------------------------------------
(* booking_cancel_flow and back_to_menu: cancel the booking of the form,   *)
(* if there is one, and forget the form.                                   *)
LeaveForm(u) ==
  LET b == form[u].booking IN
  /\ ~InState(u, "none")
  /\ IF b \in Rows /\ bookings[b].status # "cancelled"
     THEN CancelBooking(b)
     ELSE UNCHANGED vars
  /\ ClearForm(u)
  /\ UNCHANGED <<paying, last_id>>

(* /start and the other buttons of the menu only clear the form.           *)
ForgetForm(u) ==
  /\ ~InState(u, "none")
  /\ ClearForm(u)
  /\ UNCHANGED <<vars, paying, last_id>>

(* client_cancel_yes, on a booking of the client's list.                   *)
ClientCancelYes(u, b) ==
  /\ OwnBooking(u, b)
  /\ CancelByClient(b)
  /\ UNCHANGED formVars

(* The process dies and starts again: the forms were in its memory, and    *)
(* the pending updates are dropped.                                        *)
Restart ==
  /\ form' = [u \in Users |-> NoForm]
  /\ paying' = [u \in Users |-> NoReceipt]
  /\ UNCHANGED <<vars, last_id>>

-----------------------------------------------------------------------------
FormInit ==
  /\ Init
  /\ form = [u \in Users |-> NoForm]
  /\ paying = [u \in Users |-> NoReceipt]
  /\ last_id = 0
  /\ policy \in IdPolicies
  /\ orphaned = {}

FormStep(u) ==
  \/ BookEntry(u)
  \/ EnterName(u)
  \/ EnterPhone(u)
  \/ \E step \in {"name", "phone", "day"} : GoBack(u, step)
  \/ \E d \in Days : ChooseDay(u, d)
  \/ \E s \in SlotKey, b \in BookingIds : ChooseTime(u, s, b)
  \/ ResetForm(u)
  \/ BookingReceipt(u)
  \/ ReceiptRecovered(u)
  \/ LateReceipt(u)
  \/ ReceiptConfirmed(u)
  \/ ReceiptRefused(u)
  \/ ReceiptAnswered(u)
  \/ LeaveForm(u)
  \/ ForgetForm(u)
  \/ \E b \in BookingIds : ClientCancelYes(u, b)

FormNext ==
  /\ \/ \E u \in Users : FormStep(u)
     \/ Restart
     \/ (Tick \/ MasterStep \/ SchedulerStep) /\ UNCHANGED formVars
  /\ IdHistory

FormSpec == FormInit /\ [][FormNext]_allVars

-----------------------------------------------------------------------------
(* The types, and the one fact the receipt handler relies on: a form that  *)
(* waits for a receipt remembers a booking.                                *)
FormTypeOK ==
  /\ form \in [Users -> [state : FormStates, data : SUBSET Details,
                         booking : BookingIds \cup {Null}]]
  /\ paying \in [Users -> [booking : BookingIds \cup {Null},
                           step : {"none", "confirm", "answer"}]]
  /\ last_id \in Nat
  /\ policy \in IdPolicies
  /\ orphaned \subseteq Users \X BookingIds
  /\ \A u \in Users : InState(u, "wait_receipt") => form[u].booking \in BookingIds

(* A receipt pays for, cancels or is kept with a booking of the client who *)
(* sent it, though the handler may only know an id that names a newer row  *)
(* by now, and though a receipt without a form has to find its booking.    *)
ReceiptForOwnVisit ==
  [][\A u \in Users :
       ReceiptConfirmed(u) \/ ReceiptRefused(u) \/ LateReceipt(u) =>
         \A b \in Rows : bookings[b].user # u => bookings'[b] = bookings[b]]_allVars

(* The receipt a form waits for is the one its client owes: if any booking *)
(* of his is pending, the form remembers that one, whatever screens he has *)
(* gone back to and whatever bookings were cancelled or deleted before.    *)
FormWaitsForPending ==
  \A u \in Users : InState(u, "wait_receipt") => PendingOf(u) \subseteq {form[u].booking}

(* The one way to somebody else's booking: the master deletes a day with   *)
(* the booking a form remembers, and SQLite gives its id to a new one.     *)
Usurped(u, b) == policy.reuse /\ <<u, b>> \in orphaned

(* "This is not your booking" (cancel_by_client): leaving the form, which  *)
(* looks its booking up by id and never at the owner, cancels no booking   *)
(* of another client, except one that has usurped the id; never on a       *)
(* database with a sequence.                                               *)
LeaveSparesOthers ==
  [][\A u \in Users :
       LeaveForm(u) =>
         \A b \in Rows :
           bookings[b].user # u /\ ~Usurped(u, b) => bookings'[b] = bookings[b]]_allVars

(* Why: what a form or a receipt remembers is gone, the client's or, after *)
(* a deletion, usurped; restarts, cancellations, receipts in flight and    *)
(* forms left open never confuse two bookings.                             *)
FormKeepsOwnBooking ==
  \A u \in Users, b \in Rows :
    b \in Remembered(u) => bookings[b].user = u \/ Usurped(u, b)

(* Nothing that is stored or remembered is above the ids handed out: the   *)
(* next one of a sequence is new to every table and to every form.         *)
IdsHandedOut ==
  /\ \A b \in Rows : b <= last_id
  /\ \A u \in Users : \A b \in Remembered(u) : b <= last_id

(* A remembered id without a row has been orphaned.                        *)
OrphansKnown == \A u \in Users : \A b \in Remembered(u) : b \in Rows \/ <<u, b>> \in orphaned

(* Inductive, on both databases.                                           *)
OwnershipInv ==
  /\ TypeOK
  /\ FormTypeOK
  /\ IdsHandedOut
  /\ OrphansKnown
  /\ FormKeepsOwnBooking

(* "Leaving the flow releases the hold" (back_to_menu): it does not undo a *)
(* paid visit, which has its own button, its rule of the 24 hours and a    *)
(* message to the master.                                                  *)
LeaveSparesPaid ==
  [][\A u \in Users :
       LeaveForm(u) =>
         \A b \in Rows :
           bookings[b].status = "active" => bookings'[b].status = "active"]_allVars
=============================================================================
