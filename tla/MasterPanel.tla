----------------------------- MODULE MasterPanel -----------------------------
(***************************************************************************)
(* The panel of the master (src/handlers/admin.py) over the services of    *)
(* Bookings.  It has one form, the AdminFSM state and data of the master,  *)
(* and many messages: every new booking is announced in a message of its   *)
(* own, with a button that turns it into the screens of a move.            *)
(*                                                                         *)
(* Buttons that name a day, a slot or a booking call the service at once.  *)
(* The form decides what a typed text means and which booking a chosen     *)
(* time is for.  The handlers run as tasks of their own: the one that      *)
(* opens a list of typed days, with a check and a commit for each, and the *)
(* one that loads the times of a day let others run before they write what *)
(* they found; the rest are one step.                                      *)
(***************************************************************************)
EXTENDS Bookings

CONSTANT Lists   \* lists of typed days that are being opened at once

ASSUME PanelAssumption == Null \notin BookingIds /\ Null \notin Days

VARIABLES
  panel,      \* AdminFSM state, edit_day_id, reschedule_booking_id
  adding,     \* per list: the days still to open, and the one being opened
  choosing,   \* per message: the times admin_reschedule_day has loaded and
              \* not shown yet
  buttons     \* per announced booking: what its message offers, and the
              \* booking its other buttons name

panelVars == <<panel, adding, choosing, buttons>>
panelAll == <<vars, panelVars>>

PanelStates ==
  {"none", "add_day", "edit_default_hours", "edit_day_hours", "edit_prepay",
   "reschedule_pick_day", "reschedule_pick_time"}

NoPanel == [state |-> "none", day |-> Null, booking |-> Null]
NoList == [left |-> {}, day |-> Null]
Card(b) == [of |-> b, days |-> {}, times |-> {}]

PanelTypeOK ==
  /\ panel \in [state : PanelStates, day : Days \cup {Null},
                booking : BookingIds \cup {Null}]
  /\ adding \in [Lists -> [left : SUBSET Days, day : Days \cup {Null}]]
  /\ choosing \in [BookingIds -> SUBSET SlotKey]
  /\ buttons \in [BookingIds -> [of : BookingIds \cup {Null}, days : SUBSET Days,
                                 times : SUBSET SlotKey]]
  /\ panel.state = "edit_day_hours" => panel.day # Null
  /\ panel.state = "reschedule_pick_day" => panel.booking # Null

-----------------------------------------------------------------------------
PanelIn(state) == panel.state = state
ClearPanel == panel' = NoPanel
Show(m, shown) == buttons' = [buttons EXCEPT ![m] = shown]

(* /admin, home, hours, schedule, days_list: a screen that clears the form. *)
Home ==
  /\ panel # NoPanel
  /\ ClearPanel
  /\ UNCHANGED <<vars, adding, choosing, buttons>>

(* "back" of the days screen: the card of the booking, and no form.        *)
BackToBooking(m) ==
  /\ buttons[m].days # {}
  /\ ClearPanel
  /\ Show(m, Card(buttons[m].of))
  /\ UNCHANGED <<vars, adding, choosing>>

(* The prompts: the next text is an answer, whatever was asked before.  The *)
(* data of the form stay.                                                  *)
AskFor(state) ==
  /\ panel' = [panel EXCEPT !.state = state]
  /\ UNCHANGED <<vars, adding, choosing, buttons>>

AskDayHoursForgetsDay(d) ==   \* mutant: the prompt does not remember its day
  /\ d \in days
  /\ panel' = [panel EXCEPT !.state = "edit_day_hours"]
  /\ UNCHANGED <<vars, adding, choosing, buttons>>

AskDayHours(d) ==
  /\ d \in days
  /\ panel' = [panel EXCEPT !.state = "edit_day_hours", !.day = d]
  /\ UNCHANGED <<vars, adding, choosing, buttons>>

-----------------------------------------------------------------------------
(* Typed answers.  One that cannot be parsed, or that the service refuses, *)
(* leaves the form as it is.                                               *)
HoursSave(h) ==
  /\ PanelIn("edit_default_hours")
  /\ SetWorkSettings(h)
  /\ ClearPanel
  /\ UNCHANGED <<adding, choosing, buttons>>

PrepaySave ==
  /\ PanelIn("edit_prepay")
  /\ ClearPanel
  /\ UNCHANGED <<vars, adding, choosing, buttons>>

DayHoursSave(h) ==
  /\ PanelIn("edit_day_hours")
  /\ SetDayHours(panel.day, h)
  /\ ClearPanel
  /\ UNCHANGED <<adding, choosing, buttons>>

(* parse_days_column drops the days that are past.  The form stays as it   *)
(* is while the list is worked off, so a second list may begin meanwhile.  *)
Parsed(D) == {d \in D : d >= Today(now)}

AddDaySave(l, D) ==
  /\ PanelIn("add_day")
  /\ adding[l] = NoList /\ Parsed(D) # {}
  /\ adding' = [adding EXCEPT ![l] = [left |-> Parsed(D), day |-> Null]]
  /\ UNCHANGED <<vars, panel, choosing, buttons>>

CanBeAdded(d) ==
  /\ d >= Today(now)
  /\ d \notin days
  /\ GridTimes(work_settings.open, work_settings.close, work_settings.step) # {}

(* The last day of a list clears the form, whatever it holds by then.      *)
DayHandled(l, d) ==
  /\ adding' = [adding EXCEPT ![l] = [left |-> @.left \ {d}, day |-> Null]]
  /\ IF adding[l].left = {d} THEN ClearPanel ELSE UNCHANGED panel

(* The next day of a list: one that is past by now, open already or        *)
(* without a grid is skipped.                                              *)
AddDayNext(l, d) ==
  /\ d \in adding[l].left /\ adding[l].day = Null
  /\ IF CanBeAdded(d)
     THEN adding' = [adding EXCEPT ![l].day = d] /\ UNCHANGED panel
     ELSE DayHandled(l, d)
  /\ UNCHANGED <<vars, choosing, buttons>>

AddDayInsertMerges(l) ==   \* mutant: working_days.day is not unique
  /\ adding[l].day # Null
  /\ slots' = [s \in SlotKey |-> IF s[1] = adding[l].day THEN FreeSlot ELSE slots[s]]
  /\ days' = days \cup {adding[l].day}
  /\ DayHandled(l, adding[l].day)
  /\ UNCHANGED <<now, work_settings, day_step, bookings, choosing, buttons>>

(* The flush of the new row.  It stands outside the try around the commit: *)
(* when another list has opened the day since the check, its error leaves  *)
(* the handler, and with it the rest of the list and the open prompt.      *)
AddDayInsert(l) ==
  LET d == adding[l].day IN
  /\ d # Null
  /\ \/ AddDayFromDefaults(d) /\ DayHandled(l, d)
     \/ /\ d \in days
        /\ adding' = [adding EXCEPT ![l] = NoList]
        /\ UNCHANGED <<vars, panel>>
  /\ UNCHANGED <<choosing, buttons>>

-----------------------------------------------------------------------------
(* Buttons that carry all they need.                                       *)
DayResetYes(d) ==
  /\ ClearDayOverride(d)
  /\ ClearPanel
  /\ UNCHANGED <<adding, choosing, buttons>>

DelDayYes(d) == DeleteDay(d) /\ UNCHANGED panelVars
ToggleSlot(s) == ToggleSlotBlock(s) /\ UNCHANGED panelVars

(* cancel_yes: the message that asked turns into the list of bookings.     *)
CancelYes(b) ==
  /\ CancelBooking(b)
  /\ UNCHANGED panelVars

-----------------------------------------------------------------------------
(* The move of a booking: its button, a day, a time.  Cards with the button *)
(* are in the announcements and behind the list of bookings; "back" of the *)
(* times screen is such a button too, of the booking the form had then.    *)
HasButton(m) ==
  /\ buttons[m].of # Null
  /\ bookings[buttons[m].of] # AbsentBooking \/ buttons[m].times # {}

MoveStart(m) ==
  LET b == buttons[m].of IN
  /\ HasButton(m)
  /\ IF FreeDays = {}
     THEN ClearPanel /\ Show(m, Card(m))
     ELSE /\ panel' = [panel EXCEPT !.state = "reschedule_pick_day", !.booking = b]
          /\ Show(m, [of |-> b, days |-> FreeDays, times |-> {}])
  /\ UNCHANGED <<vars, adding, choosing>>

(* The state is checked by the filter, then the slots of the day are read. *)
MoveDay(m, d) ==
  /\ PanelIn("reschedule_pick_day")
  /\ d \in buttons[m].days /\ d \in days
  /\ choosing[m] = {}
  /\ IF d < Today(now) \/ FreeSlotsOf(d) = {}
     THEN Show(m, Card(m)) /\ UNCHANGED choosing
     ELSE choosing' = [choosing EXCEPT ![m] = FreeSlotsOf(d)] /\ UNCHANGED buttons
  /\ UNCHANGED <<vars, panel, adding>>

(* The form may hold another booking by now, or none.                      *)
MoveTimesShown(m) ==
  /\ choosing[m] # {}
  /\ panel' = [panel EXCEPT !.state = "reschedule_pick_time"]
  /\ Show(m, [of |-> panel.booking, days |-> {}, times |-> choosing[m]])
  /\ choosing' = [choosing EXCEPT ![m] = {}]
  /\ UNCHANGED <<vars, adding>>

AtTime(m, s) == PanelIn("reschedule_pick_time") /\ s \in buttons[m].times

MoveDone(m) ==
  /\ ClearPanel
  /\ Show(m, Card(m))
  /\ UNCHANGED <<adding, choosing>>

MoveTimeKeepsSlot(m, s) ==   \* mutant: the old slot stays taken
  /\ AtTime(m, s)
  /\ panel.booking # Null
  /\ RescheduleWithoutRelease(panel.booking, s)
  /\ MoveDone(m)

(* admin_reschedule_time: the slot is that of the button, the booking that *)
(* of the form.                                                            *)
MoveTime(m, s) ==
  /\ AtTime(m, s)
  /\ panel.booking # Null
  /\ Reschedule(panel.booking, s)
  /\ MoveDone(m)

(* The form has been cleared in the meantime, or the service refuses.      *)
MoveRefused(m, s) ==
  /\ AtTime(m, s)
  /\ panel.booking # Null => ~ENABLED Reschedule(panel.booking, s)
  /\ MoveDone(m)
  /\ UNCHANGED vars

(* The form and the running handlers die with the process; messages stay.  *)
PanelRestart ==
  /\ ClearPanel
  /\ adding' = [l \in Lists |-> NoList]
  /\ choosing' = [m \in BookingIds |-> {}]
  /\ UNCHANGED <<vars, buttons>>

(* No day ends between the check of a typed day and its insert, which are  *)
(* two statements of one call.                                             *)
PanelTick ==
  /\ \A l \in Lists : adding[l].day # Null => adding[l].day >= Today(now + 1)
  /\ Tick

-----------------------------------------------------------------------------
PanelInit ==
  /\ Init
  /\ panel = NoPanel
  /\ adding = [l \in Lists |-> NoList]
  /\ choosing = [m \in BookingIds |-> {}]
  /\ buttons = [m \in BookingIds |-> Card(m)]

PanelStep ==
  \/ Home
  \/ \E m \in BookingIds : BackToBooking(m)
  \/ \E state \in {"add_day", "edit_default_hours", "edit_prepay"} : AskFor(state)
  \/ \E d \in Days : AskDayHours(d)
  \/ \E h \in Hours : HoursSave(h)
  \/ PrepaySave
  \/ \E h \in Hours : DayHoursSave(h)
  \/ \E l \in Lists, D \in SUBSET Days : AddDaySave(l, D)
  \/ \E l \in Lists, d \in Days : AddDayNext(l, d)
  \/ \E l \in Lists : AddDayInsert(l)
  \/ \E d \in Days : DayResetYes(d)
  \/ \E d \in Days : DelDayYes(d)
  \/ \E s \in SlotKey : ToggleSlot(s)
  \/ \E b \in BookingIds : CancelYes(b)
  \/ \E m \in BookingIds : MoveStart(m)
  \/ \E m \in BookingIds, d \in Days : MoveDay(m, d)
  \/ \E m \in BookingIds : MoveTimesShown(m)
  \/ \E m \in BookingIds, s \in SlotKey : MoveTime(m, s)
  \/ \E m \in BookingIds, s \in SlotKey : MoveRefused(m, s)

PanelNext ==
  \/ PanelStep
  \/ PanelRestart
  \/ (PanelTick \/ ClientStep \/ SchedulerStep) /\ UNCHANGED panelVars

PanelSpec == PanelInit /\ [][PanelNext]_panelAll

-----------------------------------------------------------------------------
(* "Never merge default hours into an existing day": whatever the handlers *)
(* of typed days have checked and however they overlap, none changes the   *)
(* slots or the hours of a day that is open when it inserts.               *)
NeverMergesHours ==
  [][adding' # adding =>
       \A d \in days \cap days' :
         /\ day_step'[d] = day_step[d]
         /\ \A s \in SlotKey : s[1] = d => slots'[s] = slots[s]]_panelAll

(* "One active message": a chosen time moves the booking in whose message  *)
(* it was chosen.                                                          *)
MovesBookingOfScreen ==
  [][\A m \in BookingIds, s \in SlotKey :
       MoveTime(m, s) =>
         \A c \in BookingIds \ {m} : bookings'[c] = bookings[c]]_panelAll
=============================================================================
