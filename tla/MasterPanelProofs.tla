-------------------------- MODULE MasterPanelProofs --------------------------
(***************************************************************************)
(* The panel of the master implements the services it calls: whatever he   *)
(* taps and types in whatever order, the theorems of BookingsProofs hold.  *)
(* That needs the types of the panel, because a typed text and a chosen    *)
(* time are applied to the day and the booking the form remembers.  Beside *)
(* it run the forms of the clients: the bot of both does what either does  *)
(* alone, so what is proved of each is true of the two together.           *)
(***************************************************************************)
EXTENDS Bot, ClientFormProofs

(* Each handler of the panel is one call of the master, or none.           *)
LEMMA PanelCallsMaster ==
  ASSUME TypeOK, PanelTypeOK, PanelStep
  PROVE  MasterStep \/ UNCHANGED vars
<1>1. ASSUME NEW h \in Hours, HoursSave(h)
      PROVE  MasterStep
  BY <1>1 DEF HoursSave, MasterStep
<1>2. ASSUME NEW h \in Hours, DayHoursSave(h)
      PROVE  MasterStep
  <2>1. panel.day \in Days
    BY <1>2 DEF DayHoursSave, SetDayHours, TypeOK
  <2> QED
    BY <1>2, <2>1 DEF DayHoursSave, MasterStep
<1>3. ASSUME NEW l \in Lists, AddDayInsert(l)
      PROVE  MasterStep \/ UNCHANGED vars
  <2>1. adding[l].day \in Days
    BY <1>3 DEF AddDayInsert, PanelTypeOK
  <2> QED
    BY <1>3, <2>1 DEF AddDayInsert, MasterStep
<1>4. ASSUME NEW d \in Days, DayResetYes(d) \/ DelDayYes(d)
      PROVE  MasterStep
  BY <1>4 DEF DayResetYes, DelDayYes, MasterStep
<1>5. ASSUME NEW s \in SlotKey, ToggleSlot(s)
      PROVE  MasterStep
  BY <1>5 DEF ToggleSlot, MasterStep
<1>6. ASSUME NEW b \in BookingIds, CancelYes(b)
      PROVE  MasterStep
  BY <1>6 DEF CancelYes, MasterStep
<1>7. ASSUME NEW m \in BookingIds, NEW s \in SlotKey, MoveTime(m, s)
      PROVE  MasterStep
  <2>1. panel.booking \in BookingIds
    BY <1>7 DEF MoveTime, PanelTypeOK
  <2> QED
    BY <1>7, <2>1 DEF MoveTime, MasterStep
<1>8. ASSUME NEW m \in BookingIds, NEW s \in SlotKey, MoveRefused(m, s)
      PROVE  UNCHANGED vars
  BY <1>8 DEF MoveRefused
<1>9. ASSUME NEW l \in Lists, NEW D, NEW d,
             AddDaySave(l, D) \/ AddDayNext(l, d)
      PROVE  UNCHANGED vars
  BY <1>9 DEF AddDaySave, AddDayNext
<1>10. ASSUME NEW m \in BookingIds, NEW d \in Days, MoveDay(m, d)
       PROVE  UNCHANGED vars
  BY <1>10 DEF MoveDay
<1>11. ASSUME NEW state, AskFor(state)
       PROVE  UNCHANGED vars
  BY <1>11 DEF AskFor
<1>12. CASE \/ Home \/ PrepaySave
            \/ \E m \in BookingIds : BackToBooking(m) \/ MoveStart(m) \/ MoveTimesShown(m)
            \/ \E d \in Days : AskDayHours(d)
  BY <1>12 DEF Home, PrepaySave, MoveTimesShown, BackToBooking,
     MoveStart, AskDayHours
<1> QED
  BY <1>1, <1>2, <1>3, <1>4, <1>5, <1>6, <1>7, <1>8, <1>9, <1>10,
   <1>11, <1>12 DEF PanelStep

LEMMA PanelStepIsServiceStep ==
  ASSUME TypeOK, PanelTypeOK, [PanelNext]_panelAll
  PROVE  [Next]_vars
<1>1. CASE UNCHANGED panelAll \/ PanelRestart
  BY <1>1 DEF panelAll, PanelRestart
<1>2. CASE (PanelTick \/ ClientStep \/ SchedulerStep) /\ UNCHANGED panelVars
  BY <1>2 DEF Next, PanelTick
<1>3. CASE PanelStep
  BY <1>3, PanelCallsMaster DEF Next
<1> QED
  BY <1>1, <1>2, <1>3 DEF PanelNext

-----------------------------------------------------------------------------
(* What a message may offer is well typed.                                 *)
LEMMA OffersTyped ==
  ASSUME TypeOK
  PROVE  FreeDays \subseteq Days /\ \A d : FreeSlotsOf(d) \subseteq SlotKey
BY DEF TypeOK, FreeDays, FreeSlotsOf

(* A form that has been cleared, and a message that has been changed.      *)
Screens == [of : BookingIds \cup {Null}, days : SUBSET Days, times : SUBSET SlotKey]
OpenLists == [left : SUBSET Days, day : Days \cup {Null}]

LEMMA NoPanelTyped ==
  /\ NoPanel \in [state : PanelStates, day : Days \cup {Null},
                  booking : BookingIds \cup {Null}]
  /\ NoPanel.state = "none"
  /\ NoList \in OpenLists
  /\ \A b \in BookingIds \cup {Null} : Card(b) \in Screens
BY DEF NoPanel, PanelStates, NoList, Card, OpenLists, Screens

(* A message that is turned into another screen.                           *)
LEMMA ShowTyped ==
  ASSUME NEW m, NEW shown \in Screens, buttons \in [BookingIds -> Screens],
         Show(m, shown)
  PROVE  buttons' \in [BookingIds -> Screens]
BY DEF Show

(* The form alone: its prompts name the day and the booking they ask for.  *)
PanelFormOK ==
  /\ panel \in [state : PanelStates, day : Days \cup {Null},
                booking : BookingIds \cup {Null}]
  /\ panel.state = "edit_day_hours" => panel.day # Null
  /\ panel.state = "reschedule_pick_day" => panel.booking # Null

(* A cleared form waits for nothing.                                       *)
LEMMA ClearedFormOK ==
  ASSUME ClearPanel
  PROVE  PanelFormOK'
BY NoPanelTyped DEF ClearPanel, PanelFormOK

(* Every handler of the panel leaves a form that knows what it asks for.   *)
LEMMA PanelFormStep ==
  ASSUME TypeOK, PanelTypeOK, PanelStep \/ PanelRestart
  PROVE  PanelFormOK'
<1>1. PanelFormOK
  BY DEF PanelTypeOK, PanelFormOK
<1>2. CASE UNCHANGED panel
  BY <1>1, <1>2 DEF PanelFormOK
<1>3. CASE ClearPanel
  BY <1>3, ClearedFormOK
<1>4. ASSUME NEW state \in {"add_day", "edit_default_hours", "edit_prepay"},
             AskFor(state)
      PROVE  PanelFormOK'
  BY <1>1, <1>4 DEF AskFor, PanelFormOK, PanelStates
<1>5. ASSUME NEW d \in Days, AskDayHours(d)
      PROVE  PanelFormOK'
  BY <1>1, <1>5, PanelAssumption DEF AskDayHours, PanelFormOK, PanelStates
<1>6. ASSUME NEW m \in BookingIds, MoveStart(m)
      PROVE  PanelFormOK'
  <2>1. buttons[m].of \in BookingIds
    BY <1>6 DEF MoveStart, HasButton, PanelTypeOK
  <2> QED
    BY <1>1, <1>3, <1>6, <2>1, PanelAssumption DEF MoveStart, PanelFormOK, PanelStates
<1>7. ASSUME NEW m \in BookingIds, MoveTimesShown(m)
      PROVE  PanelFormOK'
  BY <1>1, <1>7 DEF MoveTimesShown, PanelFormOK, PanelStates
<1>8. \/ UNCHANGED panel \/ ClearPanel
      \/ \E m \in BookingIds : MoveTimesShown(m)
      \/ \E state \in {"add_day", "edit_default_hours", "edit_prepay"} : AskFor(state)
      \/ \E d \in Days : AskDayHours(d)
      \/ \E m \in BookingIds : MoveStart(m)
  BY DEF PanelStep, Home, BackToBooking, HoursSave, PrepaySave, DayHoursSave,
     AddDaySave, AddDayNext, AddDayInsert, DayHandled, DayResetYes, DelDayYes,
     ToggleSlot, CancelYes, MoveDay, MoveTime, MoveRefused, MoveDone, PanelRestart,
     panelVars
<1> QED
  BY <1>2, <1>3, <1>4, <1>5, <1>6, <1>7, <1>8

(* The messages and the running handlers: what they hold comes from the    *)
(* queries of the screens.                                                 *)
PanelWorkOK ==
  /\ adding \in [Lists -> OpenLists]
  /\ choosing \in [BookingIds -> SUBSET SlotKey]
  /\ buttons \in [BookingIds -> Screens]

(* Every handler of the panel leaves messages that offer stored slots.     *)
LEMMA PanelWorkStep ==
  ASSUME TypeOK, PanelTypeOK, PanelStep \/ PanelRestart
  PROVE  PanelWorkOK'
<1>0. PanelWorkOK
  BY DEF PanelTypeOK, PanelWorkOK, OpenLists, Screens
<1>1. CASE UNCHANGED <<adding, choosing, buttons>>
  BY <1>0, <1>1 DEF PanelWorkOK
<1>2. ASSUME UNCHANGED <<adding, choosing>>, NEW m \in BookingIds,
             NEW b \in BookingIds \cup {Null}, Show(m, Card(b))
      PROVE  PanelWorkOK'
  <2>1. Card(b) \in Screens
    BY NoPanelTyped
  <2>2. buttons' \in [BookingIds -> Screens]
    BY <1>0, <1>2, <2>1, ShowTyped DEF PanelWorkOK
  <2> QED
    BY <1>0, <1>2, <2>2 DEF PanelWorkOK
<1>3. ASSUME NEW l \in Lists, NEW D \in SUBSET Days, AddDaySave(l, D)
      PROVE  PanelWorkOK'
  BY <1>0, <1>3 DEF AddDaySave, Parsed, PanelWorkOK, OpenLists
<1>4. ASSUME NEW l \in Lists, NEW d \in Days, UNCHANGED <<choosing, buttons>>,
             \/ adding' = [adding EXCEPT ![l].day = d]
             \/ adding' = [adding EXCEPT ![l] = NoList]
             \/ DayHandled(l, d)
      PROVE  PanelWorkOK'
  BY <1>0, <1>4, NoPanelTyped DEF DayHandled, PanelWorkOK, OpenLists
<1>5. ASSUME NEW m \in BookingIds, MoveStart(m)
      PROVE  PanelWorkOK'
  <2>0. buttons[m].of \in BookingIds
    BY <1>5 DEF MoveStart, HasButton, PanelTypeOK
  <2>1. [of |-> buttons[m].of, days |-> FreeDays, times |-> {}] \in Screens
    BY <2>0, OffersTyped DEF Screens
  <2>2. CASE Show(m, [of |-> buttons[m].of, days |-> FreeDays, times |-> {}])
    <3>1. buttons' \in [BookingIds -> Screens]
      BY <1>0, <2>1, <2>2, ShowTyped DEF PanelWorkOK
    <3> QED
      BY <1>0, <1>5, <3>1 DEF MoveStart, PanelWorkOK
  <2> QED
    BY <1>2, <1>5, <2>2 DEF MoveStart
<1>6. ASSUME NEW m \in BookingIds, NEW d \in Days, MoveDay(m, d)
      PROVE  PanelWorkOK'
  <2>1. CASE /\ choosing' = [choosing EXCEPT ![m] = FreeSlotsOf(d)]
             /\ UNCHANGED buttons
    BY <1>0, <1>6, <2>1, OffersTyped DEF MoveDay, PanelWorkOK
  <2> QED
    BY <1>2, <1>6, <2>1 DEF MoveDay
<1>7. ASSUME NEW m \in BookingIds, MoveTimesShown(m)
      PROVE  PanelWorkOK'
  <2>1. [of |-> panel.booking, days |-> {}, times |-> choosing[m]] \in Screens
    BY DEF PanelTypeOK, Screens
  <2>2. buttons' \in [BookingIds -> Screens]
    BY <1>0, <1>7, <2>1, ShowTyped DEF MoveTimesShown, PanelWorkOK
  <2> QED
    BY <1>0, <1>7, <2>2 DEF MoveTimesShown, PanelWorkOK
<1>8. CASE PanelRestart
  BY <1>0, <1>8, NoPanelTyped DEF PanelRestart, PanelWorkOK
<1>10. ASSUME NEW l \in Lists, NEW d \in Days, AddDayNext(l, d)
       PROVE  PanelWorkOK'
  BY <1>4, <1>10 DEF AddDayNext
<1>11. ASSUME NEW l \in Lists, AddDayInsert(l)
       PROVE  PanelWorkOK'
  <2>1. adding[l].day \in Days
    BY <1>11 DEF AddDayInsert, PanelTypeOK
  <2> QED
    BY <1>4, <1>11, <2>1 DEF AddDayInsert
<1>12. ASSUME NEW m \in BookingIds, BackToBooking(m)
       PROVE  PanelWorkOK'
  <2>1. buttons[m].of \in BookingIds \cup {Null}
    BY DEF PanelTypeOK
  <2> QED
    BY <1>2, <1>12, <2>1 DEF BackToBooking
<1>9. \/ UNCHANGED <<adding, choosing, buttons>>
      \/ \E m \in BookingIds : UNCHANGED <<adding, choosing>> /\ Show(m, Card(m))
      \/ \E m \in BookingIds : BackToBooking(m)
      \/ \E l \in Lists, D \in SUBSET Days : AddDaySave(l, D)
      \/ \E l \in Lists, d \in Days : AddDayNext(l, d)
      \/ \E l \in Lists : AddDayInsert(l)
      \/ \E m \in BookingIds : MoveStart(m)
      \/ \E m \in BookingIds, d \in Days : MoveDay(m, d)
      \/ \E m \in BookingIds : MoveTimesShown(m)
      \/ PanelRestart
  BY DEF PanelStep, Home, AskFor, AskDayHours, HoursSave,
     PrepaySave, DayHoursSave, DayResetYes, DelDayYes, ToggleSlot, CancelYes,
     MoveTime, MoveRefused, MoveDone, panelVars
<1> QED
  BY <1>1, <1>2, <1>3, <1>5, <1>6, <1>7, <1>8, <1>9, <1>10, <1>11, <1>12

(* The panel starts without a form, and every message with its card.       *)
LEMMA PanelTypeInit == PanelInit => PanelTypeOK
BY NoPanelTyped DEF PanelInit, PanelTypeOK, OpenLists, Screens

(* Steps of the panel, and those of clients and jobs beside it.            *)
LEMMA PanelTypeStep ==
  ASSUME TypeOK, PanelTypeOK, [PanelNext]_panelAll
  PROVE  PanelTypeOK'
<1>1. CASE PanelStep \/ PanelRestart
  BY <1>1, PanelFormStep, PanelWorkStep
  DEF PanelFormOK, PanelWorkOK, PanelTypeOK, OpenLists, Screens
<1>2. CASE UNCHANGED panelVars
  BY <1>2 DEF panelVars, PanelTypeOK
<1> QED
  BY <1>1, <1>2 DEF PanelNext, panelAll

-----------------------------------------------------------------------------
(* Both invariants together: the typed handlers call the service with the  *)
(* day and the booking of the form, and the screens offer what it stores.  *)
LEMMA PanelInvariant == PanelSpec => [](TypeOK /\ PanelTypeOK)
<1>1. PanelInit => TypeOK /\ PanelTypeOK
  BY TypeInit, PanelTypeInit DEF PanelInit
<1>2. TypeOK /\ PanelTypeOK /\ [PanelNext]_panelAll => (TypeOK /\ PanelTypeOK)'
  BY PanelStepIsServiceStep, TypeStep, PanelTypeStep
<1> QED
  BY <1>1, <1>2, PTL DEF PanelSpec

(* Whatever is tapped and typed, in whatever order, across restarts and    *)
(* from old messages: a prompt that waits for the hours of a day has its   *)
(* day, a choice of a day has its booking, and messages offer real slots.  *)
THEOREM PanelWellFormed == PanelSpec => []PanelTypeOK
<1>1. TypeOK /\ PanelTypeOK => PanelTypeOK
  OBVIOUS
<1> QED
  BY <1>1, PanelInvariant, PTL

(* The panel implements the booking services: each of its handlers is one  *)
(* call of ScheduleService or BookingService, or changes no row.           *)
THEOREM PanelImplementsService == PanelSpec => Spec
<1>1. PanelInit => Init
  BY DEF PanelInit
<1>2. TypeOK /\ PanelTypeOK /\ [PanelNext]_panelAll => [Next]_vars
  BY PanelStepIsServiceStep
<1> QED
  BY <1>1, <1>2, PanelInvariant, PTL DEF PanelSpec, Spec

(* What BookingsProofs shows of the services alone holds under the panel:  *)
(* a visit owns its slots, no slot leaks, no two live visits collide.      *)
THEOREM PanelKeepsSchedule ==
  ASSUME IndexesBuilt, InitialSteps = {DefaultStep}
  PROVE  PanelSpec => []ScheduleInv
  BY PanelImplementsService, ScheduleInvariant, PTL

(* However many lists of typed days are being opened, and whatever each    *)
(* has checked before the others inserted: none of them changes the slots  *)
(* or the hours of a day that is open already.                             *)
THEOREM ListsNeverMergeHours == PanelSpec => NeverMergesHours
<1> DEFINE OpenDaysSpared ==
      adding' # adding =>
        \A d \in days \cap days' :
          /\ day_step'[d] = day_step[d]
          /\ \A s \in SlotKey : s[1] = d => slots'[s] = slots[s]
<1>1. ASSUME TypeOK, PanelTypeOK, [PanelNext]_panelAll
      PROVE  [OpenDaysSpared]_panelAll
  <2>1. CASE UNCHANGED adding \/ UNCHANGED vars
    BY <2>1 DEF vars, schedule
  <2>2. ASSUME NEW l \in Lists, AddDayInsert(l), AddDayFromDefaults(adding[l].day)
        PROVE  OpenDaysSpared
    BY <2>2 DEF AddDayFromDefaults, TypeOK
  <2>3. \/ UNCHANGED adding \/ UNCHANGED vars
        \/ \E l \in Lists : AddDayInsert(l) /\ AddDayFromDefaults(adding[l].day)
    BY <1>1 DEF PanelNext, PanelStep, PanelRestart, panelAll, panelVars, Home,
       BackToBooking, AskFor, AskDayHours, HoursSave, PrepaySave, DayHoursSave,
       AddDaySave, AddDayNext, AddDayInsert, DayResetYes, DelDayYes, ToggleSlot,
       CancelYes, MoveStart, MoveDay, MoveTimesShown, MoveTime, MoveRefused, MoveDone
  <2> QED
    BY <2>1, <2>2, <2>3
<1> QED
  BY <1>1, PanelInvariant, PTL DEF PanelSpec, NeverMergesHours

-----------------------------------------------------------------------------
(***************************************************************************)
(* The panel and the forms of the clients in one process.                  *)
(***************************************************************************)

(* To the panel, the clients with their forms are clients: every call of a *)
(* form is one MasterPanel expects of them, or looks like the master's own *)
(* cancellation.                                                           *)
LEMMA BotStepIsPanelStep == [BotNext]_botVars => [PanelNext]_panelAll
<1> SUFFICES ASSUME [BotNext]_botVars PROVE [PanelNext]_panelAll
  OBVIOUS
<1>1. ASSUME NEW u \in Users, FormStep(u), UNCHANGED panelVars
      PROVE  [PanelNext]_panelAll
  <2>1. CASE SomeChooseTime
    BY <1>1, <2>1 DEF SomeChooseTime, ChooseTime, ClientStep, PanelNext
  <2>2. CASE FormCall
    BY <1>1, <2>2 DEF FormCall, ClientStep, PanelNext, PanelStep, CancelYes, panelAll
  <2> QED
    BY <1>1, <2>1, <2>2, HandlersMakeOneCall
<1>2. CASE UNCHANGED botVars \/ PanelStep \/ ProcessRestart
  BY <1>2 DEF botVars, panelAll, PanelNext, ProcessRestart
<1>3. CASE (PanelTick \/ SchedulerStep) /\ UNCHANGED <<formVars, panelVars>>
  BY <1>3 DEF PanelNext
<1> QED
  BY <1>1, <1>2, <1>3 DEF BotNext

(* What is orphaned is remembered, so a step that leaves tables and forms  *)
(* alone leaves it alone as well.                                          *)
OrphansRemembered ==
  orphaned \subseteq {p \in Users \X BookingIds : p[2] \in Remembered(p[1])}

LEMMA OrphansStayRemembered == BotSpec => []OrphansRemembered
<1>1. BotInit => OrphansRemembered
  BY DEF BotInit, FormInit, OrphansRemembered
<1>2. ASSUME OrphansRemembered, [BotNext]_botVars
      PROVE  OrphansRemembered'
  <2>1. CASE UNCHANGED botVars
    BY <1>2, <2>1 DEF botVars, formVars, idVars, OrphansRemembered, Remembered
  <2>2. CASE IdHistory
    BY <2>2 DEF IdHistory, OrphansRemembered
  <2> QED
    BY <1>2, <2>1, <2>2 DEF BotNext
<1> QED
  BY <1>1, <1>2, PTL DEF BotSpec

(* To the forms, the panel is the master, as long as it is well formed.    *)
LEMMA BotStepIsFormStep ==
  ASSUME TypeOK, PanelTypeOK, OrphansRemembered, [BotNext]_botVars
  PROVE  [FormNext]_allVars
<1>1. CASE UNCHANGED botVars
  BY <1>1 DEF botVars, allVars
<1>2. CASE ((\E u \in Users : FormStep(u)) \/ ProcessRestart) /\ IdHistory
  BY <1>2 DEF FormNext, ProcessRestart
<1>3. CASE PanelStep /\ UNCHANGED formVars /\ IdHistory
  <2>1. CASE UNCHANGED vars
    <3>1. Rows' = Rows /\ \A u : Remembered(u)' = Remembered(u)
      BY <1>3, <2>1 DEF vars, formVars, Rows, Remembered
    <3>2. UNCHANGED idVars
      BY <1>3, <3>1 DEF IdHistory, OrphansRemembered, idVars
    <3> QED
      BY <1>3, <2>1, <3>2 DEF allVars
  <2> QED
    BY <1>3, <2>1, PanelCallsMaster DEF FormNext
<1>4. CASE (PanelTick \/ SchedulerStep) /\ UNCHANGED <<formVars, panelVars>> /\ IdHistory
  BY <1>4 DEF FormNext, PanelTick
<1> QED
  BY <1>1, <1>2, <1>3, <1>4 DEF BotNext

(* Forms and panel together do what each does by itself, so every theorem  *)
(* about one of them holds of the whole bot.                               *)
THEOREM BotImplementsBoth == BotSpec => FormSpec /\ PanelSpec
<1>1. BotSpec => PanelSpec
  <2>1. BotInit => PanelInit
    BY DEF BotInit
  <2> QED
    BY <2>1, BotStepIsPanelStep, PTL DEF BotSpec, PanelSpec
<1>2. BotInit => FormInit
  BY DEF BotInit
<1>3. TypeOK /\ PanelTypeOK /\ OrphansRemembered /\ [BotNext]_botVars
        => [FormNext]_allVars
  BY BotStepIsFormStep
<1> QED
  BY <1>1, <1>2, <1>3, PanelInvariant, OrphansStayRemembered, PTL DEF BotSpec, FormSpec

(* So whatever the clients and the master tap and type, in whatever order, *)
(* across restarts and from old messages: the schedule stays consistent, a *)
(* paid visit and a standing hold are kept, and the agenda changes as the  *)
(* salon promises.                                                         *)
THEOREM BotKeepsPromises ==
  ASSUME IndexesBuilt, InitialSteps = {DefaultStep}, Null \notin Promise!Visit
  PROVE  BotSpec => ServiceKept
  BY BotImplementsBoth, FormImplementsService, ServicesKeepAll, PTL

(* And the forms wait for the receipt that is owed and reach no booking    *)
(* but their own client's, the master's moves, cancellations and deleted   *)
(* days notwithstanding, except under an id that was handed out again      *)
(* while a form of its old booking was open.                               *)
THEOREM BotFormsStayOwn ==
  BotSpec => /\ [](OwnershipInv /\ FormWaitsForPending)
             /\ LeaveSparesOthers /\ ReceiptForOwnVisit
  BY BotImplementsBoth, FormsKeepOwnBooking, FormsWaitForPending, LeavingSparesOthers,
     ReceiptsForOwnVisits, PTL
=============================================================================
