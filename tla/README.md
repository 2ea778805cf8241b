# A formal model of the booking bot

The repository is a Telegram bot for a salon with one master: clients hold a
slot, send the receipt of a prepayment and get a visit; the master opens days,
blocks slots, moves and cancels visits. It is one asyncio process over SQLite or
PostgreSQL. This directory holds TLA+ models of the parts that keep state, TLC
instances that check them, and theorems checked by TLAPS.

Paths below are relative to `src/`. `PROJECT.json` maps every definition to the
lines it stands for, and lists the hazards, runs, mutants, findings and theorems.

    tlc -workers 2 -config Races.cfg MCBookingRaces.tla
    tlc -workers 2 -config Bookings_two_days.cfg MCBookings.tla
    tlapm BookingsProofs.tla

## 1. Inventory

| part | source | state | operations |
|---|---|---|---|
| schedule and bookings | `services/schedule_service.py`, `domain/slots.py`, `domain/dates.py` | tables `work_settings`, `working_days`, `slots`, `bookings` | hold, confirm, cancel, move, open/change/reset/delete a day, toggle a slot, sweep holds, settle past visits, purge past days |
| schema, engine | `db/models.py`, `db/session.py` | partial unique indexes on live bookings, foreign keys, SQLite's single writer, PostgreSQL's row locks | commit or rollback of one session per call |
| client's form | `handlers/booking.py`, `handlers/menu.py`, `handlers/start.py` | FSM state and data per client, in memory | name, phone, day, time, receipt, back, leave |
| master's panel | `handlers/admin.py`, `handlers/states.py` | FSM state and data of the master, in memory; the buttons of the messages already sent | prompts, typed answers, screens of a move |
| scheduler | `infrastructure/scheduler.py` | APScheduler jobs at fixed intervals | sweeps, reminders, backup, health check |
| reminders | `ScheduleService.due_reminders`, `mark_reminded`, `services/notify_service.py` | flags of a booking; the list a run has read | read what is due, send, mark |
| backup | `services/backup_service.py` | files; `last_backup_at` | copy, verify, rotate, remember, deliver |
| database health | `services/db_health.py`, `services/app_state.py` | `bookings_seen`, a row of the same database | collect, compare, alert, store |
| alerts, errors | `services/alert_service.py`, `middlewares/error.py` | time of the last message per topic, in memory | send with a cooldown, forced send |
| throttling | `middlewares/throttling.py` | tokens and last update per user, in memory | allow, refuse, clean up |
| process | `main.py`, `infrastructure/container.py` | polling loop and its back-off | start, reconnect, stop |
| presentation, portfolio, media cache, settings, parsing, logging, scripts | `presentation/`, `services/portfolio_service.py`, `services/media_cache.py`, `config/`, `domain/parsing.py`, `app_logging/`, `scripts/` | none a booking depends on | formatting, Telegram I/O, operator's tools |

How they meet:

- Handlers and jobs call the services; each call opens one session (two in
  `cancel_by_client`), reads with several awaits, and commits once.
- Updates are handled as tasks, so a handler of one client, the master's, and a
  job overlap at every await. Nothing but the database orders them.
- Forms are in memory and refer to bookings by id. They outlive the bookings they
  name, and die with the process; messages with their buttons outlive both.
- An update passes the error middleware and the throttle before a handler sees it;
  what a handler raises comes back to the error middleware, which answers the
  client and alerts the master. Jobs and the event loop use the same alerts.
- Health, backup and the services share one database file, and the health
  watermark lies in the database it watches.

What makes each part correct, and where it is hard:

| part | must hold | hard because |
|---|---|---|
| services | a visit that is not over owns its slot; no busy slot without a booking; one live booking per client; a paid visit and a standing hold are taken by nothing but a cancellation | blocks are recomputed from the current grid; holds lapse without an event; cancellations arrive late |
| concurrent calls | no double booking, no double confirmation, no undoing of a confirmation | rows are read, decided upon and written by primary key, without a version check |
| form | it touches only its own client's booking and waits for the receipt that is owed; leaving it undoes no paid visit | ids may be handed out again; the receipt handler awaits between its steps |
| panel | a typed text and a chosen time apply to the day and the booking on the screen; opening a day never changes one that is open | one form, many messages; lists of days worked off side by side |
| reminders | once per visit and time, and in time | send, mark and move are separate steps; sends fail or are answered too late |
| watch and backup | a loss is announced; a restorable copy exists while the bot believes in one; a salon without copies hears of it | crashes in the middle, counts and writes that fail silently |
| throttle | nobody gets through more often than a bucket allows; a client who goes on trying gets through | tokens are computed when looked at, users are forgotten now and then |
| alerts | one message per topic and cooldown, nobody silenced by a message that failed | several senders wait for Telegram at once and end in any order |
| polling | a lost connection is taken up again | the back-off is never set back |

## 2. Modules

| module | models | abstracts |
|---|---|---|
| `SalonData` | rows, grid arithmetic, `IsBookableSlot`, consecutive blocks, the unique indexes that were built (`Indexes`) | a row that is not there has status `"absent"`; time in units |
| `Agenda` | nothing of the code: what clients are promised | slot rows, booking rows, sweeps |
| `Bookings` | `ScheduleService` and `BookingService`, one action per call | texts, names, amounts; a call that raises is not enabled |
| `BookingRaces` | seven of those calls, split into their SELECTs and their flush | a fixed grid, visits in the future |
| `ClientForm` (EXTENDS `Bookings`) | every client's form, receipts in flight, restarts, ids | what was typed |
| `MasterPanel` (EXTENDS `Bookings`) | `AdminFSM`, lists of typed days, the screens of a move | screens that only show data |
| `Bot` (EXTENDS `ClientForm`, `MasterPanel`) | clients and master in one process, over one database | the master does not book as a client |
| `Reminders` | due, send, mark, moves in two steps, crash | the rest of a booking's life |
| `DataWatch` | check, backup, their alerts, disk and process failures | what is in the tables, except how much |
| `RateLimit` | nothing of the code: a bucket that fills by itself | time stamps, tables, cleanups |
| `Throttle` | the throttle's table of budgets | times as ages, tokens in ticks |
| `Alerts` | `AlertService.send` with several senders at once | texts; times as ages |
| `Updates` (EXTENDS `Throttle`, `Alerts`) | polling loop, error middleware, jobs and loop handler as senders, the two parts above | what a handler does to the bookings |
| `*Proofs` | theorems about the module of that name | |
| `MC*` | values for TLC and symmetry | |

Specifications that implement others:

| abstract | detailed | mapping | by TLC | by proof |
|---|---|---|---|---|
| `Agenda` | `Bookings` | `agenda`: of each client the one live booking that is not over, with its slot, its end, and its hold | `AgendaKept` in `bookings_two_days` | `AgendaImplemented` |
| `Bookings` | `ClientForm`, `MasterPanel` | the identity: their variables include those of `Bookings` | `Spec` in `panel` | `FormImplementsService`, `PanelImplementsService` |
| `ClientForm`, `MasterPanel` | `Bot` | the identity | | `BotImplementsBoth` |
| `Bookings` | `BookingRaces`, where no reading was out of date | the identity on the tables: a call happens when it commits | `SerialCalls` in `races` | `SerialHistoriesAreServices` |
| `RateLimit` | `Throttle` in `Updates` | `Level`: what an entry would be refilled to now, a full bucket for a user without one | `BucketImplemented` in `updates` | `ThrottleImplementsBucket` |

`BookingRaces` is the services one level down. As a whole it does not implement
`Bookings`: the first finding is one of the places where it cannot. How far it is
from that is said twice. `OnlyOldReadingsHarm`: a call takes the slot or the life
of a visit it was not asked about only if a row it had loaded has changed before
its commit, so a version check in the flush would close every such race.
`SerialCalls`: a commit whose call is `UpToDate` (every SELECT it has made would
still return the same, and its clock has not moved on) does to the tables what
the same call does in `Bookings`, guards included. Calls that run one at a time
are always up to date, so `Bookings`, where a call is one step, is the right
specification of them.

### `Bookings`

State: `now`, the clock; `work_settings`; `days` and `day_step`, the
`working_days` rows; `slots` and `bookings`, functions from keys to rows. Each
action is named for the method (`HoldSlot`, `ConfirmWithReceipt`,
`ReceiptTooLate`, `AttachLateReceipt`, `CancelBooking`, `CancelByClient`,
`SetDayHours`, `ClearDayOverride`, `Reschedule`, `ReleaseExpiredHolds`,
`SettlePastBookings`, `PurgePastDays`, ...). Its guard collects the early
returns and raises. `Commit` is the end of every call that writes bookings: it
has the unique indexes as a guard, because a violation rolls the call back.
`init_db` creates each index in a transaction of its own and only logs a failure,
so `Indexes` says which of them exist: the theorems about slots assume both
(`IndexesBuilt`), and `bookings_liveness` runs with neither, where
`OneLivePerClient` rests on the checks of `hold_slot` alone.
The first part of `hold_slot`, the closing of the client's own past visits, and
the rebuilding of slots inside `set_day_hours` are part of those actions.
`MayHold` is what `hold_slot` checks and `BookingsWithHold` what it then writes,
so that `HoldMeetsNoIndex` can say the indexes have nothing left to refuse.

### `BookingRaces`

A session has the arguments of its call, the clock it read, the rows it has
loaded and those it has locked. `Flush` writes what SQLAlchemy writes: the
columns that differ from what was loaded, by primary key. A SELECT does not
refresh a row the session has already: `reschedule` loads the whole day of its
booking first (`RescheduleLoadDay`), so the locking SELECT of a target on the same
day decides on the row as it was before the lock. `confirm_with_receipt`
is the one call with a conditional UPDATE (`StillPending`). The setting of a
history, drawn at its start, says which calls are made and whether `FOR UPDATE`
locks rows, as on PostgreSQL, or is not emitted, as on SQLite. `Abandon` covers a
crash, a lost lock wait, a deadlock victim and an integrity error.

### `ClientForm`

`form` is what aiogram keeps, `paying` the receipt handler between its awaits
(confirm, then clear the form). `FreshId` is how an id is chosen, by the `policy`
a history draws at its start: SQLite without AUTOINCREMENT gives `max(id) + 1`,
which hands an id out again once the highest row is deleted with its day; a
sequence does not. The history variable `orphaned` has the ids whose rows went
while a client's form remembered them, and `Usurped(u, b)` says that `b` is such an
id, given out again: on SQLite leaving the form then cancels the booking that has it
now, which `LeaveSparesOthers` states as its exception. A tap on an older screen is
possible wherever its handler has no state filter.

### `MasterPanel`

`panel` is the `AdminFSM` state and data; `buttons` is what each announcement of
a booking currently offers, and the booking its other buttons name: "back" of the
times screen names that of the form. `adding` has, for each running
`admin_add_day_save`, the days it has still to open and the one it has checked and
not inserted yet; two of them may overlap, and the error of a flush then ends the
later one, with the rest of its list and the prompt open (`AddDayInsert`).
`choosing` is an `admin_reschedule_day` between its query and its screen: other
handlers run in between, and both write the form when they end. The form, not
the message, says which booking a chosen time is for.

### `Bot`

`ClientForm` lets the services be called at any moment, which covers the master,
and `MasterPanel` the same, which covers the clients. `Bot` has both callers:
steps of the forms, of the panel, of the clock and the jobs, and one restart that
takes every form there is (one `MemoryStorage`). It has no run of its own: its
states are those of both modules multiplied, and `BotImplementsBoth` shows that
each behaviour of it is one of `ClientForm` and one of `MasterPanel`, whose
properties `form` and `panel` check.

### `Reminders`

A run of the job is `DueReminders`, then per item a send and `MarkReminded`. A
send is heard (`Sent`), refused for good (`Refused`: marked, for no retry helps),
held up by a flood limit (`FloodWait`, slept through once), put off to the next
run (`SendLater`), or out although the answer was lost (`SentUnheard`); an error
that `_send` does not catch ends the run (`SendRaises`). A move reads the booking
(`RescheduleStart`) and commits later (`RescheduleCommit`), and the flush resets
only the flags it had read as set. The
scheduler starts a run on time, and one interval after a boot. The history
variables `told`, `interrupted`, `excused` and `chance` are read by the
properties only.

### `DataWatch`

The health check and the backup are taken apart at their awaits. A check reads
the counts, the watermark and the time of the last backup in separate sessions,
each of which may fail and then reads as zero or as none; it alerts on a loss, on
a stale backup, and stores the count. A backup is copied, verified, rotated,
remembered, delivered, or reported. Writes to `app_state` may fail silently, the
process may die between any two steps, a script may wipe the schedule, and the
disk may go with the container. An alert is delivered, refused by Telegram, or
suppressed by the cooldown of its topic; `check` goes on alike. `known`, `blind`,
`alarmed` and `unheard` are history.

### `Updates`

`polling` is `_run_polling`; `task` is what a task of the process is doing: a
handler, the reply after a handler that crashed, or an alert that waits for
Telegram. `budgets` is the throttle's table and `sent_at` the one of the alerts;
both are lost with the process (`Stop`). Ages replace times, so the instance is
finite without a horizon: an age stops counting where nothing asks for more.

## 3. Runs

States are distinct states. Every property of a passing run is also broken by a
mutant of the code it is about (`PROJECT.json`, `mutants`).

| run | instance | states | shows |
|---|---|---|---|
| `bookings_two_days` | 2 clients, 2 booking rows, 2 days of 2 slots, two choices of hours, clock to 4 | 354,734 | the inductive invariant `ScheduleInv`, ownership, no leaks, no hold of an offered slot refused by the indexes, holds and paid visits respected, and the agenda is kept |
| `bookings_liveness` | one day, 3 slots around the end of the clock (2), a step of one or two in the settings, no index built, no symmetry | 587,386 | one live booking per client without an index; a lapsed hold is released, a finished visit is settled |
| `races` | 2 slots, 2 clients, 2 rows, 2 calls in flight, six settings: four sets of calls on SQLite, two on PostgreSQL | 3,923,598 | no double confirmation, no cancelled booking back to life, a standing hold not taken where rows are locked, all other harm from old readings, a call with current readings commits what it does in `Bookings` |
| `form` | 2 clients, one slot, on a sequence with 2 ids and on SQLite with one row at a time | 792,705 | a form waits for the receipt that is owed; a receipt touches only the own booking, and a leave only the own or a usurper's |
| `panel` | one booking, one day of 2 slots, two choices of hours, 2 lists of typed days | 769,580 | the panel implements the services; lists that overlap change no open day |
| `reminders` | 2 visits, one move at a time, clock to 4, windows of one and of three intervals | 7,770,982 | told once, marked only if told, told in time, with the exceptions the code cannot avoid |
| `data_watch` | up to 3 bookings, 2 of them a history, 2 files of which one is kept, a backup stale after two ticks | 1,144,052 | a verified copy while the bot believes in one; a loss on a lasting disk is not passed over in silence; copies or alarms for ever |
| `updates` | one client, 2 tasks, 2 topics, a bucket of 2 with 3 ticks each, back-off from 1 to 2 | 430,908 | the throttle is a token bucket, a client who goes on tapping gets through, the cooldown follows the messages, polling resumes |
| `races_sweep_paid`, `form_leave_paid`, `panel_wrong_booking`, `data_watch_disk_lost` | | violated | the findings of section 6 |

Bounds, and why they are enough:

- Two clients and two rows: every rule is about a pair of bookings or a booking
  and a slot. `races_sweep_paid` has three rows and one slot.
- Two calls in flight: each known race is between one reader and one writer. The
  theorems of `BookingRacesProofs` are for any number. The settings of `races`
  let a few kinds of calls meet at a time to keep the instance small; the theorems
  are for any set of them.
- `Horizon` bounds the clock. It reaches the end of the first visit, the lapse of
  a hold (`HoldLength` is one unit), and both sides of `CancelCutoff`.
- Two days of two slots let a visit move within a day and across days, one day
  be past while the other is not, and hours change from one slot to two.
- In `bookings_liveness` the settings may start with a step of two slots, as a
  row of an older version does. The present code writes no other step than the
  default: `parse_hours_message` ignores a typed one.
- `form`: two ids from a sequence let a booking be lost and another one be made; on
  SQLite one row at a time is enough for an id to be deleted and given to somebody
  else. The theorems are for any number of both.
- `panel`: one day is enough for two lists to meet. That a list goes on to its next
  day is in the module, and the theorems are for any number of days and lists. No
  day ends between the check and the insert of a typed day (`PanelTick`), and the
  default hours are read with the insert; in the code they are read a moment
  before the check.
- One receipt at a time is in flight per client, and one choice of a day per
  message of the panel. Two receipts for one booking are in `races`.
- A late receipt must be less than three hours old; the clocks of these
  instances do not reach that age, and the condition is left out.
- The windows of `Reminders` are scaled to an interval of one: a window as short as
  the interval, and one of three intervals, where a send may fail and be repeated.
  In the code both are longer than three intervals, so these are the harder cases.
- In `updates`, `Ttl` is `Burst * Refill`, the least for which forgetting a user is
  harmless (in the code 600 seconds against 8), the interval is shorter than a
  refill, and a call to Telegram may take a whole tick of a cooldown of two, so
  that a slow send ends after a later one. The throttle treats every user by
  himself, so one is enough.
- `data_watch`: a history of two is the least that can shrink without becoming
  empty; with one file kept, one rejected copy is enough to push the last good one
  out if it could.
- A backup and a check do not overlap in `DataWatch`: the jobs are hours apart
  and the first backup waits for the start to end.

`CHECK_DEADLOCK FALSE` is set in `races_sweep_paid` only, whose small set of calls
may run out. Symmetry over clients, rows and sessions is used in runs without
temporal properties other than `[][A]_v`.

### Fairness

`FairSpec` of `Bookings` assumes weak fairness of the clock, of the hold sweep and
of the settling of past visits. APScheduler starts these at fixed intervals while
the process lives, and `_guarded` catches what a run raises, so the next run
comes. No client and no master is assumed to do anything.

`FairSpec` of `DataWatch` assumes the clock, the start of the daily check (a cron
job), and that a check or a backup that is under way takes its next step, as
every await of theirs has a timeout. It does not assume that a backup is ever
started: `CopiesOrAlarms` holds because the daily check notices. The process may
still die; the property is about one that stays up.

`FairSpec` of `Updates` assumes the clock, the end of a sleep (`Reconnect`), and
that a task goes on: `settings.request_timeout` ends every call to Telegram. It
assumes nothing of updates; `TappingGetsThrough` has the client's persistence and
a connection that lasts as premises.

No fairness is assumed in `BookingRaces`, `ClientForm`, `MasterPanel` or
`Reminders`. What `ReminderInTime` says of time is a safety property: the clock does
not pass the start of a run, and a run ends before the next one is due. A run that
takes longer than its interval is therefore outside the model.

## 4. Proofs

For every value of the constants that meets the `ASSUME`s, that is for every number
of clients, days, slots, rows, sessions and senders, every clock, and every length
of a hold, a window, an interval or a cooldown:

| theorem | statement |
|---|---|
| `TypeCorrect` (in five modules) | `Spec => []TypeOK` |
| `OneLivePerClientHolds` | `Spec => []OneLivePerClient` |
| `ScheduleInvariant` | `Spec => []ScheduleInv` |
| `VisitsOwnSlots`, `NoSlotLeaks` | `Spec => []VisitOwnsSlot`, `Spec => []BusySlotHasBooking` |
| `PaidVisitsAreKept`, `HoldsAreRespected` | `Spec => PaidVisitKept`, `Spec => HoldRespected` |
| `HoldsMeetNoIndex` | `Spec => []HoldMeetsNoIndex` |
| `AgendaImplemented` | `Spec => AgendaKept` |
| `ServicesKeepAll` | all of the above about slots and visits in one formula, `Spec => ServiceKept` |
| `FormImplementsService`, `PanelImplementsService` | `FormSpec => Spec`, `PanelSpec => Spec` |
| `FormKeepsSchedule`, `PanelKeepsSchedule` | `[]ScheduleInv` under the form and under the panel |
| `FormsWellFormed`, `PanelWellFormed` | the types of both, with what a waiting form must remember |
| `FormsKeepOwnBooking`, `LeavingSparesOthers` | `FormSpec => []OwnershipInv`, `FormSpec => LeaveSparesOthers` |
| `FormsWaitForPending` | `FormSpec => []FormWaitsForPending` |
| `ListsNeverMergeHours` | `PanelSpec => NeverMergesHours` |
| `ReceiptsForOwnVisits` | `FormSpec => ReceiptForOwnVisit` |
| `ReceiptWinsOnceHolds` | `[]ReceiptWinsOnce`, of calls that interleave |
| `NoResurrectionHolds`, `OnlyOldReadingsHarmHolds`, `HoldNotStealableHolds` | the action properties of `BookingRaces` |
| `SerialCallsHold` | `Spec => SerialCalls` |
| `SerialHistoriesAreServices`, `SerialHistoriesKeepSchedule` | a history whose writing commits are all up to date takes only steps of `Bookings`, and keeps `VisitOwnsSlot` and `BusySlotHasBooking` |
| `CallsOneAtATimeAreSerial` | `Spec /\ OneAtATime => SerialHistory` |
| `BotImplementsBoth` | `BotSpec => FormSpec /\ PanelSpec` |
| `BotKeepsPromises`, `BotFormsStayOwn` | under `BotSpec`, what the services promise and what the forms promise |
| `RemindedOnceHolds`, `FlagMeansToldHolds`, `ReminderInTimeHolds` | the invariants of `Reminders` |
| `RestorableCopyHolds`, `LossAlertedHolds` | `[]RestorableCopy`, `Spec => LossAlerted` |
| `CooldownHolds`, `ThrottleImplementsBucket` | `[]CooldownFollowsMessages`, `Spec => Limit!Spec` |

Assumptions. `ASSUME`s on the constants say what types they have, and that a slot
starts before the end of its day (`DataAssumption`). The theorems from
`ScheduleInvariant` on that are about slots assume `IndexesBuilt` and
`InitialSteps = {DefaultStep}`: the present code writes no other step, but a
settings row written by an older version may hold one, and then a block is
recomputed with another length than it was taken with. `OneLivePerClientHolds`
needs neither. `OnlyOldReadingsHarmHolds` and `SerialHistoriesKeepSchedule` assume
`IndexesBuilt`: without the slot index a move onto a lapsed hold may take the row of
a booking that is still pending. The theorems about whose booking a form remembers
make no assumption about ids; their statements name the case that SQLite adds
(`Usurped`). `AgendaImplemented` assumes that `Null` is not itself a visit. `SerialCallsHold` assumes nothing of a history;
`SerialHistory` (every commit that writes is up to date) is the premise of the two
theorems after it, and `OneAtATime` (no step of anybody, nor of the clock, between
the first read of a call and its end) that of `CallsOneAtATimeAreSerial`. Both are
conditions on behaviours, which the code meets when updates come one by one and each
is done with before the clock, in its units, moves on; the first finding is a
history that meets neither.

The argument for `ScheduleInv`. Ownership alone is not inductive: `cancel_booking`
accepts a completed booking and frees its slot. So the invariant says that what is
completed is over, and claims ownership only for visits that are not over. It also
needs `UniformStep` (a visit is one slot, so that the block freed is the block
taken), the two foreign keys (`BookingKeepsRow`, `SlotOfOpenDay`: no rebuild or
purge removes a row a booking refers to), the indexes (two live bookings do not
own one row), and the converse `BusySlotOwned`. `OneSlotVisits` and `FreedRows`
reduce block arithmetic to single rows, once; then there is one lemma per call
(`ConfirmOwned`, `CancelOwned`, `SettleOwned`, ...). The action properties follow
from `ScheduleInv` and the step.

The argument for the indexes. `hold_slot` flushes a booking after its own checks.
A row it may take has no unfinished visit, by `VisitOwnsSlot`; the finished ones of
the client were settled a moment before, and the pending booking of a lapsed hold
is cancelled with it. So no live booking with the slot or the client of the new one
is left, and those are what the indexes compare (`OthersOfHold`).

The argument for one live booking per client. No call but `hold_slot` makes a
booking live (`NoNewLife`), and `hold_slot` makes one for a client whose live
bookings are all over, which it has just settled (`HoldLeavesOneLive`). Slots and
steps play no part, so it holds whatever the grid is.

The argument for the agenda. A client has one live booking at most, so what stands
for them on the agenda can be read from it (`AgendaRead`). `AgendaAfter` then says
once what a step does to the agenda when it ends the visits of some bookings,
changes one, and leaves the rest as they were; each call has a lemma that names
those bookings, with `ScheduleInv` showing that no other visit lost its row.

The argument for the form. `OwnershipInv` says that every id in a row, a form or
a receipt in flight is at most `last_id`, so the next id of a sequence is new to all
of them; that a remembered id without a row is `orphaned`, so an id that is handed
out again was; and that a remembered id names nothing, the client's own booking or
a usurper. For `FormWaitsForPending`: only the choice of a time makes a form wait
and a booking pending (`WaitingStays`, `OtherCallsMakeNonePending`), and then it is
the one live booking its client has.

The argument for the panel. A typed text goes to the day of the form and a chosen
time to its booking; these exist because of the type invariants of both modules
together (`PanelInvariant`), and with them each handler is one call of the
services or changes no row. `NeverMergesHours` holds because the insert of a typed
day is `AddDayFromDefaults` or, when the day is open by then, nothing.

The argument for the races. What a call has loaded may be wrong by the time it
commits, so `WorkInv` says nothing of the rows as they are, but what a call must
have seen to be at its step: `HoldShape`, `BookingShape`, `ToggleShape`,
`SweepShape` (a hold at its commit has loaded its slot and seen it free, a sweep
has loaded only lapsed holds and pending bookings, and so on). From the shapes
and the flush, which writes only changed columns, follows what any commit can do
to any row (`Fates`): no call writes a live status, except the confirmation, which
is conditional. `ReceiptInv` adds that a booking
whose receipt won is not pending. For `OnlyOldReadingsHarm`,
`TrueReadingsSpare` shows that a commit whose rows are still as loaded spares every
standing visit of somebody else. `LockInv` says that with row locks what a hold has
loaded is still what the table has, up to the clock.

The argument for calls one at a time. A call that is up to date has in its hands
the rows as they are, so each condition it checked along the way is a condition of
the present state, and its flush, which writes differences to what was loaded,
writes what the action of `Bookings` writes; one lemma per call says so. It needs
to know besides that rows stay on the grid (`GridSlot`, `GridVisit`), since a block
in `BookingRaces` is one row. With that a history that is up to date is one of
`Bookings` on a fixed grid, and `ScheduleInv` carries over: `BookingsProofs` is
instantiated with the same substitution, and its `ScheduleStep` cited. For
`CallsOneAtATimeAreSerial` the invariant is `Fresh`: while a call is the only one
that moves, every row and every answer it has is the current one.

The argument for `Bot`. For the panel a step of a form is a call of some client, and
for the forms a handler of the panel is one call of the master or none. The two
modules name a cancellation differently: one by the client himself or by leaving
the form is a cancellation like any other to the panel. That a handler of the panel
makes a call of the services at all needs the types of its form, which is why
`PanelSpec` is shown first.

The argument for the reminders. `RemindedOnce` needs to know where a message that
is out has left its trace: a flag, the item waiting to be marked, or
`interrupted` (`OnceInv`); and that a run reads a pair once (`ReadInv`).
`FlagMeansTold` needs the same of items that are on their way, and of flags set
between a move's read and its commit (`FlagInv`). `TimeInv` bounds `chance` by the
time since the run that must have read the pair.

The argument for the watch. `CopyInv`: between the copy and the memory of it, the
verified file is already there, and neither a rejected copy nor the rotation after a
good one takes it away. `WatchInv` says how far the stored watermark may be from
the last count, and what the report of a check that is under way knows of both.

The argument for the throttle. `Level` of an entry grows by one per tick, as the
bucket does, because a refill is computed from the age of the entry; a user who is
forgotten has been idle for longer than a bucket takes to fill (`Ttl`), so
forgetting changes no level. That is the assumption `Ttl >= Burst * Refill`.

Only model-checked: liveness (`LapsedHoldReleased`, `FinishedVisitSettled`,
`CopiesOrAlarms`, `PollingResumes`, `TappingGetsThrough`),
since the prover has no rule for fairness here, and of course the violations.
No operator of the models is recursive, so nothing was left to induction over
data; that the grid and block helpers compute what the loops of the code compute
is a matter of reading.

## 5. What is not modelled, and why

- Texts, keyboards, message editing, the portfolio, the media cache, settings and
  logging: formatting and I/O.
- `domain/parsing.py`: only what a parse can deliver (hours that open before they
  close, days that are not past).
- `set_prepayment_amount`: a text that no rule reads.
- Migrations in `init_db`, except that old rows may have another step
  (`InitialSteps`) and that an index may not have been built (`Indexes`).
- The operator's scripts, except that one of them wipes the schedule under a
  watch that goes on (`WipeSchedule`). Restoring a copy happens outside the process;
  its script looks for `bot_consistent_*.db` while the backups are named
  `bot_<stamp>.db`, so it does not find a nightly copy.
- Storage, integrity and conflict alerts and the daily card: they report and
  change nothing but the cooldown of their own topic.
- Changes of hours and of days are atomic: they are not split in `BookingRaces`,
  and neither is the closing of past visits. `hold_slot`, when it settles a visit
  of its client that ended earlier the same day, has then loaded the new slot
  before it locks it, with the effect that the same-day move has in the model.
- A run of the reminders that lasts longer than its interval.
- The master as a client of his own bot: his booking form and his panel would
  share one FSM state. `Bot` keeps them apart.
- Presentation of screens, except which buttons a message of the panel has.

## 6. Findings

Each is the counterexample of a run that expects a violation.

1. `races_sweep_paid`: `release_expired_holds` loads a lapsed hold's booking,
   `confirm_with_receipt`, whose clock was read just before, confirms it, and the
   sweep then writes CANCELLED by primary key and frees the slot. The conditional
   UPDATE protects the confirmation against another receipt, not against the sweep.
2. `form_leave_paid`: between the confirmation of a receipt and the clearing of
   the form, "back to menu" cancels the booking of the form, which is paid by now.
3. `panel_wrong_booking`: two announcements, two moves begun; the time chosen in
   the older message moves the booking of the newer.
4. `data_watch_disk_lost`: the watermark is lost with the disk, so the case the
   module was written for, an ephemeral disk, raises no `db.empty` alert.

Also seen in the models, and hazards without a run of their own: a hold taken from
its owner on SQLite, a slot blocked under a hold made at that moment, a new hold
freed by a sweep that read the old one (these three are instances of
`OnlyOldReadingsHarm`), a late cancellation that passes the 24-hour rule, an id
handed out again and cancelled through an old form, a receipt lost in
`wait_receipt` after the hold lapsed, a crash alert lost with the reply to a tap, and
a back-off that stays long.

## 7. Plan

Done: services, their races, the form, the panel, reminders, the watch, the
process with throttle and alerts, the agenda, form and panel together, and the
proofs above. Left:

1. `BookingRaces`: changes of hours and days as sessions.
2. A version check in the flush as a variant of `BookingRaces`, shown to implement
   `Bookings` for the calls both have. `SerialHistoriesAreServices` is most of it: it
   remains to show which checks make every commit up to date.
