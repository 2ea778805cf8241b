------------------------------ MODULE Reminders ------------------------------
(***************************************************************************)
(* The reminders of a visit: due_reminders, mark_reminded and the reset in *)
(* reschedule (src/services/schedule_service.py), the visit_reminders job  *)
(* (src/infrastructure/scheduler.py) and the delivery contract of          *)
(* NotifyService (src/services/notify_service.py).                         *)
(*                                                                         *)
(* The job reads the visits that are due once, then sends and marks them   *)
(* one by one, each send a call to Telegram and each mark a session of its *)
(* own.  In between the clock goes on, visits are paid, moved and          *)
(* cancelled, and the process may die.  Only paid visits matter here; the  *)
(* rest of a booking's life is in Bookings.                                *)
(***************************************************************************)
EXTENDS Integers, FiniteSets

CONSTANTS
  BookingIds,
  Times,       \* start times of visits
  Movers,      \* the handlers that may be moving a visit at once
  Window,      \* per kind <<least, most>> time left for the reminder to be due
  Interval,    \* REMINDER_SWEEP_MINUTES
  Horizon      \* bound on the clock

Kinds == {"24h", "2h"}
Pairs == BookingIds \X Kinds

ASSUME RemindersAssumption ==
  /\ Times \subseteq Nat
  /\ Interval \in Nat \ {0}
  /\ Horizon \in Nat
  /\ Window \in [Kinds -> Nat \X Nat]

VARIABLES
  now,
  up,          \* the process runs
  next_run,    \* when the scheduler starts the job next
  visits,      \* per booking: status, start, and the kinds reminded
  batch,       \* what the run has read and not sent yet
  waiting,     \* what the run sends again when a flood limit is over
  marking,     \* what the run has sent and not marked yet: at most one item
  moving,      \* the moves that have read their booking and not committed yet
  (* History, for the properties only.                                     *)
  told,        \* messages about the present time of a visit, per kind
  interrupted, \* pairs whose message may be out although it is not marked
  excused,     \* pairs that may be marked and not told: the client cannot be
               \* reached, or a run and a move of the visit overlapped
  chance       \* how long a running bot has had a pair due and not failed

job == <<next_run, batch, waiting, marking>>
history == <<told, interrupted, excused, chance>>
vars == <<now, up, job, visits, moving, history>>

NoVisit == [status |-> "none", start |-> 0, reminded |-> {}]

Running == batch # {} \/ marking # {}
Matches(i) == visits[i.b].status = "active" /\ visits[i.b].start = i.start

InWindow(b, k, t) ==
  LET left == visits[b].start - t IN
  visits[b].status = "active" /\ Window[k][1] <= left /\ left <= Window[k][2]

Due(b, k) == InWindow(b, k, now) /\ k \notin visits[b].reminded

Restart(P) ==   \* of the count behind ReminderInTime, for the pairs in P
  [p \in Pairs |-> IF p \in P THEN 0 ELSE chance[p]]
Of(b) == {b} \X Kinds
PairsOf(items) == {<<i.b, i.kind>> : i \in items}

-----------------------------------------------------------------------------
(***************************************************************************)
(* The life of a visit, as far as its reminders are concerned.             *)
(***************************************************************************)
ConfirmWithoutFlags(b, s) ==   \* mutant: the columns stay NULL
  /\ visits[b] = NoVisit /\ s > now /\ up
  /\ visits' = [visits EXCEPT ![b] = [status |-> "active", start |-> s,
                                      reminded |-> {"unknown"}]]
  /\ UNCHANGED <<now, up, job, moving, history>>

Confirm(b, s) ==
  /\ visits[b] = NoVisit /\ s > now /\ up
  /\ visits' = [visits EXCEPT ![b] = [status |-> "active", start |-> s,
                                      reminded |-> {}]]
  /\ UNCHANGED <<now, up, job, moving, history>>

CancelBooking(b) ==
  /\ visits[b].status = "active" /\ up
  /\ visits' = [visits EXCEPT ![b].status = "closed"]
  /\ chance' = Restart(Of(b))
  /\ UNCHANGED <<now, up, job, moving, told, interrupted, excused>>

(* reschedule reads the booking, then the slots, and commits.  Nothing     *)
(* keeps a mark of the job out of the time in between on SQLite, where     *)
(* FOR UPDATE is ignored.                                                  *)
RescheduleStart(m, b, s) ==
  /\ visits[b].status = "active" /\ s > now /\ up
  /\ \A v \in moving : v.by # m
  /\ moving' = moving \cup {[by |-> m, b |-> b, start |-> s, seen |-> visits[b].reminded]}
  /\ UNCHANGED <<now, up, job, visits, history>>

(* What the move overlapped with: marks made since it read the booking     *)
(* stay on the new time, and so will those of a run that read the old one. *)
Overlapped(v) ==
  (PairsOf(batch \cup marking) \cup ({v.b} \X (visits[v.b].reminded \ v.seen))) \cap Of(v.b)

Moved(v) ==
  /\ moving' = moving \ {v}
  /\ told' = [p \in Pairs |-> IF p \in Of(v.b) THEN 0 ELSE told[p]]
  /\ interrupted' = interrupted \ Of(v.b)
  /\ excused' = (excused \ Of(v.b)) \cup Overlapped(v)
  /\ chance' = Restart(Of(v.b))
  /\ UNCHANGED <<now, up, job>>

RescheduleKeepsFlags(v) ==   \* mutant: the flags are left alone
  /\ visits' = [visits EXCEPT ![v.b].start = v.start]
  /\ Moved(v)

(* The visit moved: previously sent reminders no longer apply.  The UPDATE *)
(* has the columns that differ from what was read.                         *)
RescheduleCommit(v) ==
  /\ visits' = [visits EXCEPT ![v.b].start = v.start, ![v.b].reminded = @ \ v.seen]
  /\ Moved(v)

-----------------------------------------------------------------------------
(***************************************************************************)
(* The job.                                                                *)
(***************************************************************************)
DueReminders ==
  /\ up /\ ~Running /\ now = next_run
  /\ batch' = {[b |-> p[1], kind |-> p[2], start |-> visits[p[1]].start] :
                 p \in {q \in Pairs : Due(q[1], q[2])}}
  /\ next_run' = now + Interval
  /\ excused' = {p \in excused : p[2] \in visits[p[1]].reminded}
  /\ UNCHANGED <<now, up, visits, waiting, marking, moving, told, interrupted, chance>>

(* The day-ahead reminders come first.  The text is made from what was     *)
(* read; nothing is read again.                                            *)
NextToSend ==
  CASE marking # {} -> {}
    [] marking = {} /\ waiting # {} -> waiting
    [] OTHER -> IF \E i \in batch : i.kind = "24h" THEN {i \in batch : i.kind = "24h"}
                ELSE batch

Told(i) == [told EXCEPT ![<<i.b, i.kind>>] = IF Matches(i) THEN @ + 1 ELSE @]

(* The run is done with item i: M is what it marks.                        *)
Attempted(i, M) ==
  /\ i \in NextToSend
  /\ batch' = batch \ {i}
  /\ waiting' = {}
  /\ marking' = M
  /\ UNCHANGED <<now, up, next_run, visits, moving>>

Sent(i) ==
  /\ Attempted(i, {i})
  /\ told' = Told(i)
  /\ UNCHANGED <<interrupted, excused, chance>>

(* Blocked by the client, or a bad request: mark it, for no retry helps.   *)
Refused(i) ==
  /\ Attempted(i, {i})
  /\ excused' = excused \cup PairsOf({i})
  /\ UNCHANGED <<told, interrupted, chance>>

(* A short flood limit is slept through, once.                             *)
FloodWait(i) ==
  /\ waiting = {} /\ i \in NextToSend
  /\ waiting' = {i}
  /\ UNCHANGED <<now, up, next_run, visits, batch, marking, moving, history>>

SendLaterEndsRun(i) ==   \* mutant: the first failure ends the run
  /\ i \in NextToSend
  /\ batch' = {} /\ waiting' = {}
  /\ chance' = Restart(PairsOf({i}))
  /\ UNCHANGED <<now, up, next_run, visits, marking, moving, told, interrupted, excused>>

(* A longer or second flood limit, or a network error: at the next run.    *)
SendLater(i) ==
  /\ Attempted(i, {})
  /\ chance' = Restart(PairsOf({i}))
  /\ UNCHANGED <<told, interrupted, excused>>

(* The same answer for a message that did arrive: Telegram's reply is lost. *)
SentUnheard(i) ==
  /\ Attempted(i, {})
  /\ told' = Told(i)
  /\ interrupted' = interrupted \cup PairsOf({i})
  /\ chance' = Restart(PairsOf({i}))
  /\ UNCHANGED excused

MarkNothing ==   \* mutant: the session is closed without a commit
  /\ marking # {}
  /\ marking' = {}
  /\ UNCHANGED <<now, up, next_run, batch, waiting, visits, moving, history>>

(* An UPDATE by id, whatever has become of the visit.                      *)
MarkReminded ==
  \E i \in marking :
    /\ visits' = [visits EXCEPT ![i.b].reminded = @ \cup {i.kind}]
    /\ marking' = {}
    /\ UNCHANGED <<now, up, next_run, batch, waiting, moving, history>>

(* An error that _send does not catch, a TelegramServerError for one, ends *)
(* the run: nothing is marked and the others wait for the next run.  The   *)
(* message may be out or not.                                              *)
SendRaises(i) ==
  /\ i \in NextToSend
  /\ batch' = {} /\ waiting' = {}
  /\ \/ told' = Told(i) /\ interrupted' = interrupted \cup PairsOf({i})
     \/ UNCHANGED <<told, interrupted>>
  /\ chance' = Restart(PairsOf(batch))
  /\ UNCHANGED <<now, up, next_run, visits, marking, moving, excused>>

(* The run is lost: what it sent and did not mark will be sent again.      *)
RunLost ==
  /\ batch' = {} /\ waiting' = {}
  /\ marking' = {}
  /\ interrupted' = interrupted \cup PairsOf(marking)
  /\ UNCHANGED <<now, visits, told, excused>>

(* A statement of the job raises and _guarded reports it.                  *)
JobFails ==
  /\ Running
  /\ RunLost
  /\ chance' = Restart(PairsOf(batch \cup marking))
  /\ UNCHANGED <<up, next_run, moving>>

Crash ==
  /\ up
  /\ up' = FALSE
  /\ moving' = {}
  /\ RunLost
  /\ chance' = Restart(Pairs)
  /\ UNCHANGED next_run

(* IntervalTrigger: the first run comes one interval after the start.      *)
Boot ==
  /\ ~up
  /\ up' = TRUE
  /\ next_run' = now + Interval
  /\ UNCHANGED <<now, visits, moving, batch, waiting, marking, history>>

(* A run starts on time, and ends before the next one is due.              *)
Tick ==
  /\ now < Horizon
  /\ up => now < next_run
  /\ now' = now + 1
  /\ chance' = [p \in Pairs |->
                  IF up /\ Due(p[1], p[2]) /\ InWindow(p[1], p[2], now + 1)
                  THEN chance[p] + 1 ELSE 0]
  /\ UNCHANGED <<up, job, visits, moving, told, interrupted, excused>>

-----------------------------------------------------------------------------
Init ==
  /\ now = 0 /\ up = TRUE /\ next_run = Interval
  /\ visits = [b \in BookingIds |-> NoVisit]
  /\ batch = {} /\ waiting = {} /\ marking = {} /\ moving = {}
  /\ told = [p \in Pairs |-> 0]
  /\ interrupted = {} /\ excused = {}
  /\ chance = [p \in Pairs |-> 0]

VisitStep(b) ==
  \/ \E s \in Times : Confirm(b, s)
  \/ CancelBooking(b)
  \/ \E m \in Movers, s \in Times : RescheduleStart(m, b, s)

VisitReminders ==
  \/ DueReminders
  \/ \E i \in batch : \/ Sent(i) \/ Refused(i) \/ FloodWait(i)
                     \/ SendLater(i) \/ SentUnheard(i) \/ SendRaises(i)
  \/ MarkReminded
  \/ JobFails

Next ==
  \/ \E b \in BookingIds : VisitStep(b)
  \/ \E v \in moving : RescheduleCommit(v)
  \/ VisitReminders
  \/ Crash \/ Boot
  \/ Tick

Spec == Init /\ [][Next]_vars

-----------------------------------------------------------------------------
Item == [b : BookingIds, kind : Kinds, start : Nat]

TypeOK ==
  /\ now \in Nat /\ up \in BOOLEAN /\ next_run \in Nat
  /\ visits \in [BookingIds -> [status : {"none", "active", "closed"},
                                start : Nat, reminded : SUBSET Kinds]]
  /\ batch \subseteq Item /\ waiting \subseteq batch /\ marking \subseteq Item
  /\ moving \subseteq [by : Movers, b : BookingIds, start : Nat, seen : SUBSET Kinds]
  /\ told \in [Pairs -> Nat] /\ chance \in [Pairs -> Nat]
  /\ interrupted \subseteq Pairs /\ excused \subseteq Pairs

(* "False means retry later: do not mark it as sent" (visit_reminders):    *)
(* nobody is reminded twice of one visit, through retries, failed runs and *)
(* restarts, except where the message went out and the run never learned   *)
(* or never wrote it down.                                                 *)
RemindedOnce ==
  \A p \in Pairs : told[p] > 1 => p \in interrupted

(* "The visit moved: previously sent reminders no longer apply"            *)
(* (reschedule): what is marked as reminded was said about the time the    *)
(* visit has now, unless the client cannot be reached, or the visit was    *)
(* moved while the message was on its way, or marked while it was being    *)
(* moved: then the mark is on the new time, and nobody is told of it.      *)
FlagMeansTold ==
  \A b \in BookingIds, k \in Kinds :
    visits[b].status = "active" /\ k \in visits[b].reminded =>
      told[<<b, k>>] > 0 \/ <<b, k>> \in excused

(* A bot that runs reminds in time: a reminder that stays due, and whose   *)
(* sending has neither failed nor been cut off with its run, is marked     *)
(* within two intervals, however the sending of others fails without       *)
(* ending the run, and however visits come, move and go.                   *)
ReminderInTime == \A p \in Pairs : chance[p] <= 2 * Interval
=============================================================================
