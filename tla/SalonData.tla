----------------------------- MODULE SalonData -----------------------------
(***************************************************************************)
(* The data of the booking bot: the rows of working_days, slots and        *)
(* bookings (src/db/models.py), the slot grid arithmetic                   *)
(* (src/domain/slots.py) and the predicates that every service method      *)
(* evaluates over a row it has loaded (src/services/schedule_service.py).  *)
(*                                                                         *)
(* Time is counted in units.  A day has DayLength of them, a visit starts  *)
(* at a pair <<day, start>>, and "now" is a number of units since the      *)
(* start of day 0.  A slot row is identified by that pair: the table is    *)
(* unique on (working_day_id, start_time).                                 *)
(***************************************************************************)
EXTENDS Integers, FiniteSets

CONSTANTS
  Users,         \* telegram_user_id of the clients
  BookingIds,    \* primary keys the bookings table can hold
  Days,          \* calendar days the master may open
  Starts,        \* start times within a day
  DayLength,     \* units in a day
  DefaultStep,   \* DEFAULT_SLOT_MINUTES, in units
  HoldLength,    \* settings.slot_hold_minutes, in units
  CancelCutoff,  \* CLIENT_CANCEL_CUTOFF, in units
  Indexes,       \* the partial unique indexes init_db managed to create
  Null           \* SQL NULL, and "nobody" in held_by_user_id

ASSUME DataAssumption ==
  /\ Days \subseteq Nat
  /\ Starts \subseteq Nat
  /\ IsFiniteSet(Starts)
  /\ DayLength \in Nat \ {0}
  /\ \A t \in Starts : t < DayLength
  /\ DefaultStep \in Nat \ {0}
  /\ HoldLength \in Nat \ {0}
  /\ CancelCutoff \in Nat
  /\ Indexes \subseteq {"slot", "user"}
  /\ Null \notin Users

SlotKey == Days \X Starts

SlotStatus == {"free", "held", "booked", "blocked"}
BookingStatus == {"pending_payment", "active", "cancelled", "completed"}

(* Statuses that occupy a slot and block the client from booking again.    *)
LIVE_BOOKING_STATUSES == {"pending_payment", "active"}
BUSY_SLOT_STATUSES == {"booked", "held"}

NoTime == -1    \* NULL in held_until

(***************************************************************************)
(* Rows.  "absent" stands for a row that is not in the table.              *)
(***************************************************************************)
SlotRow ==
  [status : SlotStatus \cup {"absent"},
   held_by : Users \cup {Null},
   held_until : Nat \cup {NoTime}]

BookingRow ==
  [status : BookingStatus, user : Users, slot : SlotKey, duration : Nat \ {0},
   receipt : BOOLEAN]

AbsentSlot == [status |-> "absent", held_by |-> Null, held_until |-> NoTime]
FreeSlot == [status |-> "free", held_by |-> Null, held_until |-> NoTime]
BookedSlot == [status |-> "booked", held_by |-> Null, held_until |-> NoTime]
HeldSlot(u, until) == [status |-> "held", held_by |-> u, held_until |-> until]

AbsentBooking == [status |-> "absent"]
PendingWithoutDuration(u, s, duration) ==   \* mutant: the column stays NULL
  [status |-> "pending_payment", user |-> u, slot |-> s, duration |-> 0,
   receipt |-> FALSE]

PendingBooking(u, s, duration) ==
  [status |-> "pending_payment", user |-> u, slot |-> s, duration |-> duration,
   receipt |-> FALSE]

IsLive(row) == row.status \in LIVE_BOOKING_STATUSES
IsPending(row) == row.status = "pending_payment"

(* A live booking and the slot row it keeps: held in the client's name     *)
(* while the prepayment is pending, booked once it is paid.                *)
Occupies(row, slot) ==
  \/ IsPending(row) /\ slot.status = "held" /\ slot.held_by = row.user
  \/ row.status = "active" /\ slot.status = "booked"

(***************************************************************************)
(* domain/slots.py                                                         *)
(***************************************************************************)
GridTimes(open, close, step) ==
  {t \in Starts : open <= t /\ t < close /\ (t - open) % step = 0}

SlotsNeeded(duration, step) == (duration + step - 1) \div step

(***************************************************************************)
(* domain/dates.py: combine_datetime and today.                            *)
(***************************************************************************)
VisitStart(s) == s[1] * DayLength + s[2]
VisitEnd(row) == VisitStart(row.slot) + row.duration
Today(t) == t \div DayLength

(***************************************************************************)
(* Predicates over loaded rows.                                            *)
(***************************************************************************)
IsEffectivelyFreeIgnoringClock(slot, t) ==   \* mutant: any hold counts as lapsed
  slot.status \in {"free", "held"}

IsEffectivelyFree(slot, t) ==
  \/ slot.status = "free"
  \/ slot.status = "held" /\ slot.held_until # NoTime /\ slot.held_until < t

IsBookableSlot(slot, s, t) ==
  IsEffectivelyFree(slot, t) /\ VisitStart(s) > t

HoldExpired(slot, t) ==
  slot.status = "held" /\ (slot.held_until = NoTime \/ slot.held_until < t)

(* Consecutive slots starting at s, in time order, among the rows present  *)
(* in tbl; empty when s itself is not there.  A slot belongs to the block  *)
(* when fewer than `need' present slots of the day precede it from s on.   *)
Present(tbl, s) == tbl[s].status # "absent"

ConsecutiveBlock(tbl, s, need) ==
  {x \in SlotKey :
     /\ Present(tbl, s) /\ Present(tbl, x)
     /\ x[1] = s[1] /\ s[2] <= x[2]
     /\ Cardinality({t \in Starts : /\ s[2] <= t /\ t < x[2]
                                    /\ Present(tbl, <<s[1], t>>)}) < need}

(* The partial unique indexes uq_live_booking_slot and                     *)
(* uq_live_booking_user.  init_db creates each in a transaction of its own *)
(* and only logs a failure (old rows may break it): then nothing enforces  *)
(* it.                                                                     *)
LiveSlotsApart(bk) ==
  \A a, b \in BookingIds :
    a # b /\ IsLive(bk[a]) /\ IsLive(bk[b]) => bk[a].slot # bk[b].slot

LiveUsersApart(bk) ==
  \A a, b \in BookingIds :
    a # b /\ IsLive(bk[a]) /\ IsLive(bk[b]) => bk[a].user # bk[b].user

IndexesBuilt == Indexes = {"slot", "user"}

UniqueLiveIndexes(bk) ==
  /\ "slot" \in Indexes => LiveSlotsApart(bk)
  /\ "user" \in Indexes => LiveUsersApart(bk)
============================================================================
