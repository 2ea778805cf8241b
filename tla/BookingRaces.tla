---------------------------- MODULE BookingRaces ----------------------------
(***************************************************************************)
(* The same service calls, interleaved.  A call is a session of its own:   *)
(* it loads rows with one SELECT after another, decides on what it has     *)
(* loaded, and writes everything in the flush that commit performs.        *)
(* Between two of those steps the event loop runs other handlers and jobs. *)
(*                                                                         *)
(* What is written is what the ORM writes: an UPDATE by primary key of the *)
(* columns whose value differs from the one loaded, with no condition on   *)
(* what the row holds by then.  Two things are stronger: the conditional   *)
(* UPDATE of confirm_with_receipt, and the unique indexes.                 *)
(*                                                                         *)
(* SELECT ... FOR UPDATE takes a row lock on PostgreSQL and nothing on     *)
(* SQLite; the setting of a history says which of the two it runs on.  The *)
(* grid is fixed, a visit takes one slot and every visit lies in the       *)
(* future, so closing of past visits is left to Bookings.                  *)
(***************************************************************************)
EXTENDS SalonData

CONSTANTS
  Sessions,   \* calls that can be in flight at once
  Settings,   \* what a history runs on, and a bound on the calls it makes
  Horizon     \* bound on the clock

AllOps == {"hold", "confirm", "cancel", "client_cancel", "toggle", "sweep",
           "reschedule"}

ASSUME RacesAssumption ==
  /\ Settings \subseteq [row_locks : BOOLEAN, calls : SUBSET AllOps]
  /\ Horizon \in Nat
  /\ \A s \in SlotKey : VisitStart(s) > Horizon

VARIABLES
  setting,    \* row_locks: FOR UPDATE locks rows; calls: those that are made
  now, slots, bookings,
  txn,        \* the call each session is executing
  accepted    \* receipts per booking that were answered with "confirmed"

world == <<setting, now>>
tables == <<slots, bookings, accepted>>
vars == <<world, txn, tables>>

(* A call in flight: its arguments, the clock it read first, the rows it   *)
(* has loaded, and the rows it has locked.                                 *)
NoRows == [x \in {} |-> Null]
Idle == [op |-> "idle", step |-> "idle", u |-> Null, b |-> Null, s |-> Null,
         t |-> 0, sl |-> NoRows, bk |-> NoRows, locks |-> {}]

Call(op, step, u, b, s) ==
  [Idle EXCEPT !.op = op, !.step = step, !.u = u, !.b = b, !.s = s, !.t = now]

-----------------------------------------------------------------------------
(***************************************************************************)
(* Sessions.                                                               *)
(***************************************************************************)
At(p, op, step) == txn[p].op = op /\ txn[p].step = step

CanTouch(p, rows) ==
  setting.row_locks => \A q \in Sessions \ {p} : txn[q].locks \cap rows = {}

(* One SELECT: the rows K of a table join those that were loaded before.   *)
Loaded(tbl, K, rows) ==
  [k \in K \cup DOMAIN rows |-> IF k \in K THEN tbl[k] ELSE rows[k]]

LoadSlots(c, S) == [c EXCEPT !.sl = Loaded(slots, S, @)]
LoadBookings(c, B) == [c EXCEPT !.bk = Loaded(bookings, B, @)]

LockNothing(c, rows) == c   \* mutant: the SELECT lost its FOR UPDATE

Lock(c, rows) == [c EXCEPT !.locks = IF setting.row_locks THEN @ \cup rows ELSE @]

Continue(p, c, step) ==
  /\ txn' = [txn EXCEPT ![p] = [c EXCEPT !.step = step]]
  /\ UNCHANGED <<world, tables>>

Start(p, c) ==
  /\ txn[p].op = "idle"
  /\ c.op \in setting.calls
  /\ txn' = [txn EXCEPT ![p] = c]
  /\ UNCHANGED <<world, tables>>

End(p) == txn' = [txn EXCEPT ![p] = Idle]

(* The call raises, or its transaction is refused: nothing is written.     *)
Rollback(p) == End(p) /\ UNCHANGED <<world, tables>>

(* The ORM flush: only changed columns of the loaded rows are written.     *)
Flush(tbl, loaded, new) ==
  [k \in DOMAIN tbl |->
     IF k \in DOMAIN new
     THEN [f \in DOMAIN tbl[k] |->
             IF new[k][f] # loaded[k][f] THEN new[k][f] ELSE tbl[k][f]]
     ELSE tbl[k]]

CommitWithoutIndexes(p, sl, bk) ==   \* mutant: no unique indexes
  /\ CanTouch(p, DOMAIN sl)
  /\ slots' = Flush(slots, txn[p].sl, sl)
  /\ bookings' = bk
  /\ End(p)

(* Writes of one transaction take effect together; SQLite admits one       *)
(* writer at a time and PostgreSQL makes a writer wait for a locked row.   *)
Commit(p, sl, bk) ==
  /\ CanTouch(p, DOMAIN sl \cup {b \in BookingIds : bk[b] # bookings[b]})
  /\ UniqueLiveIndexes(bk)
  /\ slots' = Flush(slots, txn[p].sl, sl)
  /\ bookings' = bk
  /\ End(p)

Cancelled(c, B) == [b \in B |-> [c.bk[b] EXCEPT !.status = "cancelled"]]

(* What the SELECTs of hold_slot and release_expired_holds look for.       *)
HasLiveBooking(u) ==
  \E b \in BookingIds : IsLive(bookings[b]) /\ bookings[b].user = u
PendingAnywhere(S) ==   \* mutant: the query lost its slot condition
  {b \in BookingIds : IsPending(bookings[b])}
PendingOn(S) == {b \in BookingIds : IsPending(bookings[b]) /\ bookings[b].slot \in S}
Expired == {s \in SlotKey : HoldExpired(slots[s], now)}

-----------------------------------------------------------------------------
(***************************************************************************)
(* hold_slot: count the client's live bookings, load the slot, load the    *)
(* stale bookings on it, commit.                                           *)
(***************************************************************************)
HoldStart(p, u, s) ==
  /\ ~HasLiveBooking(u)
  /\ Start(p, Call("hold", "slot", u, Null, s))

HoldLoadSlot(p) ==
  LET c == txn[p] IN
  /\ At(p, "hold", "slot")
  /\ CanTouch(p, {c.s})
  /\ IF IsBookableSlot(slots[c.s], c.s, c.t)
     THEN Continue(p, Lock(LoadSlots(c, {c.s}), {c.s}), "stale")
     ELSE Rollback(p)

HoldLoadStale(p) ==
  LET c == txn[p] IN
  /\ At(p, "hold", "stale")
  /\ Continue(p, LoadBookings(c, PendingOn({c.s})), "commit")

HoldCommit(p, b) ==
  LET c == txn[p]
      flushed == Flush(bookings, c.bk, Cancelled(c, DOMAIN c.bk))
  IN
  /\ At(p, "hold", "commit")
  /\ bookings[b] = AbsentBooking
  /\ Commit(p, [s \in {c.s} |-> HeldSlot(c.u, c.t + HoldLength)],
            [flushed EXCEPT ![b] = PendingBooking(c.u, c.s, DefaultStep)])
  /\ UNCHANGED <<world, accepted>>

-----------------------------------------------------------------------------
(***************************************************************************)
(* The three calls that load a booking and then its slot (selectinload).   *)
(***************************************************************************)
LoadBooking(p) ==
  LET c == txn[p] IN
  /\ c.step = "booking"
  /\ CanTouch(p, {c.b})
  /\ IF \/ c.op = "confirm" /\ IsPending(bookings[c.b])
        \/ c.op = "reschedule" /\ IsLive(bookings[c.b])
        \/ c.op \in {"cancel", "client_cancel"} /\ bookings[c.b].status # "cancelled"
     THEN Continue(p, Lock(LoadBookings(c, {c.b}), {c.b}), "old_slot")
     ELSE Rollback(p)

LoadOldSlot(p) ==
  LET c == txn[p] IN
  /\ c.step = "old_slot"
  /\ Continue(p, LoadSlots(c, {c.bk[c.b].slot}),
              IF c.op = "reschedule" THEN "day" ELSE "commit")

(* confirm_with_receipt.  The client sends a receipt for his own booking.  *)
ConfirmStart(p, b) ==
  /\ bookings[b] # AbsentBooking
  /\ Start(p, Call("confirm", "booking", bookings[b].user, b, Null))

HoldStood(c) ==
  LET slot == c.sl[c.bk[c.b].slot] IN
  /\ slot.status = "held"
  /\ slot.held_by = c.u
  /\ slot.held_until # NoTime /\ slot.held_until >= c.t

StillPendingUnchecked(b) == bookings[b] # AbsentBooking   \* mutant: plain UPDATE

(* The WHERE clause of the conditional UPDATE.                             *)
StillPending(b) == IsPending(bookings[b])

ConfirmCommit(p) ==
  LET c == txn[p]
      s == c.bk[c.b].slot
  IN
  /\ At(p, "confirm", "commit")
  /\ HoldStood(c)
  /\ IF StillPending(c.b)
     THEN /\ Commit(p, [x \in {s} |-> BookedSlot],
                    [bookings EXCEPT ![c.b].status = "active",
                                     ![c.b].receipt = TRUE])
          /\ accepted' = [accepted EXCEPT ![c.b] = @ + 1]
          /\ UNCHANGED world
     ELSE Rollback(p)

(* The hold had lapsed when it was read: cancel the booking, free the slot. *)
FreeAndCancel(p) ==
  LET c == txn[p]
      s == c.bk[c.b].slot
  IN
  /\ Commit(p, [x \in {s} |-> FreeSlot],
            Flush(bookings, c.bk, Cancelled(c, {c.b})))
  /\ UNCHANGED <<world, accepted>>

ConfirmTooLate(p) ==
  At(p, "confirm", "commit") /\ ~HoldStood(txn[p]) /\ FreeAndCancel(p)

(* cancel_booking.                                                         *)
CancelStart(p, b) ==
  /\ bookings[b] # AbsentBooking
  /\ Start(p, Call("cancel", "booking", bookings[b].user, b, Null))

(* cancel_by_client: the rule of the 24 hours is checked in a session of   *)
(* its own, which is closed before cancel_booking opens the next.          *)
MayCancel(b) ==
  /\ IsLive(bookings[b])
  /\ \/ bookings[b].status # "active"
     \/ VisitStart(bookings[b].slot) - now >= CancelCutoff

ClientCancelStart(p, b) ==
  /\ MayCancel(b)
  /\ Start(p, Call("client_cancel", "booking", bookings[b].user, b, Null))

CancelCommit(p) ==
  /\ txn[p].op \in {"cancel", "client_cancel"}
  /\ txn[p].step = "commit"
  /\ FreeAndCancel(p)

(* reschedule.                                                             *)
RescheduleStart(p, b, s) ==
  /\ bookings[b] # AbsentBooking
  /\ Start(p, Call("reschedule", "booking", bookings[b].user, b, s))

(* The other slots of the booking's day; the call looks at its target only. *)
RescheduleLoadDay(p) ==
  LET c == txn[p]
      old == c.bk[c.b].slot
  IN
  /\ At(p, "reschedule", "day")
  /\ Continue(p, LoadSlots(c, {s \in {c.s} : s[1] = old[1] /\ s # old}), "new_slot")

(* SELECT ... FOR UPDATE of the target locks the row, but a row the session *)
(* has loaded already stays as it was loaded (no populate_existing).       *)
RescheduleLoadSlot(p) ==
  LET c == txn[p]
      read == LoadSlots(c, {c.s} \ DOMAIN c.sl)
  IN
  /\ At(p, "reschedule", "new_slot")
  /\ CanTouch(p, {c.s})
  /\ IF IsEffectivelyFree(read.sl[c.s], c.t) \/ c.s = c.bk[c.b].slot
     THEN Continue(p, Lock(read, {c.s}), "commit")
     ELSE Rollback(p)

RescheduleCommit(p) ==
  LET c == txn[p]
      taken == IF IsPending(c.bk[c.b])
               THEN HeldSlot(c.bk[c.b].user, c.t + HoldLength) ELSE BookedSlot
  IN
  /\ At(p, "reschedule", "commit")
  /\ Commit(p, [s \in DOMAIN c.sl |-> IF s = c.s THEN taken ELSE FreeSlot],
            Flush(bookings, c.bk, [b \in {c.b} |-> [c.bk[b] EXCEPT !.slot = c.s]]))
  /\ UNCHANGED <<world, accepted>>

-----------------------------------------------------------------------------
(* toggle_slot_block.                                                      *)
ToggleStart(p, s) ==
  /\ slots[s].status \in {"free", "blocked"}
  /\ Start(p, LoadSlots(Call("toggle", "commit", Null, Null, s), {s}))

ToggleCommit(p) ==
  LET c == txn[p]
      flip == IF c.sl[c.s].status = "free" THEN "blocked" ELSE "free"
  IN
  /\ At(p, "toggle", "commit")
  /\ Commit(p, [s \in {c.s} |-> [c.sl[s] EXCEPT !.status = flip]], bookings)
  /\ UNCHANGED <<world, accepted>>

(* release_expired_holds.                                                  *)
SweepStart(p) ==
  /\ Expired # {}
  /\ Start(p, LoadSlots(Call("sweep", "pending", Null, Null, Null), Expired))

SweepLoadPending(p) ==
  LET c == txn[p] IN
  /\ At(p, "sweep", "pending")
  /\ Continue(p, LoadBookings(c, PendingOn(DOMAIN c.sl)), "commit")

SweepCommit(p) ==
  LET c == txn[p] IN
  /\ At(p, "sweep", "commit")
  /\ Commit(p, [s \in DOMAIN c.sl |-> FreeSlot],
            Flush(bookings, c.bk, Cancelled(c, DOMAIN c.bk)))
  /\ UNCHANGED <<world, accepted>>

-----------------------------------------------------------------------------
(* A call in flight is lost: the process dies, the write lock is not       *)
(* obtained within busy_timeout, PostgreSQL picks it as deadlock victim,   *)
(* or a unique index refuses its commit.                                   *)
Abandon(p) == txn[p].op # "idle" /\ Rollback(p)

Tick ==
  /\ now < Horizon
  /\ now' = now + 1
  /\ UNCHANGED <<setting, txn, tables>>

Init ==
  /\ setting \in Settings
  /\ now = 0
  /\ slots = [s \in SlotKey |-> FreeSlot]
  /\ bookings = [b \in BookingIds |-> AbsentBooking]
  /\ txn = [p \in Sessions |-> Idle]
  /\ accepted = [b \in BookingIds |-> 0]

SessionStart(p) ==
  \/ \E u \in Users, s \in SlotKey : HoldStart(p, u, s)
  \/ \E b \in BookingIds : ConfirmStart(p, b)
  \/ \E b \in BookingIds : CancelStart(p, b)
  \/ \E b \in BookingIds : ClientCancelStart(p, b)
  \/ \E b \in BookingIds, s \in SlotKey : RescheduleStart(p, b, s)
  \/ \E s \in SlotKey : ToggleStart(p, s)
  \/ SweepStart(p)

SessionStep(p) ==
  \/ HoldLoadSlot(p)
  \/ HoldLoadStale(p)
  \/ \E b \in BookingIds : HoldCommit(p, b)
  \/ LoadBooking(p)
  \/ LoadOldSlot(p)
  \/ ConfirmCommit(p)
  \/ ConfirmTooLate(p)
  \/ CancelCommit(p)
  \/ RescheduleLoadDay(p)
  \/ RescheduleLoadSlot(p)
  \/ RescheduleCommit(p)
  \/ ToggleCommit(p)
  \/ SweepLoadPending(p)
  \/ SweepCommit(p)
  \/ Abandon(p)

Next == Tick \/ \E p \in Sessions : SessionStart(p) \/ SessionStep(p)

Spec == Init /\ [][Next]_vars

-----------------------------------------------------------------------------
Steps == {"idle", "slot", "stale", "booking", "old_slot", "day", "new_slot",
          "pending", "commit"}

IsCall(c) ==
  /\ DOMAIN c = DOMAIN Idle
  /\ c.op \in AllOps \cup {"idle"} /\ c.step \in Steps
  /\ c.u \in Users \cup {Null} /\ c.b \in BookingIds \cup {Null}
  /\ c.s \in SlotKey \cup {Null} /\ c.t \in 0..now
  /\ DOMAIN c.sl \subseteq SlotKey /\ \A s \in DOMAIN c.sl : c.sl[s] \in SlotRow
  /\ DOMAIN c.bk \subseteq BookingIds
  /\ \A b \in DOMAIN c.bk : c.bk[b] \in BookingRow
  /\ c.locks \subseteq SlotKey \cup BookingIds

TypeOK ==
  /\ setting \in Settings
  /\ now \in 0..Horizon
  /\ slots \in [SlotKey -> SlotRow]
  /\ bookings \in [BookingIds -> BookingRow \cup {AbsentBooking}]
  /\ DOMAIN txn = Sessions /\ \A p \in Sessions : IsCall(txn[p])
  /\ accepted \in [BookingIds -> Nat]

(***************************************************************************)
(* What survives every interleaving.                                       *)
(***************************************************************************)

(* "Two receipts sent back to back must not both win" (confirm_with_receipt): *)
(* a booking is confirmed to its client at most once.                      *)
ReceiptWinsOnce == \A b \in BookingIds : accepted[b] <= 1

(* A cancelled booking never comes back to life, whatever a call in flight *)
(* had read before the cancellation: its slot may be someone else's.       *)
NoResurrection ==
  [][\A b \in BookingIds :
       bookings[b].status = "cancelled" => bookings'[b].status = "cancelled"]_vars

(* A visit that stands: live, on a row that is its own, its hold not yet   *)
(* over.                                                                   *)
Stands(b) ==
  LET row == bookings[b] IN
  /\ IsLive(row) /\ Occupies(row, slots[row.slot])
  /\ IsPending(row) => slots[row.slot].held_until >= now

Outdated(p) ==
  \/ \E s \in DOMAIN txn[p].sl : txn[p].sl[s] # slots[s]
  \/ \E b \in DOMAIN txn[p].bk : txn[p].bk[b] # bookings[b]

(* A call takes life or slot from a standing visit that it was not asked   *)
(* about only if a row it decided on has changed under it.  No order of    *)
(* whole calls does, so every race of this module is a row written from an *)
(* old reading: a version check in the flush would close all of them.      *)
OnlyOldReadingsHarm ==
  [][\A p \in Sessions, b \in BookingIds :
       /\ txn[p].op # "idle" /\ txn'[p] = Idle
       /\ b # txn[p].b
       /\ Stands(b) /\ ~Stands(b)'
       => Outdated(p)]_vars

(***************************************************************************)
(* The calls of Bookings on the same tables: this module's grid, opened    *)
(* once and for all.                                                       *)
(***************************************************************************)
Services ==
  INSTANCE Bookings WITH
    Hours <- {}, InitialSteps <- {DefaultStep},
    work_settings <- [open |-> 0, close |-> DayLength, step |-> DefaultStep],
    days <- Days, day_step <- [d \in Days |-> 0]

(* Every SELECT the call has made would return now what it returned then,  *)
(* and the clock it has read still shows that time.                        *)
UpToDate(p) ==
  LET c == txn[p] IN
  /\ c.t = now /\ ~Outdated(p)
  /\ c.op = "hold" => ~HasLiveBooking(c.u) /\ DOMAIN c.bk = PendingOn({c.s})
  /\ c.op = "client_cancel" => MayCancel(c.b)
  /\ c.op = "sweep" => DOMAIN c.sl = Expired /\ DOMAIN c.bk = PendingOn(Expired)

AsOneStep(c) ==
  \/ c.op = "hold" /\ \E b \in BookingIds : Services!HoldSlot(c.u, c.s, b)
  \/ c.op = "confirm" /\ (\/ Services!ConfirmWithReceipt(c.b)
                          \/ Services!ReceiptTooLate(c.b))
  \/ c.op = "cancel" /\ Services!CancelBooking(c.b)
  \/ c.op = "client_cancel" /\ Services!CancelByClient(c.b)
  \/ c.op = "reschedule" /\ Services!Reschedule(c.b, c.s)
  \/ c.op = "toggle" /\ Services!ToggleSlotBlock(c.s)
  \/ c.op = "sweep" /\ Services!ReleaseExpiredHolds

(* The calls are as good as atomic until a reading goes out of date: a     *)
(* commit whose call is up to date does to the tables exactly what the     *)
(* same call does in Bookings, all its guards included.  A race needs a    *)
(* row, or an answer to a query, that changed between read and commit.     *)
SerialCalls ==
  [][\A p \in Sessions :
       /\ txn[p].op # "idle" /\ txn'[p] = Idle
       /\ UpToDate(p)
       => AsOneStep(txn[p]) \/ UNCHANGED tables]_vars

(***************************************************************************)
(* What needs more than the calls one at a time: the first is lost between *)
(* a read and a commit, the second holds where FOR UPDATE takes row locks. *)
(***************************************************************************)

(* "Free lapsed holds and cancel the pending bookings behind them"         *)
(* (release_expired_holds): the sweep never cancels a paid booking.        *)
SweepSparesPaid ==
  [][\A p \in Sessions : SweepCommit(p) =>
       \A b \in BookingIds :
         bookings[b].status = "active" => bookings'[b].status = "active"]_vars

(* "Held slot not stealable" (the smoke test): a hold never cancels another *)
(* client's hold that still stands.  Row locks give that: the slot stays   *)
(* locked from the moment it is read.  Without them hold_slot reads the    *)
(* slot free, and then takes for stale the booking just made on it.        *)
HoldNotStealable ==
  [][setting.row_locks /\ (\E p \in Sessions, b \in BookingIds : HoldCommit(p, b)) =>
       \A c \in BookingIds :
         IsPending(bookings[c]) /\ Stands(c) => IsPending(bookings'[c])]_vars
=============================================================================
