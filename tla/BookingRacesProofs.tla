------------------------- MODULE BookingRacesProofs -------------------------
(***************************************************************************)
(* Service calls that interleave, for any number of sessions, clients,     *)
(* bookings and slots, and for every setting.  What a call has loaded is   *)
(* old the moment it has it; the proofs say what holds nevertheless, and   *)
(* that nothing but old rows stands between the calls and the safety they  *)
(* have one at a time.                                                     *)
(***************************************************************************)
EXTENDS BookingRaces, SalonDataProofs

(* On a grid that is fixed no slot row ever goes, and every visit takes    *)
(* one step of it.                                                         *)
GridSlot ==
  [status : SlotStatus, held_by : Users \cup {Null}, held_until : Nat \cup {NoTime}]

GridVisit ==
  [status : BookingStatus, user : Users, slot : SlotKey, duration : {DefaultStep},
   receipt : BOOLEAN]

LEMMA GridRows ==
  /\ GridSlot \subseteq SlotRow /\ GridVisit \subseteq BookingRow
  /\ \A slot \in GridSlot : slot.status # "absent"
BY DataAssumption DEF GridSlot, SlotRow, SlotStatus, GridVisit, BookingRow

Rows(K, Row) == UNION {[D -> Row] : D \in SUBSET K}

Calls ==
  [op : AllOps \cup {"idle"}, step : Steps, u : Users \cup {Null},
   b : BookingIds \cup {Null}, s : SlotKey \cup {Null}, t : Nat,
   sl : Rows(SlotKey, GridSlot), bk : Rows(BookingIds, GridVisit),
   locks : SUBSET (SlotKey \cup BookingIds)]

(***************************************************************************)
(* What a call of each kind has in its hands.                              *)
(***************************************************************************)
BookingOps == {"confirm", "cancel", "client_cancel", "reschedule"}

HoldShape(c) ==
  /\ c.u \in Users /\ c.s \in SlotKey /\ c.b = Null
  /\ c.step \in {"slot", "stale", "commit"}
  /\ c.step = "slot" => DOMAIN c.sl = {} /\ DOMAIN c.bk = {}
  /\ c.step # "slot" => DOMAIN c.sl = {c.s} /\ IsEffectivelyFree(c.sl[c.s], c.t)
  /\ \A x \in DOMAIN c.bk : IsPending(c.bk[x]) /\ c.bk[x].slot = c.s

BookingShape(c) ==
  LET old == c.bk[c.b].slot IN
  /\ c.b \in BookingIds /\ c.b \in {x \in BookingIds : bookings[x] \in GridVisit}
  /\ c.u = bookings[c.b].user
  /\ c.step \in {"booking", "old_slot", "day", "new_slot", "commit"}
  /\ c.op = "reschedule" => c.s \in SlotKey
  /\ c.step \in {"day", "new_slot"} => c.op = "reschedule"
  /\ c.step \in {"booking", "old_slot"} => DOMAIN c.sl = {}
  /\ c.step = "booking" => DOMAIN c.bk = {}
  /\ c.step # "booking" => /\ DOMAIN c.bk = {c.b} /\ IsLive(c.bk[c.b])
                           /\ c.op = "confirm" => IsPending(c.bk[c.b])
  /\ c.step = "day" => DOMAIN c.sl = {old}
  /\ c.step = "new_slot" => DOMAIN c.sl \in {{old}, {old, c.s}}
  /\ c.step = "commit" =>
       IF c.op = "reschedule"
       THEN /\ DOMAIN c.sl = {old, c.s}
            /\ c.s = old \/ IsEffectivelyFree(c.sl[c.s], c.t)
       ELSE DOMAIN c.sl = {old}

ToggleShape(c) ==
  /\ c.s \in SlotKey /\ c.step = "commit"
  /\ DOMAIN c.sl = {c.s} /\ DOMAIN c.bk = {}
  /\ c.sl[c.s].status \in {"free", "blocked"}

SweepShape(c) ==
  /\ c.step \in {"pending", "commit"}
  /\ DOMAIN c.sl # {}
  /\ \A s \in DOMAIN c.sl : HoldExpired(c.sl[s], c.t)
  /\ \A x \in DOMAIN c.bk : IsPending(c.bk[x]) /\ c.bk[x].slot \in DOMAIN c.sl

CallShape(c) ==
  /\ c \in Calls /\ c.t <= now
  /\ \A x \in DOMAIN c.bk : bookings[x] \in GridVisit
  /\ c.op = "idle" => c = Idle
  /\ c.op = "hold" => HoldShape(c)
  /\ c.op \in BookingOps => BookingShape(c)
  /\ c.op = "toggle" => ToggleShape(c)
  /\ c.op = "sweep" => SweepShape(c)

(* Visits that are over are not closed in this module.                     *)
TablesOK ==
  /\ setting \in Settings /\ now \in Nat /\ now <= Horizon
  /\ slots \in [SlotKey -> GridSlot]
  /\ bookings \in [BookingIds -> GridVisit \cup {AbsentBooking}]
  /\ \A b \in BookingIds : bookings[b].status # "completed"
  /\ accepted \in [BookingIds -> Nat]

CallsOK ==
  /\ txn \in [Sessions -> Calls]
  /\ \A p \in Sessions : CallShape(txn[p])

WorkInv == TablesOK /\ CallsOK

-----------------------------------------------------------------------------
(***************************************************************************)
(* Rows and the flush.                                                     *)
(***************************************************************************)
LEMMA NoRowsTyped ==
  ASSUME NEW K, NEW Row
  PROVE  NoRows \in Rows(K, Row) /\ DOMAIN NoRows = {}
<1>1. NoRows \in [{} -> Row] /\ {} \in SUBSET K
  BY DEF NoRows
<1> QED
  BY <1>1 DEF Rows

LEMMA RowsDomain ==
  ASSUME NEW K, NEW Row, NEW rows \in Rows(K, Row)
  PROVE  DOMAIN rows \subseteq K /\ \A k \in DOMAIN rows : rows[k] \in Row
BY DEF Rows

LEMMA RowsIntro ==
  ASSUME NEW K, NEW Row, NEW D \in SUBSET K, NEW rows \in [D -> Row]
  PROVE  rows \in Rows(K, Row)
BY DEF Rows

(* A row that is flushed keeps every column that was not changed.          *)
LEMMA FlushSlots ==
  ASSUME slots \in [SlotKey -> GridSlot],
         NEW loaded \in Rows(SlotKey, GridSlot), NEW new \in Rows(SlotKey, GridSlot)
  PROVE  /\ Flush(slots, loaded, new) \in [SlotKey -> GridSlot]
         /\ \A s \in SlotKey : s \notin DOMAIN new => Flush(slots, loaded, new)[s] = slots[s]
<1>1. ASSUME NEW s \in SlotKey, s \in DOMAIN new
      PROVE  [f \in DOMAIN slots[s] |->
                IF new[s][f] # loaded[s][f] THEN new[s][f] ELSE slots[s][f]] \in GridSlot
  <2>1. slots[s] \in GridSlot /\ new[s] \in GridSlot
    BY <1>1, RowsDomain
  <2> QED
    BY <2>1 DEF GridSlot
<1> QED
  BY <1>1 DEF Flush

Written(row, old, new) ==
  [f \in DOMAIN row |-> IF new[f] # old[f] THEN new[f] ELSE row[f]]

LEMMA FlushBooking ==
  ASSUME NEW row \in GridVisit, NEW old \in GridVisit, NEW new \in GridVisit
  PROVE  /\ Written(row, old, new) \in GridVisit
         /\ new = [old EXCEPT !.status = "cancelled"] /\ old.status # "cancelled"
              => Written(row, old, new) = [row EXCEPT !.status = "cancelled"]
         /\ \A s \in SlotKey : new = [old EXCEPT !.slot = s] =>
              /\ Written(row, old, new) \in {row, [row EXCEPT !.slot = s]}
              /\ old = row => Written(row, old, new) = [row EXCEPT !.slot = s]
BY DEF GridVisit, Written

LEMMA FlushIsWritten ==
  ASSUME NEW tbl, NEW loaded, NEW new
  PROVE  Flush(tbl, loaded, new)
           = [k \in DOMAIN tbl |-> IF k \in DOMAIN new
                                   THEN Written(tbl[k], loaded[k], new[k]) ELSE tbl[k]]
BY DEF Flush, Written

LEMMA AbsentIsNoRow == AbsentBooking \notin GridVisit
BY DEF AbsentBooking, GridVisit, BookingStatus

(* Bookings that are cancelled by a flush.                                 *)
LEMMA FlushCancelled ==
  ASSUME TablesOK, NEW c, CallShape(c), NEW B \in SUBSET DOMAIN c.bk,
         \A x \in B : IsLive(c.bk[x])
  PROVE  Flush(bookings, c.bk, Cancelled(c, B))
           = [b \in BookingIds |-> IF b \in B THEN [bookings[b] EXCEPT !.status = "cancelled"]
                                   ELSE bookings[b]]
<1>1. DOMAIN c.bk \subseteq BookingIds /\ \A x \in DOMAIN c.bk : c.bk[x] \in GridVisit
  <2>1. c.bk \in Rows(BookingIds, GridVisit)
    BY DEF CallShape, Calls
  <2> QED
    BY <2>1, RowsDomain
<1>2. ASSUME NEW b \in B
      PROVE  Written(bookings[b], c.bk[b], Cancelled(c, B)[b])
               = [bookings[b] EXCEPT !.status = "cancelled"]
  <2>1. bookings[b] \in GridVisit /\ c.bk[b] \in GridVisit
    BY <1>1 DEF CallShape
  <2>2. Cancelled(c, B)[b] = [c.bk[b] EXCEPT !.status = "cancelled"]
    BY DEF Cancelled
  <2>3. [c.bk[b] EXCEPT !.status = "cancelled"] \in GridVisit
    BY <2>1 DEF GridVisit, BookingStatus
  <2>4. c.bk[b].status # "cancelled"
    BY DEF IsLive, LIVE_BOOKING_STATUSES
  <2> QED
    BY <2>1, <2>2, <2>3, <2>4, FlushBooking
<1>3. DOMAIN Cancelled(c, B) = B /\ DOMAIN bookings = BookingIds
  BY DEF Cancelled, TablesOK
<1> QED
  BY <1>2, <1>3, FlushIsWritten

(* A booking that is moved by a flush.                                     *)
MovedRows(c, s) ==
  Flush(bookings, c.bk, [b \in {c.b} |-> [c.bk[b] EXCEPT !.slot = s]])

LEMMA FlushMoved ==
  ASSUME TablesOK, NEW c, CallShape(c), c.b \in DOMAIN c.bk, NEW s \in SlotKey
  PROVE  /\ MovedRows(c, s) = [b \in BookingIds |-> MovedRows(c, s)[b]]
         /\ MovedRows(c, s)[c.b] \in {bookings[c.b], [bookings[c.b] EXCEPT !.slot = s]}
         /\ c.bk[c.b] = bookings[c.b] =>
              MovedRows(c, s)[c.b] = [bookings[c.b] EXCEPT !.slot = s]
         /\ \A b \in BookingIds : b # c.b => MovedRows(c, s)[b] = bookings[b]
<1> DEFINE moved == [b \in {c.b} |-> [c.bk[b] EXCEPT !.slot = s]]
           row == Written(bookings[c.b], c.bk[c.b], moved[c.b])
<1>1. DOMAIN c.bk \subseteq BookingIds /\ c.bk[c.b] \in GridVisit
  <2>1. c.bk \in Rows(BookingIds, GridVisit)
    BY DEF CallShape, Calls
  <2> QED
    BY <2>1, RowsDomain
<1>2. bookings[c.b] \in GridVisit
  BY DEF CallShape
<1>3. moved[c.b] = [c.bk[c.b] EXCEPT !.slot = s]
  OBVIOUS
<1>4. [c.bk[c.b] EXCEPT !.slot = s] \in GridVisit
  BY <1>1 DEF GridVisit
<1>5. /\ row \in {bookings[c.b], [bookings[c.b] EXCEPT !.slot = s]}
      /\ c.bk[c.b] = bookings[c.b] => row = [bookings[c.b] EXCEPT !.slot = s]
  <2> HIDE DEF moved
  <2> QED
    BY <1>1, <1>2, <1>3, <1>4, FlushBooking
<1>6. DOMAIN moved = {c.b} /\ DOMAIN bookings = BookingIds
  BY DEF TablesOK
<1> HIDE DEF moved
<1>7. Flush(bookings, c.bk, moved)
        = [b \in BookingIds |-> IF b = c.b THEN row ELSE bookings[b]]
  BY <1>6, FlushIsWritten
<1> HIDE DEF row
<1> QED
  BY <1>1, <1>5, <1>7 DEF moved, MovedRows

-----------------------------------------------------------------------------
(***************************************************************************)
(* What the calls do to the tables when they commit.                       *)
(***************************************************************************)
LEMMA LiveFacts ==
  ASSUME NEW row
  PROVE  /\ IsPending(row) => IsLive(row)
         /\ IsLive(row) => row.status \notin {"cancelled", "absent", "completed"}
         /\ IsLive(row) <=> row.status \in {"pending_payment", "active"}
BY DEF IsPending, IsLive, LIVE_BOOKING_STATUSES

LEMMA HoldCommitWrites ==
  ASSUME WorkInv, NEW p \in Sessions, NEW b \in BookingIds, HoldCommit(p, b)
  PROVE  /\ b \notin DOMAIN txn[p].bk
         /\ bookings' = [x \in BookingIds |->
              IF x = b THEN PendingBooking(txn[p].u, txn[p].s, DefaultStep)
              ELSE IF x \in DOMAIN txn[p].bk THEN [bookings[x] EXCEPT !.status = "cancelled"]
              ELSE bookings[x]]
         /\ slots' = Flush(slots, txn[p].sl,
                           [s \in {txn[p].s} |-> HeldSlot(txn[p].u, txn[p].t + HoldLength)])
<1>1. CallShape(txn[p]) /\ HoldShape(txn[p])
  BY DEF WorkInv, CallsOK, CallShape, HoldCommit, At
<1>2. \A x \in DOMAIN txn[p].bk : IsLive(txn[p].bk[x])
  BY <1>1, LiveFacts DEF HoldShape
<1>3. Flush(bookings, txn[p].bk, Cancelled(txn[p], DOMAIN txn[p].bk))
        = [x \in BookingIds |-> IF x \in DOMAIN txn[p].bk
                                THEN [bookings[x] EXCEPT !.status = "cancelled"]
                                ELSE bookings[x]]
  BY <1>1, <1>2, FlushCancelled DEF WorkInv
<1>4. b \notin DOMAIN txn[p].bk
  BY <1>1, AbsentIsNoRow DEF CallShape, HoldCommit
<1> QED
  BY <1>3, <1>4 DEF HoldCommit, Commit

LEMMA ConfirmWrites ==
  ASSUME WorkInv, NEW p \in Sessions, ConfirmCommit(p), StillPending(txn[p].b)
  PROVE  /\ txn[p].b \in BookingIds
         /\ bookings' = [bookings EXCEPT ![txn[p].b].status = "active",
                                         ![txn[p].b].receipt = TRUE]
         /\ accepted' = [accepted EXCEPT ![txn[p].b] = @ + 1]
         /\ slots' = Flush(slots, txn[p].sl, [x \in {txn[p].bk[txn[p].b].slot} |-> BookedSlot])
<1>1. BookingShape(txn[p])
  BY DEF WorkInv, CallsOK, CallShape, ConfirmCommit, At, BookingOps
<1> QED
  BY <1>1 DEF ConfirmCommit, Commit, BookingShape

LEMMA FreeAndCancelWrites ==
  ASSUME WorkInv, NEW p \in Sessions, ConfirmTooLate(p) \/ CancelCommit(p)
  PROVE  /\ BookingShape(txn[p]) /\ txn[p].step = "commit" /\ txn[p].op # "reschedule"
         /\ bookings' = [bookings EXCEPT ![txn[p].b].status = "cancelled"]
         /\ slots' = Flush(slots, txn[p].sl, [x \in {txn[p].bk[txn[p].b].slot} |-> FreeSlot])
         /\ UNCHANGED accepted
<1>1. /\ CallShape(txn[p]) /\ BookingShape(txn[p]) /\ txn[p].step = "commit"
      /\ txn[p].op # "reschedule" /\ FreeAndCancel(p)
  BY DEF WorkInv, CallsOK, CallShape, ConfirmTooLate, CancelCommit, At, BookingOps
<1>2. txn[p].b \in DOMAIN txn[p].bk /\ IsLive(txn[p].bk[txn[p].b]) /\ txn[p].b \in BookingIds
  BY <1>1 DEF BookingShape
<1>3. Flush(bookings, txn[p].bk, Cancelled(txn[p], {txn[p].b}))
        = [x \in BookingIds |-> IF x \in {txn[p].b}
                                THEN [bookings[x] EXCEPT !.status = "cancelled"]
                                ELSE bookings[x]]
  BY <1>1, <1>2, FlushCancelled DEF WorkInv
<1>4. bookings' = Flush(bookings, txn[p].bk, Cancelled(txn[p], {txn[p].b}))
  BY <1>1 DEF FreeAndCancel, Commit
<1>5. bookings' = [bookings EXCEPT ![txn[p].b].status = "cancelled"]
  BY <1>2, <1>3, <1>4 DEF WorkInv, TablesOK
<1> QED
  BY <1>1, <1>5 DEF FreeAndCancel, Commit

LEMMA RescheduleWrites ==
  ASSUME WorkInv, NEW p \in Sessions, RescheduleCommit(p)
  PROVE  LET c == txn[p]
             taken == IF IsPending(c.bk[c.b])
                      THEN HeldSlot(c.bk[c.b].user, c.t + HoldLength) ELSE BookedSlot
         IN  /\ BookingShape(c) /\ c.step = "commit" /\ c.op = "reschedule"
             /\ bookings' \in [BookingIds -> GridVisit \cup {AbsentBooking}]
             /\ bookings'[c.b] \in {bookings[c.b], [bookings[c.b] EXCEPT !.slot = c.s]}
             /\ c.bk[c.b] = bookings[c.b] =>
                  bookings'[c.b] = [bookings[c.b] EXCEPT !.slot = c.s]
             /\ \A b \in BookingIds : b # c.b => bookings'[b] = bookings[b]
             /\ slots' = Flush(slots, c.sl, [s \in DOMAIN c.sl |-> IF s = c.s THEN taken
                                                                   ELSE FreeSlot])
             /\ UNCHANGED accepted
<1> DEFINE c == txn[p]
           new == MovedRows(c, c.s)
<1>1. /\ CallShape(c) /\ BookingShape(c) /\ c.step = "commit" /\ c.op = "reschedule"
  BY DEF WorkInv, CallsOK, CallShape, RescheduleCommit, At, BookingOps
<1>2. c.b \in DOMAIN c.bk /\ c.b \in BookingIds /\ c.s \in SlotKey
  BY <1>1 DEF BookingShape
<1>3. /\ new = [b \in BookingIds |-> new[b]]
      /\ new[c.b] \in {bookings[c.b], [bookings[c.b] EXCEPT !.slot = c.s]}
      /\ c.bk[c.b] = bookings[c.b] => new[c.b] = [bookings[c.b] EXCEPT !.slot = c.s]
      /\ \A b \in BookingIds : b # c.b => new[b] = bookings[b]
  BY <1>1, <1>2, FlushMoved DEF WorkInv
<1>4. bookings' = new
  BY DEF RescheduleCommit, Commit, MovedRows
<1> HIDE DEF new
<1>5. new \in [BookingIds -> GridVisit \cup {AbsentBooking}]
  <2>1. bookings[c.b] \in GridVisit
    BY <1>1 DEF BookingShape
  <2>2. [bookings[c.b] EXCEPT !.slot = c.s] \in GridVisit
    BY <1>2, <2>1 DEF GridVisit
  <2>3. \A b \in BookingIds : new[b] \in GridVisit \cup {AbsentBooking}
    BY <1>2, <1>3, <2>1, <2>2 DEF WorkInv, TablesOK
  <2> QED
    BY <1>3, <2>3
<1> QED
  BY <1>1, <1>3, <1>4, <1>5 DEF RescheduleCommit, Commit

LEMMA SweepWrites ==
  ASSUME WorkInv, NEW p \in Sessions, SweepCommit(p)
  PROVE  /\ SweepShape(txn[p])
         /\ bookings' = [x \in BookingIds |->
              IF x \in DOMAIN txn[p].bk THEN [bookings[x] EXCEPT !.status = "cancelled"]
              ELSE bookings[x]]
         /\ slots' = Flush(slots, txn[p].sl, [s \in DOMAIN txn[p].sl |-> FreeSlot])
         /\ UNCHANGED accepted
<1>1. CallShape(txn[p]) /\ SweepShape(txn[p])
  BY DEF WorkInv, CallsOK, CallShape, SweepCommit, At
<1>2. \A x \in DOMAIN txn[p].bk : IsLive(txn[p].bk[x])
  BY <1>1, LiveFacts DEF SweepShape
<1>3. Flush(bookings, txn[p].bk, Cancelled(txn[p], DOMAIN txn[p].bk))
        = [x \in BookingIds |-> IF x \in DOMAIN txn[p].bk
                                THEN [bookings[x] EXCEPT !.status = "cancelled"]
                                ELSE bookings[x]]
  BY <1>1, <1>2, FlushCancelled DEF WorkInv
<1> QED
  BY <1>1, <1>3 DEF SweepCommit, Commit

LEMMA ToggleWrites ==
  ASSUME WorkInv, NEW p \in Sessions, ToggleCommit(p)
  PROVE  /\ ToggleShape(txn[p])
         /\ bookings' = bookings
         /\ \E status \in {"free", "blocked"} :
              slots' = Flush(slots, txn[p].sl,
                             [s \in {txn[p].s} |-> [txn[p].sl[s] EXCEPT !.status = status]])
         /\ UNCHANGED accepted
<1>1. ToggleShape(txn[p])
  BY DEF WorkInv, CallsOK, CallShape, ToggleCommit, At
<1> QED
  BY <1>1 DEF ToggleCommit, Commit

(* A call reads, or gives up, or it is one of the six that write.          *)
Reads == UNCHANGED <<world, tables>>

Writes(p) ==
  \/ \E b \in BookingIds : HoldCommit(p, b)
  \/ ConfirmCommit(p) /\ StillPending(txn[p].b)
  \/ ConfirmTooLate(p) \/ CancelCommit(p)
  \/ RescheduleCommit(p)
  \/ ToggleCommit(p)
  \/ SweepCommit(p)

LEMMA ReadsOrWrites ==
  ASSUME NEW p \in Sessions, SessionStart(p) \/ SessionStep(p)
  PROVE  Reads \/ (Writes(p) /\ UNCHANGED world)
<1>1. CASE SessionStart(p)
  BY <1>1 DEF SessionStart, HoldStart, ConfirmStart, CancelStart, ClientCancelStart,
     RescheduleStart, ToggleStart, SweepStart, Start, Reads
<1>2. CASE \/ HoldLoadSlot(p) \/ HoldLoadStale(p) \/ LoadBooking(p) \/ LoadOldSlot(p)
           \/ RescheduleLoadDay(p) \/ RescheduleLoadSlot(p) \/ SweepLoadPending(p)
           \/ Abandon(p)
  BY <1>2 DEF HoldLoadSlot, HoldLoadStale, LoadBooking, LoadOldSlot,
     RescheduleLoadDay, RescheduleLoadSlot, SweepLoadPending, Abandon, Continue, Rollback, Reads
<1>3. CASE ConfirmCommit(p)
  BY <1>3 DEF ConfirmCommit, Rollback, Reads, Writes
<1>4. CASE \/ \E b \in BookingIds : HoldCommit(p, b)
           \/ ConfirmTooLate(p) \/ CancelCommit(p) \/ RescheduleCommit(p)
           \/ ToggleCommit(p) \/ SweepCommit(p)
  BY <1>4 DEF HoldCommit, ConfirmTooLate, CancelCommit, FreeAndCancel,
     RescheduleCommit, ToggleCommit, SweepCommit, Writes
<1> QED
  BY <1>1, <1>2, <1>3, <1>4 DEF SessionStep

LEMMA StepCases ==
  ASSUME [Next]_vars
  PROVE  \/ UNCHANGED vars
         \/ Tick
         \/ \E p \in Sessions : SessionStart(p) \/ SessionStep(p)
BY DEF Next

-----------------------------------------------------------------------------
(***************************************************************************)
(* The life of a booking, whatever the calls have read: it is made, moved, *)
(* paid while it is pending, and cancelled, and it stays its client's.     *)
(***************************************************************************)
Made(b) ==
  /\ bookings[b] = AbsentBooking
  /\ \E u \in Users, s \in SlotKey : bookings'[b] = PendingBooking(u, s, DefaultStep)

Lives(b) ==
  /\ bookings[b] \in GridVisit /\ bookings'[b] \in GridVisit
  /\ bookings'[b].user = bookings[b].user
  /\ \/ bookings'[b].status = bookings[b].status
     \/ bookings'[b].status = "cancelled"
     \/ IsPending(bookings[b]) /\ bookings'[b].status = "active"

Paid(b) ==
  /\ accepted'[b] = accepted[b] + 1
  /\ IsPending(bookings[b]) /\ bookings'[b].status = "active"

Fate(b) ==
  /\ bookings'[b] = bookings[b] \/ Made(b) \/ Lives(b)
  /\ accepted'[b] = accepted[b] \/ Paid(b)

LEMMA CancelledRow ==
  ASSUME NEW row \in GridVisit
  PROVE  /\ [row EXCEPT !.status = "cancelled"] \in GridVisit
         /\ [row EXCEPT !.status = "cancelled"].user = row.user
         /\ [row EXCEPT !.status = "cancelled"].slot = row.slot
         /\ [row EXCEPT !.status = "cancelled"].status = "cancelled"
BY DEF GridVisit, BookingStatus

LEMMA Fates ==
  ASSUME WorkInv, [Next]_vars
  PROVE  /\ bookings' = [b \in BookingIds |-> bookings'[b]]
         /\ accepted' = [b \in BookingIds |-> accepted'[b]]
         /\ \A b \in BookingIds : Fate(b)
<1>0. /\ bookings \in [BookingIds -> GridVisit \cup {AbsentBooking}]
      /\ accepted \in [BookingIds -> Nat]
  BY DEF WorkInv, TablesOK
<1>1. CASE UNCHANGED <<bookings, accepted>>
  BY <1>0, <1>1 DEF Fate
<1>2. ASSUME NEW p \in Sessions, NEW b \in BookingIds, HoldCommit(p, b)
      PROVE  /\ bookings' = [x \in BookingIds |-> bookings'[x]] /\ accepted' = accepted
             /\ \A x \in BookingIds : Fate(x)
  <2>1. CallShape(txn[p]) /\ HoldShape(txn[p]) /\ accepted' = accepted
    BY <1>2 DEF WorkInv, CallsOK, CallShape, HoldCommit, At
  <2>2. Made(b)
    BY <1>2, <2>1, HoldCommitWrites DEF Made, HoldCommit, HoldShape
  <2>3. ASSUME NEW x \in BookingIds, x # b, x \in DOMAIN txn[p].bk
        PROVE  Lives(x)
    <3>1. bookings[x] \in GridVisit
      BY <2>1, <2>3 DEF CallShape
    <3>2. bookings'[x] = [bookings[x] EXCEPT !.status = "cancelled"]
      BY <1>2, <2>3, HoldCommitWrites
    <3> QED
      BY <3>1, <3>2, CancelledRow DEF Lives
  <2>4. ASSUME NEW x \in BookingIds, x # b, x \notin DOMAIN txn[p].bk
        PROVE  bookings'[x] = bookings[x]
    <3>1. bookings' = [y \in BookingIds |->
              IF y = b THEN PendingBooking(txn[p].u, txn[p].s, DefaultStep)
              ELSE IF y \in DOMAIN txn[p].bk THEN [bookings[y] EXCEPT !.status = "cancelled"]
              ELSE bookings[y]]
      BY <1>2, HoldCommitWrites
    <3> QED
      BY <2>4, <3>1
  <2> QED
    BY <1>2, <2>1, <2>2, <2>3, <2>4, HoldCommitWrites DEF Fate
<1>3. ASSUME NEW p \in Sessions, ConfirmCommit(p), StillPending(txn[p].b)
      PROVE  /\ bookings' = [x \in BookingIds |-> bookings'[x]]
             /\ accepted' = [x \in BookingIds |-> accepted'[x]]
             /\ \A x \in BookingIds : Fate(x)
  <2>1. /\ txn[p].b \in BookingIds /\ IsPending(bookings[txn[p].b])
        /\ bookings[txn[p].b] \in GridVisit
    <3>1. txn[p].b \in BookingIds /\ IsPending(bookings[txn[p].b])
      BY <1>3, ConfirmWrites DEF StillPending
    <3>2. bookings[txn[p].b] # AbsentBooking
      BY <3>1 DEF IsPending, AbsentBooking
    <3> QED
      BY <1>0, <3>1, <3>2
  <2>2. bookings' = [bookings EXCEPT ![txn[p].b].status = "active",
                                     ![txn[p].b].receipt = TRUE]
    BY <1>3, ConfirmWrites
  <2>3. accepted' = [accepted EXCEPT ![txn[p].b] = @ + 1]
    BY <1>3, ConfirmWrites
  <2>4. /\ bookings'[txn[p].b] = [[bookings[txn[p].b] EXCEPT !.status = "active"]
                                                      EXCEPT !.receipt = TRUE]
    BY <1>0, <2>1, <2>2
  <2>5. Lives(txn[p].b) /\ bookings'[txn[p].b].status = "active"
    BY <2>1, <2>4 DEF Lives, GridVisit, BookingStatus
  <2>6. Paid(txn[p].b)
    BY <1>0, <2>1, <2>3, <2>5 DEF Paid
  <2>7. \A x \in BookingIds : x # txn[p].b =>
          bookings'[x] = bookings[x] /\ accepted'[x] = accepted[x]
    BY <1>0, <2>1, <2>2, <2>3
  <2> QED
    BY <1>0, <2>2, <2>3, <2>5, <2>6, <2>7 DEF Fate
<1>4. ASSUME NEW p \in Sessions, ConfirmTooLate(p) \/ CancelCommit(p)
      PROVE  /\ bookings' = [x \in BookingIds |-> bookings'[x]] /\ accepted' = accepted
             /\ \A x \in BookingIds : Fate(x)
  <2>1. txn[p].b \in BookingIds /\ bookings[txn[p].b] \in GridVisit
    BY <1>4, FreeAndCancelWrites DEF BookingShape
  <2>2. bookings' = [bookings EXCEPT ![txn[p].b].status = "cancelled"] /\ accepted' = accepted
    BY <1>4, FreeAndCancelWrites
  <2>3. bookings'[txn[p].b] = [bookings[txn[p].b] EXCEPT !.status = "cancelled"]
    BY <1>0, <2>1, <2>2
  <2>4. Lives(txn[p].b)
    BY <2>1, <2>3, CancelledRow DEF Lives
  <2>5. \A x \in BookingIds : x # txn[p].b => bookings'[x] = bookings[x]
    BY <1>0, <2>2
  <2> QED
    BY <1>0, <2>2, <2>4, <2>5 DEF Fate
<1>5. ASSUME NEW p \in Sessions, RescheduleCommit(p)
      PROVE  /\ bookings' = [x \in BookingIds |-> bookings'[x]] /\ accepted' = accepted
             /\ \A x \in BookingIds : Fate(x)
  <2>1. /\ txn[p].b \in BookingIds /\ bookings[txn[p].b] \in GridVisit
        /\ txn[p].s \in SlotKey
    BY <1>5, RescheduleWrites DEF BookingShape
  <2>2. /\ bookings'[txn[p].b] \in {bookings[txn[p].b],
                                   [bookings[txn[p].b] EXCEPT !.slot = txn[p].s]}
        /\ \A x \in BookingIds : x # txn[p].b => bookings'[x] = bookings[x]
        /\ bookings' \in [BookingIds -> GridVisit \cup {AbsentBooking}]
        /\ accepted' = accepted
    BY <1>5, RescheduleWrites
  <2>3. bookings'[txn[p].b] = bookings[txn[p].b] \/ Lives(txn[p].b)
    BY <2>1, <2>2 DEF Lives, GridVisit
  <2> QED
    BY <2>2, <2>3 DEF Fate
<1>6. ASSUME NEW p \in Sessions, SweepCommit(p)
      PROVE  /\ bookings' = [x \in BookingIds |-> bookings'[x]] /\ accepted' = accepted
             /\ \A x \in BookingIds : Fate(x)
  <2>1. CallShape(txn[p]) /\ accepted' = accepted
    BY <1>6, SweepWrites DEF WorkInv, CallsOK
  <2>2. ASSUME NEW x \in BookingIds, x \in DOMAIN txn[p].bk
        PROVE  Lives(x)
    <3>1. bookings[x] \in GridVisit
      BY <2>1, <2>2 DEF CallShape
    <3>2. bookings'[x] = [bookings[x] EXCEPT !.status = "cancelled"]
      BY <1>6, <2>2, SweepWrites
    <3> QED
      BY <3>1, <3>2, CancelledRow DEF Lives
  <2>3. \A x \in BookingIds : x \notin DOMAIN txn[p].bk => bookings'[x] = bookings[x]
    BY <1>6, SweepWrites
  <2> QED
    BY <1>6, <2>1, <2>2, <2>3, SweepWrites DEF Fate
<1>7. ASSUME NEW p \in Sessions, ToggleCommit(p)
      PROVE  UNCHANGED <<bookings, accepted>>
  BY <1>7, ToggleWrites
<1>8. ASSUME NEW p \in Sessions, SessionStart(p) \/ SessionStep(p)
      PROVE  /\ bookings' = [b \in BookingIds |-> bookings'[b]]
             /\ accepted' = [b \in BookingIds |-> accepted'[b]]
             /\ \A b \in BookingIds : Fate(b)
  <2>1. Reads \/ Writes(p)
    BY <1>8, ReadsOrWrites
  <2>2. CASE Reads
    BY <1>1, <2>2 DEF Reads, tables
  <2>3. CASE Writes(p)
    BY <1>0, <1>1, <1>2, <1>3, <1>4, <1>5, <1>6, <1>7, <2>3 DEF Writes
  <2> QED
    BY <2>1, <2>2, <2>3
<1> QED
  BY <1>1, <1>8, StepCases DEF vars, tables, Tick

-----------------------------------------------------------------------------
(***************************************************************************)
(* The tables keep their types.                                            *)
(***************************************************************************)
LEMMA SlotValues ==
  /\ FreeSlot \in GridSlot /\ BookedSlot \in GridSlot
  /\ \A u \in Users, until \in Nat : HeldSlot(u, until) \in GridSlot
BY DEF FreeSlot, BookedSlot, HeldSlot, GridSlot, SlotStatus

LEMMA CallFields ==
  ASSUME WorkInv, NEW p \in Sessions
  PROVE  /\ CallShape(txn[p])
         /\ txn[p].t \in Nat /\ txn[p].t + HoldLength \in Nat
         /\ txn[p].sl \in Rows(SlotKey, GridSlot) /\ txn[p].bk \in Rows(BookingIds, GridVisit)
         /\ DOMAIN txn[p].sl \subseteq SlotKey /\ DOMAIN txn[p].bk \subseteq BookingIds
         /\ \A s \in DOMAIN txn[p].sl : txn[p].sl[s] \in GridSlot
         /\ \A b \in DOMAIN txn[p].bk : txn[p].bk[b] \in GridVisit /\ bookings[b] \in GridVisit
<1>1. CallShape(txn[p])
  BY DEF WorkInv, CallsOK
<1>2. txn[p].sl \in Rows(SlotKey, GridSlot) /\ txn[p].bk \in Rows(BookingIds, GridVisit)
  BY <1>1 DEF CallShape, Calls
<1>3. txn[p].t \in Nat /\ txn[p].t + HoldLength \in Nat
  BY <1>1, DataAssumption DEF CallShape, Calls
<1>4. \A b \in DOMAIN txn[p].bk : bookings[b] \in GridVisit
  BY <1>1 DEF CallShape
<1> QED
  BY <1>1, <1>2, <1>3, <1>4, RowsDomain

(* The slot of a booking that was loaded.                                  *)
LEMMA LoadedSlot ==
  ASSUME WorkInv, NEW p \in Sessions, BookingShape(txn[p]), txn[p].step # "booking"
  PROVE  /\ txn[p].b \in BookingIds /\ DOMAIN txn[p].bk = {txn[p].b}
         /\ txn[p].bk[txn[p].b] \in GridVisit
         /\ txn[p].bk[txn[p].b].slot \in SlotKey /\ txn[p].bk[txn[p].b].user \in Users
         /\ bookings[txn[p].b] \in GridVisit
<1>1. txn[p].b \in BookingIds /\ DOMAIN txn[p].bk = {txn[p].b}
  BY DEF BookingShape
<1>2. txn[p].bk[txn[p].b] \in GridVisit /\ bookings[txn[p].b] \in GridVisit
  BY <1>1, CallFields
<1> QED
  BY <1>1, <1>2 DEF GridVisit

LEMMA SlotWrites ==
  ASSUME WorkInv, NEW p \in Sessions, Writes(p)
  PROVE  \E new \in Rows(SlotKey, GridSlot) :
           DOMAIN new = DOMAIN txn[p].sl /\ slots' = Flush(slots, txn[p].sl, new)
<1>1. ASSUME NEW b \in BookingIds, HoldCommit(p, b)
      PROVE  \E new \in Rows(SlotKey, GridSlot) :
               DOMAIN new = DOMAIN txn[p].sl /\ slots' = Flush(slots, txn[p].sl, new)
  <2> DEFINE row == HeldSlot(txn[p].u, txn[p].t + HoldLength)
             new == [s \in {txn[p].s} |-> row]
  <2>1. HoldShape(txn[p]) /\ DOMAIN txn[p].sl = {txn[p].s}
    BY <1>1 DEF WorkInv, CallsOK, CallShape, HoldCommit, At, HoldShape
  <2>2. row \in GridSlot /\ {txn[p].s} \in SUBSET SlotKey
    BY <2>1, CallFields, SlotValues DEF HoldShape
  <2>3. slots' = Flush(slots, txn[p].sl, new)
    BY <1>1, HoldCommitWrites
  <2> HIDE DEF row
  <2>4. new \in [{txn[p].s} -> GridSlot]
    BY <2>2
  <2> HIDE DEF new
  <2> QED
    BY <2>1, <2>2, <2>3, <2>4, RowsIntro
<1>2. ASSUME ConfirmCommit(p), StillPending(txn[p].b)
      PROVE  \E new \in Rows(SlotKey, GridSlot) :
               DOMAIN new = DOMAIN txn[p].sl /\ slots' = Flush(slots, txn[p].sl, new)
  <2> DEFINE s == txn[p].bk[txn[p].b].slot
             new == [x \in {s} |-> BookedSlot]
  <2>1. BookingShape(txn[p]) /\ txn[p].step = "commit" /\ txn[p].op # "reschedule"
    BY <1>2 DEF WorkInv, CallsOK, CallShape, ConfirmCommit, At, BookingOps
  <2>2. {s} \in SUBSET SlotKey /\ DOMAIN txn[p].sl = {s}
    BY <2>1, LoadedSlot DEF BookingShape
  <2>3. slots' = Flush(slots, txn[p].sl, new)
    BY <1>2, ConfirmWrites
  <2>4. new \in [{s} -> GridSlot]
    BY SlotValues
  <2> HIDE DEF new, s
  <2> QED
    BY <2>2, <2>3, <2>4, RowsIntro
<1>3. ASSUME ConfirmTooLate(p) \/ CancelCommit(p)
      PROVE  \E new \in Rows(SlotKey, GridSlot) :
               DOMAIN new = DOMAIN txn[p].sl /\ slots' = Flush(slots, txn[p].sl, new)
  <2> DEFINE s == txn[p].bk[txn[p].b].slot
             new == [x \in {s} |-> FreeSlot]
  <2>1. BookingShape(txn[p]) /\ txn[p].step = "commit" /\ txn[p].op # "reschedule"
    BY <1>3, FreeAndCancelWrites
  <2>2. {s} \in SUBSET SlotKey /\ DOMAIN txn[p].sl = {s}
    BY <2>1, LoadedSlot DEF BookingShape
  <2>3. slots' = Flush(slots, txn[p].sl, new)
    BY <1>3, FreeAndCancelWrites
  <2>4. new \in [{s} -> GridSlot]
    BY SlotValues
  <2> HIDE DEF new, s
  <2> QED
    BY <2>2, <2>3, <2>4, RowsIntro
<1>4. ASSUME RescheduleCommit(p)
      PROVE  \E new \in Rows(SlotKey, GridSlot) :
               DOMAIN new = DOMAIN txn[p].sl /\ slots' = Flush(slots, txn[p].sl, new)
  <2> DEFINE c == txn[p]
             taken == IF IsPending(c.bk[c.b])
                      THEN HeldSlot(c.bk[c.b].user, c.t + HoldLength) ELSE BookedSlot
             new == [s \in DOMAIN c.sl |-> IF s = c.s THEN taken ELSE FreeSlot]
  <2>1. BookingShape(c) /\ c.step = "commit"
    BY <1>4, RescheduleWrites
  <2>2. taken \in GridSlot /\ DOMAIN c.sl \in SUBSET SlotKey
    BY <2>1, LoadedSlot, CallFields, SlotValues
  <2>3. slots' = Flush(slots, c.sl, new)
    BY <1>4, RescheduleWrites
  <2> HIDE DEF taken
  <2>4. new \in [DOMAIN c.sl -> GridSlot]
    BY <2>2, SlotValues
  <2> HIDE DEF new
  <2> QED
    BY <2>2, <2>3, <2>4, RowsIntro
<1>5. ASSUME ToggleCommit(p)
      PROVE  \E new \in Rows(SlotKey, GridSlot) :
               DOMAIN new = DOMAIN txn[p].sl /\ slots' = Flush(slots, txn[p].sl, new)
  <2>1. ToggleShape(txn[p])
    BY <1>5, ToggleWrites
  <2>2. PICK status \in {"free", "blocked"} :
          slots' = Flush(slots, txn[p].sl,
                         [s \in {txn[p].s} |-> [txn[p].sl[s] EXCEPT !.status = status]])
    BY <1>5, ToggleWrites
  <2> DEFINE new == [s \in {txn[p].s} |-> [txn[p].sl[s] EXCEPT !.status = status]]
  <2>3. /\ txn[p].sl[txn[p].s] \in GridSlot /\ {txn[p].s} \in SUBSET SlotKey
        /\ DOMAIN txn[p].sl = {txn[p].s}
    BY <2>1, CallFields DEF ToggleShape
  <2>4. [txn[p].sl[txn[p].s] EXCEPT !.status = status] \in GridSlot
    BY <2>3 DEF GridSlot, SlotStatus
  <2>5. new \in [{txn[p].s} -> GridSlot]
    BY <2>4
  <2> HIDE DEF new
  <2> QED
    BY <2>2, <2>3, <2>5, RowsIntro DEF new
<1>6. ASSUME SweepCommit(p)
      PROVE  \E new \in Rows(SlotKey, GridSlot) :
               DOMAIN new = DOMAIN txn[p].sl /\ slots' = Flush(slots, txn[p].sl, new)
  <2> DEFINE new == [s \in DOMAIN txn[p].sl |-> FreeSlot]
  <2>1. DOMAIN txn[p].sl \in SUBSET SlotKey
    BY CallFields
  <2>2. new \in [DOMAIN txn[p].sl -> GridSlot]
    BY SlotValues
  <2>3. slots' = Flush(slots, txn[p].sl, new)
    BY <1>6, SweepWrites
  <2> HIDE DEF new
  <2> QED
    BY <2>1, <2>2, <2>3, RowsIntro
<1> QED
  BY <1>1, <1>2, <1>3, <1>4, <1>5, <1>6 DEF Writes

LEMMA MadeRow ==
  ASSUME NEW u \in Users, NEW s \in SlotKey
  PROVE  PendingBooking(u, s, DefaultStep) \in GridVisit
BY DataAssumption DEF PendingBooking, GridVisit, BookingStatus

LEMMA TablesStep ==
  ASSUME WorkInv, [Next]_vars
  PROVE  TablesOK'
<1>1. /\ bookings' = [b \in BookingIds |-> bookings'[b]]
      /\ accepted' = [b \in BookingIds |-> accepted'[b]]
      /\ \A b \in BookingIds : Fate(b)
  BY Fates
<1>2. ASSUME NEW b \in BookingIds
      PROVE  /\ bookings'[b] \in GridVisit \cup {AbsentBooking}
             /\ bookings'[b].status # "completed"
             /\ accepted'[b] \in Nat
  <2>1. /\ bookings[b] \in GridVisit \cup {AbsentBooking}
        /\ bookings[b].status # "completed" /\ accepted[b] \in Nat
    BY DEF WorkInv, TablesOK
  <2>2. bookings'[b] = bookings[b] \/ Made(b) \/ Lives(b)
    BY <1>1 DEF Fate
  <2>3. CASE Made(b)
    <3>1. PICK u \in Users, s \in SlotKey : bookings'[b] = PendingBooking(u, s, DefaultStep)
      BY <2>3 DEF Made
    <3>2. bookings'[b].status # "completed"
      BY <3>1 DEF PendingBooking
    <3> QED
      BY <1>1, <2>1, <3>1, <3>2, MadeRow DEF Fate, Paid
  <2>4. CASE Lives(b)
    BY <1>1, <2>1, <2>4 DEF Fate, Paid, Lives
  <2> QED
    BY <1>1, <2>1, <2>2, <2>3, <2>4 DEF Fate, Paid
<1>3. slots' \in [SlotKey -> GridSlot] /\ setting' = setting /\ now' \in {now, now + 1}
      /\ now' <= Horizon
  <2>1. slots \in [SlotKey -> GridSlot] /\ now \in Nat /\ now <= Horizon
    BY DEF WorkInv, TablesOK
  <2>2. CASE UNCHANGED vars
    BY <2>1, <2>2 DEF vars, world, tables
  <2>3. CASE Tick
    BY <2>1, <2>3, RacesAssumption DEF Tick, tables
  <2>4. ASSUME NEW p \in Sessions, SessionStart(p) \/ SessionStep(p)
        PROVE  /\ slots' \in [SlotKey -> GridSlot] /\ setting' = setting /\ now' \in {now, now + 1}
              /\ now' <= Horizon
    <3>1. CASE Reads
      BY <2>1, <3>1 DEF Reads, world, tables
    <3>2. CASE Writes(p) /\ UNCHANGED world
      <4>1. PICK new \in Rows(SlotKey, GridSlot) : slots' = Flush(slots, txn[p].sl, new)
        BY <3>2, SlotWrites
      <4>2. slots' \in [SlotKey -> GridSlot]
        BY <2>1, <4>1, FlushSlots, CallFields
      <4> QED
        BY <2>1, <3>2, <4>2 DEF world
    <3> QED
      BY <2>4, <3>1, <3>2, ReadsOrWrites
  <2> QED
    BY <2>2, <2>3, <2>4, StepCases
<1> QED
  <2>1. /\ \A b \in BookingIds : bookings'[b] \in GridVisit \cup {AbsentBooking}
        /\ \A b \in BookingIds : accepted'[b] \in Nat
        /\ \A b \in BookingIds : bookings'[b].status # "completed"
    BY <1>2
  <2>2. /\ bookings' \in [BookingIds -> GridVisit \cup {AbsentBooking}]
        /\ accepted' \in [BookingIds -> Nat]
    BY <1>1, <2>1
  <2> QED
    BY <1>3, <2>1, <2>2 DEF WorkInv, TablesOK

-----------------------------------------------------------------------------
(***************************************************************************)
(* What a step that only reads leaves in the hands of its call.            *)
(***************************************************************************)
Same(c, d) == d.op = c.op /\ d.u = c.u /\ d.b = c.b /\ d.s = c.s /\ d.t = c.t

LEMMA CallMade ==
  ASSUME WorkInv, NEW op \in AllOps, NEW step \in Steps, NEW u \in Users \cup {Null},
         NEW b \in BookingIds \cup {Null}, NEW s \in SlotKey \cup {Null}
  PROVE  LET c == Call(op, step, u, b, s) IN
         /\ c \in Calls /\ DOMAIN c.sl = {} /\ DOMAIN c.bk = {} /\ c.locks = {}
         /\ c.op = op /\ c.step = step /\ c.u = u /\ c.b = b /\ c.s = s /\ c.t = now
<1>1. /\ NoRows \in Rows(SlotKey, GridSlot) /\ NoRows \in Rows(BookingIds, GridVisit)
      /\ DOMAIN NoRows = {}
  BY NoRowsTyped
<1>2. now \in Nat
  BY DEF WorkInv, TablesOK
<1> QED
  BY <1>1, <1>2 DEF Call, Idle, Calls

StepTo(c, step) == [c EXCEPT !.step = step]

LEMMA StepMade ==
  ASSUME NEW c \in Calls, NEW step \in Steps
  PROVE  /\ StepTo(c, step) \in Calls /\ Same(c, StepTo(c, step))
         /\ StepTo(c, step).step = step /\ StepTo(c, step).locks = c.locks
         /\ StepTo(c, step).sl = c.sl /\ StepTo(c, step).bk = c.bk
BY DEF Calls, Same, StepTo

LEMMA LockMade ==
  ASSUME NEW c \in Calls, NEW rows \in SUBSET (SlotKey \cup BookingIds)
  PROVE  LET d == Lock(c, rows) IN
         /\ d \in Calls /\ Same(c, d) /\ d.step = c.step
         /\ d.sl = c.sl /\ d.bk = c.bk
         /\ d.locks = IF setting.row_locks THEN c.locks \cup rows ELSE c.locks
<1>1. CASE setting.row_locks
  BY <1>1 DEF Lock, Calls, Same
<1>2. CASE ~setting.row_locks
  BY <1>2 DEF Lock, Calls, Same
<1> QED
  BY <1>1, <1>2

LEMMA SlotsLoaded ==
  ASSUME WorkInv, NEW c \in Calls, NEW S \in SUBSET SlotKey
  PROVE  LET d == LoadSlots(c, S) IN
         /\ d \in Calls /\ Same(c, d) /\ d.step = c.step /\ d.bk = c.bk /\ d.locks = c.locks
         /\ DOMAIN d.sl = S \cup DOMAIN c.sl
         /\ \A s \in S : d.sl[s] = slots[s]
         /\ \A s \in DOMAIN c.sl : s \notin S => d.sl[s] = c.sl[s]
<1>1. c.sl \in Rows(SlotKey, GridSlot)
  BY DEF Calls
<1>2. \A s \in S : slots[s] \in GridSlot
  BY DEF WorkInv, TablesOK
<1>3. DOMAIN c.sl \subseteq SlotKey /\ \A s \in DOMAIN c.sl : c.sl[s] \in GridSlot
  BY <1>1, RowsDomain
<1>4. Loaded(slots, S, c.sl) \in [S \cup DOMAIN c.sl -> GridSlot]
  BY <1>2, <1>3 DEF Loaded
<1>5. S \cup DOMAIN c.sl \in SUBSET SlotKey
  BY <1>3
<1>6. Loaded(slots, S, c.sl) \in Rows(SlotKey, GridSlot)
  BY <1>4, <1>5, RowsIntro
<1>7. LoadSlots(c, S).sl = Loaded(slots, S, c.sl)
  BY DEF LoadSlots, Calls
<1> QED
  BY <1>6, <1>7 DEF LoadSlots, Calls, Same, Loaded

LEMMA BookingsLoaded ==
  ASSUME WorkInv, NEW c \in Calls, NEW B \in SUBSET BookingIds,
         \A b \in B : bookings[b] \in GridVisit
  PROVE  LET d == LoadBookings(c, B) IN
         /\ d \in Calls /\ Same(c, d) /\ d.step = c.step /\ d.sl = c.sl /\ d.locks = c.locks
         /\ DOMAIN d.bk = B \cup DOMAIN c.bk
         /\ \A b \in B : d.bk[b] = bookings[b]
         /\ \A b \in DOMAIN c.bk : b \notin B => d.bk[b] = c.bk[b]
<1>1. c.bk \in Rows(BookingIds, GridVisit)
  BY DEF Calls
<1>3. DOMAIN c.bk \subseteq BookingIds /\ \A b \in DOMAIN c.bk : c.bk[b] \in GridVisit
  BY <1>1, RowsDomain
<1>4. Loaded(bookings, B, c.bk) \in [B \cup DOMAIN c.bk -> GridVisit]
  BY <1>3 DEF Loaded
<1>5. B \cup DOMAIN c.bk \in SUBSET BookingIds
  BY <1>3
<1>6. Loaded(bookings, B, c.bk) \in Rows(BookingIds, GridVisit)
  BY <1>4, <1>5, RowsIntro
<1>7. LoadBookings(c, B).bk = Loaded(bookings, B, c.bk)
  BY DEF LoadBookings, Calls
<1> QED
  BY <1>6, <1>7 DEF LoadBookings, Calls, Same, Loaded

LEMMA RowOfLive ==
  ASSUME WorkInv, NEW b \in BookingIds
  PROVE  /\ IsLive(bookings[b]) \/ IsPending(bookings[b]) \/ bookings[b] # AbsentBooking
              => bookings[b] \in GridVisit
         /\ bookings[b] \in GridVisit => bookings[b].user \in Users /\ bookings[b].slot \in SlotKey
<1>1. bookings[b] \in GridVisit \cup {AbsentBooking}
  BY DEF WorkInv, TablesOK
<1>2. ~IsLive(AbsentBooking) /\ ~IsPending(AbsentBooking)
  BY DEF IsLive, IsPending, LIVE_BOOKING_STATUSES, AbsentBooking
<1> QED
  BY <1>1, <1>2 DEF GridVisit

LEMMA NewCall ==
  ASSUME WorkInv, NEW p \in Sessions, SessionStart(p)
  PROVE  txn' = [txn EXCEPT ![p] = txn'[p]] /\ CallShape(txn'[p])
<1>0. txn \in [Sessions -> Calls]
  BY DEF WorkInv, CallsOK
<1>1. ASSUME NEW u \in Users, NEW s \in SlotKey, HoldStart(p, u, s)
      PROVE  txn' = [txn EXCEPT ![p] = txn'[p]] /\ CallShape(txn'[p])
  <2>1. txn' = [txn EXCEPT ![p] = Call("hold", "slot", u, Null, s)]
    BY <1>1 DEF HoldStart, Start
  <2>2. txn'[p] = Call("hold", "slot", u, Null, s)
    BY <1>0, <2>1
  <2>3. /\ txn'[p] \in Calls /\ DOMAIN txn'[p].bk = {} /\ DOMAIN txn'[p].sl = {}
        /\ txn'[p].op = "hold"
        /\ txn'[p].step = "slot" /\ txn'[p].u = u /\ txn'[p].b = Null /\ txn'[p].s = s
        /\ txn'[p].t = now
    <3>1. "hold" \in AllOps /\ "slot" \in Steps /\ Null \in BookingIds \cup {Null}
      BY DEF AllOps, Steps
    <3>2. u \in Users \cup {Null} /\ s \in SlotKey \cup {Null}
      OBVIOUS
    <3> QED
      BY <2>2, <3>1, <3>2, CallMade
  <2>4. now \in Nat /\ now <= now
    BY DEF WorkInv, TablesOK
  <2> QED
    BY <2>1, <2>2, <2>3, <2>4 DEF CallShape, HoldShape, BookingOps
<1>2. ASSUME NEW op \in BookingOps, NEW b \in BookingIds, NEW s \in SlotKey \cup {Null},
             op = "reschedule" => s \in SlotKey, bookings[b] \in GridVisit,
             Start(p, Call(op, "booking", bookings[b].user, b, s))
      PROVE  txn' = [txn EXCEPT ![p] = txn'[p]] /\ CallShape(txn'[p])
  <2>1. txn' = [txn EXCEPT ![p] = Call(op, "booking", bookings[b].user, b, s)]
    BY <1>2 DEF Start
  <2>2. txn'[p] = Call(op, "booking", bookings[b].user, b, s)
    BY <1>0, <2>1
  <2>3. /\ txn'[p] \in Calls /\ DOMAIN txn'[p].bk = {} /\ DOMAIN txn'[p].sl = {}
        /\ txn'[p].op = op /\ txn'[p].step = "booking" /\ txn'[p].u = bookings[b].user
        /\ txn'[p].b = b /\ txn'[p].s = s /\ txn'[p].t = now
    <3>1. bookings[b].user \in Users /\ op \in AllOps /\ "booking" \in Steps
      BY <1>2, RowOfLive DEF BookingOps, AllOps, Steps
    <3> QED
      BY <2>2, <3>1, CallMade
  <2>4. now \in Nat /\ now <= now
    BY DEF WorkInv, TablesOK
  <2>5. BookingShape(txn'[p])
    BY <1>2, <2>3 DEF BookingShape
  <2> QED
    BY <1>2, <2>1, <2>2, <2>3, <2>4, <2>5 DEF CallShape, BookingOps
<1>3. ASSUME NEW s \in SlotKey, ToggleStart(p, s)
      PROVE  txn' = [txn EXCEPT ![p] = txn'[p]] /\ CallShape(txn'[p])
  <2> DEFINE c == Call("toggle", "commit", Null, Null, s)
  <2>1. txn' = [txn EXCEPT ![p] = LoadSlots(c, {s})]
    BY <1>3 DEF ToggleStart, Start
  <2>2. txn'[p] = LoadSlots(c, {s})
    BY <1>0, <2>1
  <2>3. /\ c \in Calls /\ DOMAIN c.bk = {} /\ DOMAIN c.sl = {} /\ c.op = "toggle"
        /\ c.step = "commit" /\ c.s = s /\ c.t = now
    <3>1. "toggle" \in AllOps /\ "commit" \in Steps /\ Null \in BookingIds \cup {Null}
          /\ Null \in Users \cup {Null} /\ s \in SlotKey \cup {Null}
      BY DEF AllOps, Steps
    <3> QED
      BY <3>1, CallMade
  <2> HIDE DEF c
  <2>4. /\ txn'[p] \in Calls /\ Same(c, txn'[p]) /\ txn'[p].step = c.step
        /\ txn'[p].bk = c.bk /\ DOMAIN txn'[p].sl = {s} \cup DOMAIN c.sl
        /\ txn'[p].sl[s] = slots[s]
    BY <2>2, <2>3, SlotsLoaded
  <2>5. now \in Nat /\ now <= now
    BY DEF WorkInv, TablesOK
  <2>6. slots[s].status \in {"free", "blocked"}
    BY <1>3 DEF ToggleStart
  <2> QED
    BY <2>1, <2>2, <2>3, <2>4, <2>5, <2>6 DEF CallShape, ToggleShape, BookingOps, Same
<1>4. ASSUME SweepStart(p)
      PROVE  txn' = [txn EXCEPT ![p] = txn'[p]] /\ CallShape(txn'[p])
  <2> DEFINE c == Call("sweep", "pending", Null, Null, Null)
  <2>e. /\ Expired \in SUBSET SlotKey /\ \A s \in Expired : HoldExpired(slots[s], now)
        /\ Expired # {}
    BY <1>4 DEF Expired, SweepStart
  <2>1. txn' = [txn EXCEPT ![p] = LoadSlots(c, Expired)]
    BY <1>4 DEF SweepStart, Start
  <2>2. txn'[p] = LoadSlots(c, Expired)
    BY <1>0, <2>1
  <2>3. /\ c \in Calls /\ DOMAIN c.bk = {} /\ DOMAIN c.sl = {} /\ c.op = "sweep"
        /\ c.step = "pending" /\ c.t = now
    <3>1. "sweep" \in AllOps /\ "pending" \in Steps /\ Null \in BookingIds \cup {Null}
          /\ Null \in Users \cup {Null} /\ Null \in SlotKey \cup {Null}
      BY DEF AllOps, Steps
    <3> QED
      BY <3>1, CallMade
  <2> HIDE DEF c
  <2>4. /\ txn'[p] \in Calls /\ Same(c, txn'[p]) /\ txn'[p].step = c.step
        /\ txn'[p].bk = c.bk /\ DOMAIN txn'[p].sl = Expired \cup DOMAIN c.sl
        /\ \A s \in Expired : txn'[p].sl[s] = slots[s]
    <3> DEFINE S == Expired
    <3>1. S \in SUBSET SlotKey /\ txn'[p] = LoadSlots(c, S)
      BY <2>2, <2>e
    <3> HIDE DEF S
    <3>2. LET d == LoadSlots(c, S) IN
          /\ d \in Calls /\ Same(c, d) /\ d.step = c.step
          /\ d.bk = c.bk /\ DOMAIN d.sl = S \cup DOMAIN c.sl
          /\ \A s \in S : d.sl[s] = slots[s]
      BY <2>3, <3>1, SlotsLoaded
    <3> QED
      BY <3>1, <3>2 DEF S
  <2>5. now \in Nat /\ now <= now
    BY DEF WorkInv, TablesOK
  <2> QED
    BY <2>1, <2>2, <2>3, <2>4, <2>5, <2>e DEF CallShape, SweepShape, BookingOps, Same
<1>5. ASSUME NEW b \in BookingIds,
             ConfirmStart(p, b) \/ CancelStart(p, b) \/ ClientCancelStart(p, b)
      PROVE  txn' = [txn EXCEPT ![p] = txn'[p]] /\ CallShape(txn'[p])
  <2>1. bookings[b] \in GridVisit
    BY <1>5, RowOfLive DEF ConfirmStart, CancelStart, ClientCancelStart, MayCancel
  <2>2. PICK op \in {"confirm", "cancel", "client_cancel"} :
          Start(p, Call(op, "booking", bookings[b].user, b, Null))
    BY <1>5 DEF ConfirmStart, CancelStart, ClientCancelStart
  <2>3. op \in BookingOps /\ op # "reschedule"
    BY DEF BookingOps
  <2> QED
    BY <1>2, <2>1, <2>2, <2>3
<1>6. ASSUME NEW b \in BookingIds, NEW s \in SlotKey, RescheduleStart(p, b, s)
      PROVE  txn' = [txn EXCEPT ![p] = txn'[p]] /\ CallShape(txn'[p])
  <2>1. bookings[b] \in GridVisit /\ "reschedule" \in BookingOps
    BY <1>6, RowOfLive DEF RescheduleStart, BookingOps
  <2> QED
    BY <1>2, <1>6, <2>1 DEF RescheduleStart
<1> QED
  BY <1>1, <1>3, <1>4, <1>5, <1>6 DEF SessionStart

(* Where FOR UPDATE takes row locks: what a hold has read of its slot, and *)
(* what a call has read of the booking it is about, is still there; and no *)
(* booking leaves a slot that a hold has locked.                           *)
LockShape(c) ==
  setting.row_locks =>
    /\ c.op = "hold" /\ c.step # "slot" =>
         /\ c.s \in c.locks /\ c.sl[c.s] = slots[c.s]
         /\ \A x \in DOMAIN c.bk : bookings[x].slot = c.s
    /\ c.op \in BookingOps /\ c.step # "booking" =>
         c.b \in c.locks /\ c.bk[c.b] = bookings[c.b]

LEMMA IdleShape == WorkInv => CallShape(Idle) /\ LockShape(Idle)
<1>1. /\ NoRows \in Rows(SlotKey, GridSlot) /\ NoRows \in Rows(BookingIds, GridVisit)
      /\ DOMAIN NoRows = {}
  BY NoRowsTyped
<1> QED
  BY <1>1 DEF WorkInv, TablesOK, CallShape, Idle, Calls, BookingOps, Steps, LockShape

LEMMA BookingCalls ==
  ASSUME WorkInv, NEW p \in Sessions, txn[p].step \in {"booking", "old_slot", "day", "new_slot"}
  PROVE  BookingShape(txn[p]) /\ txn[p].op \in BookingOps
<1>1. CallShape(txn[p]) /\ txn[p].op \in AllOps \cup {"idle"}
  <2>1. CallShape(txn[p])
    BY DEF WorkInv, CallsOK
  <2>2. txn[p] \in Calls
    BY <2>1 DEF CallShape
  <2> QED
    BY <2>1, <2>2 DEF Calls
<1>2. txn[p].op # "idle"
  <2>1. txn[p].op = "idle" => txn[p] = Idle
    BY <1>1 DEF CallShape
  <2> QED
    BY <2>1 DEF Idle
<1>3. txn[p].op # "hold" /\ txn[p].op # "sweep" /\ txn[p].op # "toggle"
  BY <1>1 DEF CallShape, HoldShape, SweepShape, ToggleShape
<1>4. txn[p].op \in BookingOps
  BY <1>1, <1>2, <1>3 DEF AllOps, BookingOps
<1> QED
  BY <1>1, <1>4 DEF CallShape

(* What a call has after its next read.                                    *)
LEMMA ReadCall ==
  ASSUME WorkInv, NEW p \in Sessions, SessionStep(p), Reads
  PROVE  /\ txn' = [txn EXCEPT ![p] = txn'[p]] /\ CallShape(txn'[p])
         /\ LockShape(txn[p]) => LockShape(txn'[p])
<1> DEFINE c == txn[p]
           d == txn'[p]
<1>0. /\ txn \in [Sessions -> Calls] /\ c \in Calls /\ CallShape(c)
      /\ c.t \in Nat /\ c.t <= now
      /\ DOMAIN c.bk \subseteq BookingIds /\ \A x \in DOMAIN c.bk : bookings[x] \in GridVisit
  BY CallFields DEF WorkInv, CallsOK, CallShape
<1>s. /\ "stale" \in Steps /\ "old_slot" \in Steps /\ "day" \in Steps
      /\ "new_slot" \in Steps /\ "commit" \in Steps
  BY DEF Steps
<1>1. ASSUME End(p)
      PROVE  txn' = [txn EXCEPT ![p] = d] /\ CallShape(d) /\ LockShape(d)
  BY <1>0, <1>1, IdleShape DEF End
<1>2. ASSUME NEW new, NEW step, Continue(p, new, step)
      PROVE  txn' = [txn EXCEPT ![p] = d] /\ d = StepTo(new, step)
  BY <1>0, <1>2 DEF Continue, StepTo
<1>3. CASE HoldLoadSlot(p)
  <2>1. HoldShape(c) /\ c.op = "hold" /\ c.step = "slot"
    BY <1>0, <1>3 DEF HoldLoadSlot, At, CallShape
  <2>2. CASE Rollback(p)
    BY <1>1, <2>2 DEF Rollback
  <2>3. CASE /\ IsBookableSlot(slots[c.s], c.s, c.t)
             /\ Continue(p, Lock(LoadSlots(c, {c.s}), {c.s}), "stale")
    <3> DEFINE c1 == LoadSlots(c, {c.s})
               c2 == Lock(c1, {c.s})
    <3>1. /\ c.s \in SlotKey /\ {c.s} \in SUBSET SlotKey
          /\ \A x \in DOMAIN c.bk : IsPending(c.bk[x]) /\ c.bk[x].slot = c.s
      BY <2>1 DEF HoldShape
    <3>2. /\ c1 \in Calls /\ Same(c, c1) /\ c1.bk = c.bk /\ c1.locks = c.locks
          /\ DOMAIN c1.sl = {c.s} \cup DOMAIN c.sl /\ c1.sl[c.s] = slots[c.s]
      BY <1>0, <3>1, SlotsLoaded
    <3> HIDE DEF c1
    <3>3. /\ c2 \in Calls /\ Same(c1, c2) /\ c2.sl = c1.sl /\ c2.bk = c1.bk
          /\ c2.locks = IF setting.row_locks THEN c1.locks \cup {c.s} ELSE c1.locks
      BY <3>1, <3>2, LockMade
    <3>4. txn' = [txn EXCEPT ![p] = d] /\ d = StepTo(c2, "stale")
      BY <1>2, <2>3 DEF c1
    <3> HIDE DEF c2
    <3>5. /\ d \in Calls /\ Same(c2, d) /\ d.locks = c2.locks
          /\ d.step = "stale" /\ d.sl = c2.sl /\ d.bk = c2.bk
      <4>1. d = StepTo(c2, "stale") /\ c2 \in Calls /\ "stale" \in Steps
        BY <3>3, <3>4, <1>s
      <4> QED
        BY <4>1, StepMade
    <3>6. IsEffectivelyFree(slots[c.s], c.t)
      BY <2>3 DEF IsBookableSlot
    <3>7. HoldShape(d)
      BY <2>1, <3>1, <3>2, <3>3, <3>5, <3>6 DEF HoldShape, Same
    <3>8. LockShape(d)
      <4>1. DOMAIN d.bk = {}
        BY <2>1, <3>2, <3>3, <3>5 DEF HoldShape
      <4>2. setting.row_locks => d.s \in d.locks
        BY <3>2, <3>3, <3>5 DEF Same
      <4>3. d.sl[d.s] = slots[d.s] /\ d.op = "hold"
        BY <2>1, <3>2, <3>3, <3>5 DEF Same
      <4> QED
        BY <4>1, <4>2, <4>3 DEF LockShape, BookingOps
    <3> QED
      BY <1>0, <2>1, <3>1, <3>2, <3>3, <3>4, <3>5, <3>7, <3>8 DEF CallShape, Same, BookingOps
  <2> QED
    BY <1>3, <2>2, <2>3 DEF HoldLoadSlot
<1>4. CASE HoldLoadStale(p)
  <2> DEFINE B == PendingOn({c.s})
             c1 == LoadBookings(c, B)
  <2>1. HoldShape(c) /\ c.op = "hold" /\ c.step = "stale"
    BY <1>0, <1>4 DEF HoldLoadStale, At, CallShape
  <2>2. /\ B \in SUBSET BookingIds /\ \A b \in B : bookings[b] \in GridVisit
        /\ \A b \in B : IsPending(bookings[b]) /\ bookings[b].slot = c.s
    BY RowOfLive DEF PendingOn
  <2>3. /\ c1 \in Calls /\ Same(c, c1) /\ c1.sl = c.sl /\ c1.locks = c.locks
        /\ DOMAIN c1.bk = B \cup DOMAIN c.bk /\ \A b \in B : c1.bk[b] = bookings[b]
        /\ \A b \in DOMAIN c.bk : b \notin B => c1.bk[b] = c.bk[b]
    BY <1>0, <2>2, BookingsLoaded
  <2>4. Continue(p, c1, "commit")
    BY <1>4 DEF HoldLoadStale
  <2> HIDE DEF c1, B
  <2>5. txn' = [txn EXCEPT ![p] = d] /\ d = StepTo(c1, "commit")
    BY <1>2, <2>4
  <2>6. /\ d \in Calls /\ Same(c1, d) /\ d.locks = c1.locks
        /\ d.step = "commit" /\ d.sl = c1.sl /\ d.bk = c1.bk
    <3>1. d = StepTo(c1, "commit") /\ c1 \in Calls /\ "commit" \in Steps
      BY <2>3, <2>5, <1>s
    <3> QED
      BY <3>1, StepMade
  <2>7. ASSUME NEW x \in DOMAIN d.bk
        PROVE  IsPending(d.bk[x]) /\ d.bk[x].slot = c.s /\ bookings[x] \in GridVisit
    BY <1>0, <2>1, <2>2, <2>3, <2>6, <2>7 DEF HoldShape
  <2>8. HoldShape(d)
    BY <2>1, <2>3, <2>6, <2>7 DEF HoldShape, Same
  <2>9. LockShape(c) => LockShape(d)
    BY <2>1, <2>2, <2>3, <2>6 DEF LockShape, Same, BookingOps
  <2> QED
    BY <1>0, <2>1, <2>3, <2>5, <2>6, <2>7, <2>8, <2>9 DEF CallShape, Same, BookingOps
<1>5. CASE LoadBooking(p)
  <2>1. BookingShape(c) /\ c.op \in BookingOps /\ c.step = "booking"
    BY <1>5, BookingCalls DEF LoadBooking
  <2>2. CASE Rollback(p)
    BY <1>1, <2>2 DEF Rollback
  <2>3. CASE /\ \/ c.op = "confirm" /\ IsPending(bookings[c.b])
                \/ c.op = "reschedule" /\ IsLive(bookings[c.b])
                \/ /\ c.op \in {"cancel", "client_cancel"}
                   /\ bookings[c.b].status # "cancelled"
             /\ Continue(p, Lock(LoadBookings(c, {c.b}), {c.b}), "old_slot")
    <3> DEFINE c1 == LoadBookings(c, {c.b})
               c2 == Lock(c1, {c.b})
    <3>1. /\ c.b \in BookingIds /\ bookings[c.b] \in GridVisit /\ DOMAIN c.bk = {}
          /\ {c.b} \in SUBSET BookingIds /\ \A b \in {c.b} : bookings[b] \in GridVisit
      BY <2>1 DEF BookingShape
    <3>2. /\ c1 \in Calls /\ Same(c, c1) /\ c1.sl = c.sl /\ c1.locks = c.locks
          /\ DOMAIN c1.bk = {c.b} \cup DOMAIN c.bk /\ c1.bk[c.b] = bookings[c.b]
      BY <1>0, <3>1, BookingsLoaded
    <3> HIDE DEF c1
    <3>3. /\ c2 \in Calls /\ Same(c1, c2) /\ c2.sl = c1.sl /\ c2.bk = c1.bk
          /\ c2.locks = IF setting.row_locks THEN c1.locks \cup {c.b} ELSE c1.locks
      BY <3>1, <3>2, LockMade
    <3>4. txn' = [txn EXCEPT ![p] = d] /\ d = StepTo(c2, "old_slot")
      BY <1>2, <2>3 DEF c1
    <3> HIDE DEF c2
    <3>5. /\ d \in Calls /\ Same(c2, d) /\ d.locks = c2.locks
          /\ d.step = "old_slot" /\ d.sl = c2.sl /\ d.bk = c2.bk
      <4>1. d = StepTo(c2, "old_slot") /\ c2 \in Calls /\ "old_slot" \in Steps
        BY <3>3, <3>4, <1>s
      <4> QED
        BY <4>1, StepMade
    <3>6. IsLive(bookings[c.b]) /\ (c.op = "confirm" => IsPending(bookings[c.b]))
      <4>1. bookings[c.b].status # "completed"
        BY <3>1 DEF WorkInv, TablesOK
      <4> QED
        BY <2>3, <3>1, <4>1, LiveFacts DEF GridVisit, BookingStatus
    <3>7. BookingShape(d)
      BY <2>1, <3>1, <3>2, <3>3, <3>5, <3>6 DEF BookingShape, Same
    <3> QED
      <4>1. \A x \in DOMAIN d.bk : bookings[x] \in GridVisit
        BY <3>1, <3>2, <3>3, <3>5
      <4>2. d.t <= now /\ d.op = c.op
        BY <1>0, <3>2, <3>3, <3>5 DEF Same
      <4>3. LockShape(d)
        BY <2>1, <3>2, <3>3, <3>5 DEF LockShape, Same, BookingOps
      <4> QED
        BY <2>1, <3>4, <3>5, <3>7, <4>1, <4>2, <4>3 DEF CallShape, BookingOps
  <2> QED
    BY <1>5, <2>2, <2>3 DEF LoadBooking
<1>6. CASE LoadOldSlot(p)
  <2> DEFINE old == c.bk[c.b].slot
             c1 == LoadSlots(c, {old})
  <2>1. BookingShape(c) /\ c.op \in BookingOps /\ c.step = "old_slot"
    BY <1>6, BookingCalls DEF LoadOldSlot
  <2>2. old \in SlotKey
    BY <2>1, LoadedSlot
  <2>3. /\ c1 \in Calls /\ Same(c, c1) /\ c1.bk = c.bk /\ c1.locks = c.locks
        /\ DOMAIN c1.sl = {old} \cup DOMAIN c.sl
    BY <1>0, <2>2, SlotsLoaded
  <2>4. PICK step \in {"day", "commit"} :
          /\ step = (IF c.op = "reschedule" THEN "day" ELSE "commit")
          /\ Continue(p, c1, step)
    BY <1>6 DEF LoadOldSlot
  <2> HIDE DEF c1
  <2>5. txn' = [txn EXCEPT ![p] = d] /\ d = StepTo(c1, step)
    BY <1>2, <2>4
  <2>6. /\ d \in Calls /\ Same(c1, d) /\ d.locks = c1.locks
        /\ d.step = step /\ d.sl = c1.sl /\ d.bk = c1.bk
    <3>1. d = StepTo(c1, step) /\ c1 \in Calls /\ step \in Steps
      BY <2>3, <2>5, <1>s
    <3> QED
      BY <3>1, StepMade
  <2>7. BookingShape(d)
    BY <2>1, <2>3, <2>4, <2>6 DEF BookingShape, Same
  <2>8. LockShape(c) => LockShape(d)
    BY <2>1, <2>3, <2>6 DEF LockShape, Same, BookingOps
  <2> QED
    BY <1>0, <2>1, <2>3, <2>5, <2>6, <2>7, <2>8 DEF CallShape, Same, BookingOps
<1>11. CASE RescheduleLoadDay(p)
  <2> DEFINE old == c.bk[c.b].slot
             S == {s \in {c.s} : s[1] = old[1] /\ s # old}
             c1 == LoadSlots(c, S)
  <2>1. BookingShape(c) /\ c.op = "reschedule" /\ c.step = "day"
    BY <1>11, BookingCalls DEF RescheduleLoadDay, At
  <2>2. c.s \in SlotKey /\ DOMAIN c.sl = {old} /\ S \in SUBSET {c.s} /\ S \in SUBSET SlotKey
    BY <2>1 DEF BookingShape
  <2>3. Continue(p, c1, "new_slot")
    BY <1>11 DEF RescheduleLoadDay
  <2> HIDE DEF S
  <2>4. /\ c1 \in Calls /\ Same(c, c1) /\ c1.bk = c.bk /\ c1.locks = c.locks
        /\ DOMAIN c1.sl = S \cup DOMAIN c.sl
    BY <1>0, <2>2, SlotsLoaded
  <2> HIDE DEF c1
  <2>5. txn' = [txn EXCEPT ![p] = d] /\ d = StepTo(c1, "new_slot")
    BY <1>2, <2>3
  <2>6. /\ d \in Calls /\ Same(c1, d) /\ d.locks = c1.locks
        /\ d.step = "new_slot" /\ d.sl = c1.sl /\ d.bk = c1.bk
    BY <1>s, <2>4, <2>5, StepMade
  <2>7. DOMAIN d.sl \in {{old}, {old, c.s}}
    <3>1. S = {} \/ S = {c.s}
      BY <2>2
    <3>2. DOMAIN d.sl = S \cup {old}
      BY <2>2, <2>4, <2>6
    <3> HIDE DEF old
    <3> QED
      BY <3>1, <3>2
  <2>8. BookingShape(d)
    BY <2>1, <2>4, <2>6, <2>7 DEF BookingShape, Same
  <2>9. LockShape(c) => LockShape(d)
    BY <2>1, <2>4, <2>6 DEF LockShape, Same, BookingOps
  <2> QED
    BY <1>0, <2>1, <2>4, <2>5, <2>6, <2>8, <2>9 DEF CallShape, Same, BookingOps
<1>7. CASE RescheduleLoadSlot(p)
  <2>1. BookingShape(c) /\ c.op = "reschedule" /\ c.step = "new_slot"
    BY <1>7, BookingCalls DEF RescheduleLoadSlot, At
  <2>2. CASE Rollback(p)
    BY <1>1, <2>2 DEF Rollback
  <2>3. CASE LET c1 == LoadSlots(c, {c.s} \ DOMAIN c.sl) IN
             /\ IsEffectivelyFree(c1.sl[c.s], c.t) \/ c.s = c.bk[c.b].slot
             /\ Continue(p, Lock(c1, {c.s}), "commit")
    <3> DEFINE S == {c.s} \ DOMAIN c.sl
               c1 == LoadSlots(c, S)
               c2 == Lock(c1, {c.s})
    <3>1. /\ c.s \in SlotKey
          /\ DOMAIN c.sl \in {{c.bk[c.b].slot}, {c.bk[c.b].slot, c.s}}
      BY <2>1 DEF BookingShape
    <3>2. /\ c1 \in Calls /\ Same(c, c1) /\ c1.bk = c.bk /\ c1.locks = c.locks
          /\ DOMAIN c1.sl = S \cup DOMAIN c.sl /\ \A s \in S : c1.sl[s] = slots[s]
      <4>1. S \in SUBSET SlotKey
        BY <3>1
      <4> QED
        BY <1>0, <4>1, SlotsLoaded
    <3>r. IsEffectivelyFree(c1.sl[c.s], c.t) \/ c.s = c.bk[c.b].slot
      BY <2>3
    <3> HIDE DEF c1
    <3>3. /\ c2 \in Calls /\ Same(c1, c2) /\ c2.sl = c1.sl /\ c2.bk = c1.bk
          /\ c2.locks = IF setting.row_locks THEN c1.locks \cup {c.s} ELSE c1.locks
      BY <3>1, <3>2, LockMade
    <3>4. txn' = [txn EXCEPT ![p] = d] /\ d = StepTo(c2, "commit")
      BY <1>2, <2>3 DEF c1
    <3> HIDE DEF c2
    <3>5. /\ d \in Calls /\ Same(c2, d) /\ d.locks = c2.locks
          /\ d.step = "commit" /\ d.sl = c2.sl /\ d.bk = c2.bk
      <4>1. d = StepTo(c2, "commit") /\ c2 \in Calls /\ "commit" \in Steps
        BY <3>3, <3>4, <1>s
      <4> QED
        BY <4>1, StepMade
    <3>6. /\ DOMAIN d.sl = {d.bk[d.b].slot, d.s}
          /\ d.s = d.bk[d.b].slot \/ IsEffectivelyFree(d.sl[d.s], d.t)
      BY <3>r, <3>1, <3>2, <3>3, <3>5 DEF Same
    <3>7. BookingShape(d)
      BY <2>1, <3>1, <3>2, <3>3, <3>5, <3>6 DEF BookingShape, Same
    <3>8. LockShape(c) => LockShape(d)
      BY <2>1, <3>2, <3>3, <3>5 DEF LockShape, Same, BookingOps
    <3> QED
      BY <1>0, <2>1, <3>1, <3>2, <3>3, <3>4, <3>5, <3>7, <3>8 DEF CallShape, Same, BookingOps
  <2> QED
    BY <1>7, <2>2, <2>3 DEF RescheduleLoadSlot
<1>8. CASE SweepLoadPending(p)
  <2> DEFINE B == PendingOn(DOMAIN c.sl)
             c1 == LoadBookings(c, B)
  <2>1. SweepShape(c) /\ c.op = "sweep" /\ c.step = "pending"
    BY <1>0, <1>8 DEF SweepLoadPending, At, CallShape
  <2>2. /\ B \in SUBSET BookingIds /\ \A b \in B : bookings[b] \in GridVisit
        /\ \A b \in B : IsPending(bookings[b]) /\ bookings[b].slot \in DOMAIN c.sl
    BY RowOfLive DEF PendingOn
  <2>3. /\ c1 \in Calls /\ Same(c, c1) /\ c1.sl = c.sl /\ c1.locks = c.locks
        /\ DOMAIN c1.bk = B \cup DOMAIN c.bk /\ \A b \in B : c1.bk[b] = bookings[b]
        /\ \A b \in DOMAIN c.bk : b \notin B => c1.bk[b] = c.bk[b]
    BY <1>0, <2>2, BookingsLoaded
  <2>4. Continue(p, c1, "commit")
    BY <1>8 DEF SweepLoadPending
  <2> HIDE DEF c1, B
  <2>5. txn' = [txn EXCEPT ![p] = d] /\ d = StepTo(c1, "commit")
    BY <1>2, <2>4
  <2>6. /\ d \in Calls /\ Same(c1, d) /\ d.locks = c1.locks
        /\ d.step = "commit" /\ d.sl = c1.sl /\ d.bk = c1.bk
    <3>1. d = StepTo(c1, "commit") /\ c1 \in Calls /\ "commit" \in Steps
      BY <2>3, <2>5, <1>s
    <3> QED
      BY <3>1, StepMade
  <2>7. ASSUME NEW x \in DOMAIN d.bk
        PROVE  /\ IsPending(d.bk[x]) /\ d.bk[x].slot \in DOMAIN c.sl
               /\ bookings[x] \in GridVisit
    BY <1>0, <2>1, <2>2, <2>3, <2>6, <2>7 DEF SweepShape
  <2>8. SweepShape(d)
    BY <2>1, <2>3, <2>6, <2>7 DEF SweepShape, Same
  <2>9. LockShape(d)
    BY <2>1, <2>3, <2>6 DEF LockShape, Same, BookingOps
  <2> QED
    BY <1>0, <2>1, <2>3, <2>5, <2>6, <2>7, <2>8, <2>9 DEF CallShape, Same, BookingOps
<1>9. CASE Abandon(p) \/ Writes(p)
  BY <1>1, <1>9 DEF Abandon, Rollback, Writes, HoldCommit, ConfirmCommit, ConfirmTooLate,
     CancelCommit, FreeAndCancel, RescheduleCommit, ToggleCommit, SweepCommit, Commit
<1>10. CASE ConfirmCommit(p)
  BY <1>1, <1>10 DEF ConfirmCommit, Rollback, Commit
<1> QED
  BY <1>3, <1>4, <1>5, <1>6, <1>7, <1>8, <1>9, <1>10, <1>11 DEF SessionStep, Writes

-----------------------------------------------------------------------------
(***************************************************************************)
(* What a call holds in its hands stays what it was, whatever the others   *)
(* do: rows never disappear, and a booking stays its client's.             *)
(***************************************************************************)
LEMMA RowsStay ==
  ASSUME WorkInv, [Next]_vars, NEW b \in BookingIds, bookings[b] \in GridVisit
  PROVE  bookings'[b] \in GridVisit /\ bookings'[b].user = bookings[b].user
<1>1. bookings[b] # AbsentBooking /\ Fate(b)
  BY AbsentIsNoRow, Fates
<1> QED
  BY <1>1 DEF Fate, Made, Lives

LEMMA ClockStays ==
  ASSUME WorkInv, [Next]_vars
  PROVE  now \in Nat /\ now' \in Nat /\ now <= now'
<1>1. now \in Nat /\ now' \in {now, now + 1}
  <2>1. CASE UNCHANGED vars
    BY <2>1 DEF vars, world, WorkInv, TablesOK
  <2>2. CASE Tick
    BY <2>2 DEF Tick, WorkInv, TablesOK
  <2>3. ASSUME NEW p \in Sessions, SessionStart(p) \/ SessionStep(p)
        PROVE  now \in Nat /\ now' = now
    BY <2>3, ReadsOrWrites DEF Reads, world, WorkInv, TablesOK
  <2> QED
    BY <2>1, <2>2, <2>3, StepCases
<1> QED
  BY <1>1

LEMMA OtherCall ==
  ASSUME WorkInv, [Next]_vars, NEW q \in Sessions, txn'[q] = txn[q]
  PROVE  CallShape(txn[q])'
<1>1. CallShape(txn[q])
  BY DEF WorkInv, CallsOK
<1>2. txn[q] \in Calls /\ txn[q].t <= now /\ now \in Nat /\ now' \in Nat /\ now <= now'
  BY <1>1, ClockStays DEF CallShape
<1>3. txn[q].t \in Nat /\ txn[q].t <= now'
  <2>1. txn[q].t \in Nat
    BY <1>2 DEF Calls
  <2> QED
    BY <1>2, <2>1
<1>4. \A x \in DOMAIN txn[q].bk : bookings'[x] \in GridVisit
  BY CallFields, RowsStay
<1>5. HoldShape(txn[q]) => HoldShape(txn[q])'
  BY DEF HoldShape
<1>6. ToggleShape(txn[q]) => ToggleShape(txn[q])'
  BY DEF ToggleShape
<1>7. SweepShape(txn[q]) => SweepShape(txn[q])'
  BY DEF SweepShape
<1>8. ASSUME BookingShape(txn[q])
      PROVE  BookingShape(txn[q])'
  <2>1. txn[q].b \in BookingIds /\ bookings[txn[q].b] \in GridVisit
    BY <1>8 DEF BookingShape
  <2>2. bookings'[txn[q].b] \in GridVisit /\ bookings'[txn[q].b].user = bookings[txn[q].b].user
    BY <2>1, RowsStay
  <2> QED
    BY <1>8, <2>1, <2>2 DEF BookingShape
<1>9. Calls' = Calls /\ Idle' = Idle
  BY DEF Calls, Idle
<1> QED
  BY <1>1, <1>2, <1>3, <1>4, <1>5, <1>6, <1>7, <1>8, <1>9 DEF CallShape

LEMMA CallsStep ==
  ASSUME WorkInv, [Next]_vars
  PROVE  CallsOK'
<1>0. txn \in [Sessions -> Calls]
  BY DEF WorkInv, CallsOK
<1>1. CASE txn' = txn
  BY <1>0, <1>1, OtherCall DEF CallsOK
<1>2. ASSUME NEW p \in Sessions, SessionStart(p) \/ SessionStep(p)
      PROVE  CallsOK'
  <2>1. txn' = [txn EXCEPT ![p] = txn'[p]] /\ CallShape(txn[p])'
    <3>1. CASE Reads
      <4>1. txn' = [txn EXCEPT ![p] = txn'[p]] /\ CallShape(txn'[p])
        BY <1>2, <3>1, NewCall, ReadCall
      <4>2. bookings' = bookings /\ now' = now
        BY <3>1 DEF Reads, world, tables
      <4> QED
        BY <4>1, <4>2 DEF CallShape, HoldShape, BookingShape, ToggleShape, SweepShape
    <3>2. CASE Writes(p)
      <4>1. txn' = [txn EXCEPT ![p] = Idle]
        BY <3>2 DEF Writes, HoldCommit, ConfirmCommit, ConfirmTooLate, CancelCommit,
           FreeAndCancel, RescheduleCommit, ToggleCommit, SweepCommit, Commit, End, Rollback
      <4>2. txn'[p] = Idle
        BY <1>0, <4>1
      <4>3. DOMAIN NoRows = {} /\ Idle \in Calls
        BY IdleShape, NoRowsTyped DEF CallShape
      <4>4. now' \in Nat
        BY ClockStays
      <4>5. /\ Idle.op = "idle" /\ Idle.t = 0 /\ Idle.bk = NoRows /\ "idle" \notin BookingOps
        BY DEF Idle, BookingOps
      <4>6. CallShape(txn[p])'
        BY <4>2, <4>3, <4>4, <4>5 DEF CallShape
      <4> QED
        BY <4>1, <4>2, <4>6
    <3> QED
      BY <1>2, <3>1, <3>2, ReadsOrWrites
  <2>2. \A q \in Sessions \ {p} : txn'[q] = txn[q]
    BY <1>0, <2>1
  <2>3. \A q \in Sessions : CallShape(txn[q])'
    BY <2>1, <2>2, OtherCall
  <2>4. \A q \in Sessions : txn'[q] \in Calls
    BY <2>3 DEF CallShape
  <2>5. txn' \in [Sessions -> Calls]
    BY <1>0, <2>1, <2>4
  <2> QED
    BY <2>3, <2>5 DEF CallsOK
<1> QED
  BY <1>1, <1>2, StepCases DEF vars, Tick

LEMMA WorkInit == Init => WorkInv
<1> SUFFICES ASSUME Init PROVE WorkInv
  OBVIOUS
<1>1. TablesOK
  BY SlotValues, RacesAssumption DEF Init, TablesOK, AbsentBooking
<1>2. NoRows \in Rows(SlotKey, GridSlot) /\ NoRows \in Rows(BookingIds, GridVisit)
      /\ DOMAIN NoRows = {}
  BY NoRowsTyped
<1>3. Idle \in Calls /\ Idle.op = "idle" /\ Idle.t = 0 /\ Idle.bk = NoRows
      /\ "idle" \notin BookingOps
  BY <1>2 DEF Idle, Calls, BookingOps, Steps
<1>4. \A p \in Sessions : CallShape(txn[p])
  BY <1>2, <1>3 DEF Init, CallShape
<1>5. txn \in [Sessions -> Calls]
  BY <1>3 DEF Init
<1> QED
  BY <1>1, <1>4, <1>5 DEF WorkInv, CallsOK

LEMMA WorkHolds == Spec => []WorkInv
<1>1. WorkInv /\ [Next]_vars => WorkInv'
  BY TablesStep, CallsStep DEF WorkInv
<1> QED
  BY WorkInit, <1>1, PTL DEF Spec

(* Every reachable state is well typed: the tables hold rows, and a call   *)
(* in flight has arguments, a clock and loaded rows of the right kind.     *)
THEOREM TypeCorrect == Spec => []TypeOK
<1>1. WorkInv => TypeOK
  <2> SUFFICES ASSUME WorkInv PROVE TypeOK
    OBVIOUS
  <2>1. ASSUME NEW p \in Sessions
        PROVE  IsCall(txn[p])
    <3>1. txn[p] \in Calls /\ txn[p].t <= now /\ now \in Nat
      BY CallFields DEF CallShape, WorkInv, TablesOK
    <3>2. DOMAIN txn[p] = DOMAIN Idle
      BY <3>1 DEF Calls, Idle
    <3>3. /\ txn[p].op \in AllOps \cup {"idle"} /\ txn[p].step \in Steps
          /\ txn[p].u \in Users \cup {Null} /\ txn[p].b \in BookingIds \cup {Null}
          /\ txn[p].s \in SlotKey \cup {Null} /\ txn[p].t \in Nat
          /\ txn[p].locks \subseteq SlotKey \cup BookingIds
      BY <3>1 DEF Calls
    <3>4. /\ \A s \in DOMAIN txn[p].sl : txn[p].sl[s] \in SlotRow
          /\ \A b \in DOMAIN txn[p].bk : txn[p].bk[b] \in BookingRow
      BY CallFields, GridRows
    <3> QED
      BY <3>1, <3>2, <3>3, <3>4, CallFields DEF IsCall
  <2>2. DOMAIN txn = Sessions
    BY DEF WorkInv, CallsOK
  <2>3. /\ slots \in [SlotKey -> SlotRow]
        /\ bookings \in [BookingIds -> BookingRow \cup {AbsentBooking}]
    BY GridRows DEF WorkInv, TablesOK
  <2> QED
    BY <2>1, <2>2, <2>3, RacesAssumption DEF WorkInv, TablesOK, TypeOK
<1> QED
  BY WorkHolds, <1>1, PTL

-----------------------------------------------------------------------------
(***************************************************************************)
(* What the unique indexes, the conditional UPDATE and the status column   *)
(* keep in every interleaving.                                             *)
(***************************************************************************)

(* Where both indexes stand, two live bookings never share a slot or a     *)
(* client: every commit is checked against them.                           *)
OneLiveBooking == LiveSlotsApart(bookings) /\ LiveUsersApart(bookings)

LEMMA OneLiveBookingHolds ==
  ASSUME IndexesBuilt
  PROVE  Spec => []OneLiveBooking
<1>1. Init => OneLiveBooking
  BY DEF Init, OneLiveBooking, LiveSlotsApart, LiveUsersApart, IsLive, LIVE_BOOKING_STATUSES,
     AbsentBooking
<1>2. ASSUME OneLiveBooking, [Next]_vars
      PROVE  OneLiveBooking'
  <2>1. CASE bookings' = bookings
    BY <1>2, <2>1 DEF OneLiveBooking, LiveSlotsApart, LiveUsersApart
  <2>2. ASSUME NEW p \in Sessions, Writes(p)
        PROVE  OneLiveBooking'
    <3>1. PICK bk : UniqueLiveIndexes(bk) /\ bookings' = bk
      BY <2>2 DEF Writes, HoldCommit, ConfirmCommit, ConfirmTooLate, CancelCommit,
         FreeAndCancel, RescheduleCommit, ToggleCommit, SweepCommit, Commit
    <3> QED
      BY <3>1 DEF OneLiveBooking, UniqueLiveIndexes, LiveSlotsApart, LiveUsersApart,
         IndexesBuilt
  <2> QED
    BY <1>2, <2>1, <2>2, StepCases, ReadsOrWrites DEF vars, tables, Tick, Reads
<1> QED
  BY <1>1, <1>2, PTL DEF Spec

(* The receipt that won left the booking paid, and no step makes a paid or *)
(* a cancelled booking pending again.                                      *)
ReceiptInv ==
  \A b \in BookingIds :
    /\ accepted[b] <= 1
    /\ accepted[b] = 1 => bookings[b] \in GridVisit /\ ~IsPending(bookings[b])

(* "Two receipts sent back to back must not both win".                     *)
THEOREM ReceiptWinsOnceHolds == Spec => []ReceiptWinsOnce
<1>1. Init => ReceiptInv
  BY DEF Init, ReceiptInv
<1>2. ASSUME WorkInv, ReceiptInv, [Next]_vars
      PROVE  ReceiptInv'
  <2>1. ASSUME NEW b \in BookingIds
        PROVE  /\ accepted'[b] <= 1
               /\ accepted'[b] = 1 => bookings'[b] \in GridVisit /\ ~IsPending(bookings'[b])
    <3>1. Fate(b) /\ accepted[b] \in Nat
      BY <1>2, Fates DEF WorkInv, TablesOK
    <3>2. /\ accepted[b] <= 1
          /\ accepted[b] = 1 => bookings[b] \in GridVisit /\ ~IsPending(bookings[b])
      BY <1>2 DEF ReceiptInv
    <3>3. CASE Paid(b)
      <4>1. accepted[b] # 1 /\ accepted'[b] = accepted[b] + 1 /\ bookings'[b].status = "active"
        BY <3>2, <3>3 DEF Paid
      <4>2. bookings[b] # AbsentBooking /\ bookings'[b] # bookings[b]
        BY <3>3, <4>1 DEF Paid, IsPending, AbsentBooking
      <4>3. Lives(b)
        BY <3>1, <4>2 DEF Fate, Made
      <4> QED
        BY <3>1, <3>2, <4>1, <4>3 DEF Lives, IsPending
    <3>4. CASE accepted'[b] = accepted[b]
      <4> SUFFICES ASSUME accepted[b] = 1
                   PROVE  bookings'[b] \in GridVisit /\ ~IsPending(bookings'[b])
        BY <3>2, <3>4
      <4>1. bookings[b] \in GridVisit /\ ~IsPending(bookings[b]) /\ bookings[b] # AbsentBooking
        BY <3>2, AbsentIsNoRow
      <4> QED
        BY <3>1, <4>1 DEF Fate, Made, Lives, IsPending
    <3> QED
      BY <3>1, <3>3, <3>4 DEF Fate
  <2> QED
    BY <2>1 DEF ReceiptInv
<1>3. ReceiptInv => ReceiptWinsOnce
  BY DEF ReceiptInv, ReceiptWinsOnce
<1> QED
  BY WorkHolds, <1>1, <1>2, <1>3, PTL DEF Spec

(* A cancelled booking never comes back to life.                           *)
THEOREM NoResurrectionHolds == Spec => NoResurrection
<1>1. ASSUME WorkInv, [Next]_vars
      PROVE  \A b \in BookingIds :
               bookings[b].status = "cancelled" => bookings'[b].status = "cancelled"
  <2> SUFFICES ASSUME NEW b \in BookingIds, bookings[b].status = "cancelled"
               PROVE  bookings'[b].status = "cancelled"
    OBVIOUS
  <2>1. Fate(b) /\ bookings[b] # AbsentBooking /\ ~IsPending(bookings[b])
    BY <1>1, Fates DEF AbsentBooking, IsPending
  <2> QED
    BY <2>1 DEF Fate, Made, Lives
<1> QED
  BY WorkHolds, <1>1, PTL DEF Spec, NoResurrection

-----------------------------------------------------------------------------
(***************************************************************************)
(* Calls whose readings are still true.                                    *)
(***************************************************************************)
LEMMA StandsFacts ==
  ASSUME WorkInv, NEW b \in BookingIds, Stands(b)
  PROVE  /\ bookings[b] \in GridVisit /\ bookings[b].slot \in SlotKey
         /\ IsLive(bookings[b])
         /\ slots[bookings[b].slot].status \in {"held", "booked"}
         /\ slots[bookings[b].slot].status = "held" =>
               slots[bookings[b].slot].held_until >= now
<1>1. IsLive(bookings[b]) /\ Occupies(bookings[b], slots[bookings[b].slot])
  BY DEF Stands
<1>2. slots[bookings[b].slot].status = "held" => IsPending(bookings[b])
  BY <1>1 DEF Occupies
<1> QED
  BY <1>1, <1>2, RowOfLive DEF Stands, Occupies

(* A standing visit is on no slot that reads as free or as lapsed.         *)
LEMMA StandsOnItsOwn ==
  ASSUME WorkInv, NEW b \in BookingIds, Stands(b), NEW t \in Nat, t <= now
  PROVE  /\ ~IsEffectivelyFree(slots[bookings[b].slot], t)
         /\ ~HoldExpired(slots[bookings[b].slot], t)
<1>1. /\ slots[bookings[b].slot] \in GridSlot /\ now \in Nat
      /\ slots[bookings[b].slot].status \in {"held", "booked"}
      /\ slots[bookings[b].slot].status = "held" => slots[bookings[b].slot].held_until >= now
  BY StandsFacts DEF WorkInv, TablesOK
<1>2. slots[bookings[b].slot].held_until \in Nat \cup {NoTime}
  BY <1>1 DEF GridSlot
<1> QED
  BY <1>1, <1>2 DEF IsEffectivelyFree, HoldExpired, NoTime

(* The rows that a commit writes are the rows the call has loaded, and the *)
(* booking it is about or makes.                                           *)
LEMMA WrittenRows ==
  ASSUME WorkInv, NEW p \in Sessions, Writes(p)
  PROVE  /\ \A s \in SlotKey : s \notin DOMAIN txn[p].sl => slots'[s] = slots[s]
         /\ \A b \in BookingIds :
              b \notin DOMAIN txn[p].bk /\ b # txn[p].b /\ bookings[b] # AbsentBooking
                => bookings'[b] = bookings[b]
<1>1. ASSUME NEW s \in SlotKey, s \notin DOMAIN txn[p].sl
      PROVE  slots'[s] = slots[s]
  <2>1. PICK new \in Rows(SlotKey, GridSlot) :
          DOMAIN new = DOMAIN txn[p].sl /\ slots' = Flush(slots, txn[p].sl, new)
    BY SlotWrites
  <2>2. DOMAIN slots = SlotKey
    BY DEF WorkInv, TablesOK
  <2> QED
    BY <1>1, <2>1, <2>2 DEF Flush
<1>2. ASSUME NEW b \in BookingIds, b \notin DOMAIN txn[p].bk, b # txn[p].b,
             bookings[b] # AbsentBooking
      PROVE  bookings'[b] = bookings[b]
  <2>1. ASSUME NEW n \in BookingIds, HoldCommit(p, n)
        PROVE  bookings'[b] = bookings[b]
    <3>1. bookings' = [x \in BookingIds |->
              IF x = n THEN PendingBooking(txn[p].u, txn[p].s, DefaultStep)
              ELSE IF x \in DOMAIN txn[p].bk THEN [bookings[x] EXCEPT !.status = "cancelled"]
              ELSE bookings[x]]
      BY <2>1, HoldCommitWrites
    <3>2. b # n
      BY <1>2, <2>1 DEF HoldCommit
    <3> QED
      BY <1>2, <3>1, <3>2
  <2>2. CASE ConfirmCommit(p) /\ StillPending(txn[p].b)
    BY <1>2, <2>2, ConfirmWrites DEF WorkInv, TablesOK
  <2>3. CASE ConfirmTooLate(p) \/ CancelCommit(p)
    BY <1>2, <2>3, FreeAndCancelWrites DEF WorkInv, TablesOK
  <2>4. CASE RescheduleCommit(p)
    BY <1>2, <2>4, RescheduleWrites
  <2>5. CASE ToggleCommit(p)
    BY <2>5, ToggleWrites
  <2>6. CASE SweepCommit(p)
    <3>1. bookings' = [x \in BookingIds |->
              IF x \in DOMAIN txn[p].bk THEN [bookings[x] EXCEPT !.status = "cancelled"]
              ELSE bookings[x]]
      BY <2>6, SweepWrites
    <3> QED
      BY <1>2, <3>1
  <2> QED
    BY <2>1, <2>2, <2>3, <2>4, <2>5, <2>6 DEF Writes
<1> QED
  BY <1>1, <1>2

(* A call that writes has reached its commit.                              *)
LEMMA CommitShape ==
  ASSUME WorkInv, NEW p \in Sessions, Writes(p)
  PROVE  /\ txn[p].step = "commit"
         /\ \/ txn[p].op = "hold" /\ HoldShape(txn[p])
            \/ txn[p].op \in BookingOps /\ BookingShape(txn[p])
            \/ txn[p].op = "toggle" /\ ToggleShape(txn[p])
            \/ txn[p].op = "sweep" /\ SweepShape(txn[p])
<1>1. /\ txn[p].step = "commit"
      /\ txn[p].op \in {"hold", "toggle", "sweep"} \cup BookingOps
  BY DEF Writes, HoldCommit, ConfirmCommit, ConfirmTooLate, CancelCommit,
     RescheduleCommit, ToggleCommit, SweepCommit, At, BookingOps
<1> QED
  BY <1>1, CallFields DEF CallShape

(* None of them touches a visit that stands, if what was read is true.     *)
LEMMA TrueReadingsSpare ==
  ASSUME WorkInv, OneLiveBooking, NEW p \in Sessions, Writes(p), ~Outdated(p),
         NEW b \in BookingIds, b # txn[p].b, Stands(b)
  PROVE  bookings[b].slot \notin DOMAIN txn[p].sl /\ b \notin DOMAIN txn[p].bk
<1> DEFINE c == txn[p]
           s == bookings[b].slot
<1>1. /\ \A x \in DOMAIN c.sl : c.sl[x] = slots[x]
      /\ \A x \in DOMAIN c.bk : c.bk[x] = bookings[x]
  BY DEF Outdated
<1>2. /\ c.t \in Nat /\ c.t <= now
      /\ ~IsEffectivelyFree(slots[s], c.t) /\ ~HoldExpired(slots[s], c.t)
      /\ IsLive(bookings[b]) /\ slots[s].status \in {"held", "booked"}
  BY CallFields, StandsOnItsOwn, StandsFacts DEF CallShape
<1>3. c.step = "commit"
  BY CommitShape
<1>4. CASE HoldShape(c)
  BY <1>1, <1>2, <1>3, <1>4 DEF HoldShape
<1>5. CASE ToggleShape(c)
  BY <1>1, <1>2, <1>5 DEF ToggleShape
<1>6. CASE SweepShape(c)
  BY <1>1, <1>2, <1>6 DEF SweepShape
<1>7. CASE BookingShape(c)
  <2>1. /\ c.b \in BookingIds /\ DOMAIN c.bk = {c.b} /\ IsLive(bookings[c.b])
        /\ c.bk[c.b] = bookings[c.b]
    BY <1>1, <1>3, <1>7 DEF BookingShape
  <2>2. bookings[c.b].slot # s
    BY <1>2, <2>1 DEF OneLiveBooking, LiveSlotsApart
  <2>3. \/ DOMAIN c.sl = {bookings[c.b].slot}
        \/ /\ DOMAIN c.sl = {bookings[c.b].slot, c.s}
           /\ c.s = bookings[c.b].slot \/ IsEffectivelyFree(c.sl[c.s], c.t)
    BY <1>3, <1>7, <2>1 DEF BookingShape
  <2> QED
    BY <1>1, <1>2, <2>1, <2>2, <2>3
<1> QED
  BY <1>4, <1>5, <1>6, <1>7, CommitShape

LEMMA SpareStep ==
  ASSUME WorkInv, OneLiveBooking, [Next]_vars, NEW p \in Sessions, NEW b \in BookingIds,
         txn[p].op # "idle", txn'[p] = Idle, b # txn[p].b, Stands(b), ~Stands(b)'
  PROVE  Outdated(p)
<1>1. txn'[p] # txn[p]
  BY DEF Idle
<1>2. /\ bookings[b] \in GridVisit /\ bookings[b].slot \in SlotKey
      /\ bookings[b] # AbsentBooking
  BY StandsFacts, AbsentIsNoRow
<1>3. ~(UNCHANGED <<world, tables>>)
  BY DEF Stands, world, tables
<1>4. PICK q \in Sessions : SessionStart(q) \/ SessionStep(q)
  BY <1>1, StepCases DEF vars, Tick
<1>5. Writes(q) /\ UNCHANGED world
  BY <1>3, <1>4, ReadsOrWrites DEF Reads
<1>6. q = p
  <2>1. txn' = [txn EXCEPT ![q] = Idle]
    BY <1>5 DEF Writes, HoldCommit, ConfirmCommit, ConfirmTooLate, CancelCommit,
       FreeAndCancel, RescheduleCommit, ToggleCommit, SweepCommit, Commit, End, Rollback
  <2>2. txn \in [Sessions -> Calls]
    BY DEF WorkInv, CallsOK
  <2> QED
    BY <1>1, <2>1, <2>2
<1>7. SUFFICES ASSUME ~Outdated(p) PROVE FALSE
  OBVIOUS
<1>8. bookings[b].slot \notin DOMAIN txn[p].sl /\ b \notin DOMAIN txn[p].bk
  BY <1>5, <1>6, <1>7, TrueReadingsSpare
<1>9. bookings'[b] = bookings[b] /\ slots'[bookings[b].slot] = slots[bookings[b].slot]
  BY <1>2, <1>5, <1>6, <1>8, WrittenRows
<1>10. now' = now
  BY <1>5 DEF world
<1> QED
  BY <1>9, <1>10 DEF Stands

(* A call that takes life or slot from a standing visit it was not asked   *)
(* about has read a row that is no longer true: the loss of a visit in a   *)
(* race always comes from an old reading, as long as both indexes stand.   *)
THEOREM OnlyOldReadingsHarmHolds ==
  ASSUME IndexesBuilt
  PROVE  Spec => OnlyOldReadingsHarm
<1>1. ASSUME WorkInv, OneLiveBooking, [Next]_vars
      PROVE  \A p \in Sessions, b \in BookingIds :
               /\ txn[p].op # "idle" /\ txn'[p] = Idle
               /\ b # txn[p].b
               /\ Stands(b) /\ ~Stands(b)'
               => Outdated(p)
  BY <1>1, SpareStep
<1> QED
  BY WorkHolds, OneLiveBookingHolds, <1>1, PTL DEF Spec, OnlyOldReadingsHarm

-----------------------------------------------------------------------------
(***************************************************************************)
(* Row locks.                                                              *)
(***************************************************************************)
LEMMA NewCallLocks ==
  ASSUME WorkInv, NEW p \in Sessions, SessionStart(p)
  PROVE  LockShape(txn'[p])
<1>0. txn \in [Sessions -> Calls]
  BY DEF WorkInv, CallsOK
<1>1. PICK c : /\ txn' = [txn EXCEPT ![p] = c]
               /\ \/ c.op = "hold" /\ c.step = "slot"
                  \/ c.op \in BookingOps /\ c.step = "booking"
                  \/ c.op \in {"toggle", "sweep"}
  <2>1. \A op, step, u, b, s : /\ Call(op, step, u, b, s).op = op
                               /\ Call(op, step, u, b, s).step = step
    BY DEF Call, Idle
  <2>3. ASSUME NEW u, NEW s, HoldStart(p, u, s)
        PROVE  \E c : txn' = [txn EXCEPT ![p] = c] /\ c.op = "hold" /\ c.step = "slot"
    <3> DEFINE c == Call("hold", "slot", u, Null, s)
    <3>1. txn' = [txn EXCEPT ![p] = c]
      BY <2>3 DEF HoldStart, Start
    <3>2. c.op = "hold" /\ c.step = "slot"
      BY <2>1
    <3> HIDE DEF c
    <3> QED
      BY <3>1, <3>2
  <2>4. ASSUME NEW b, NEW s, \/ ConfirmStart(p, b) \/ CancelStart(p, b)
                             \/ ClientCancelStart(p, b) \/ RescheduleStart(p, b, s)
        PROVE  \E c : /\ txn' = [txn EXCEPT ![p] = c]
                      /\ c.op \in BookingOps /\ c.step = "booking"
    BY <2>1, <2>4 DEF ConfirmStart, CancelStart, ClientCancelStart, RescheduleStart, Start,
       BookingOps
  <2>5. ASSUME NEW s, ToggleStart(p, s)
        PROVE  \E c : txn' = [txn EXCEPT ![p] = c] /\ c.op = "toggle"
    <3>1. txn' = [txn EXCEPT ![p] = LoadSlots(Call("toggle", "commit", Null, Null, s), {s})]
      BY <2>5 DEF ToggleStart, Start
    <3>2. LoadSlots(Call("toggle", "commit", Null, Null, s), {s}).op = "toggle"
      BY DEF Call, Idle, LoadSlots
    <3> QED
      BY <3>1, <3>2
  <2>6. ASSUME SweepStart(p)
        PROVE  \E c : txn' = [txn EXCEPT ![p] = c] /\ c.op = "sweep"
    <3> DEFINE c == LoadSlots(Call("sweep", "pending", Null, Null, Null), Expired)
    <3>1. txn' = [txn EXCEPT ![p] = c]
      BY <2>6 DEF SweepStart, Start
    <3>2. c.op = "sweep"
      BY DEF Call, Idle, LoadSlots
    <3> QED
      BY <3>1, <3>2
  <2> QED
    BY <2>3, <2>4, <2>5, <2>6 DEF SessionStart
<1>2. txn'[p] = c
  BY <1>0, <1>1
<1> QED
  BY <1>1, <1>2 DEF LockShape, BookingOps

(* A commit touches nothing that another call has locked.                  *)
LEMMA TouchesNoLock ==
  ASSUME WorkInv, NEW p \in Sessions, Writes(p), setting.row_locks,
         NEW q \in Sessions \ {p}
  PROVE  /\ \A s \in DOMAIN txn[p].sl : s \notin txn[q].locks
         /\ \A b \in BookingIds : b \in txn[q].locks => bookings'[b] = bookings[b]
<1>1. PICK D : /\ D = DOMAIN txn[p].sl
               /\ CanTouch(p, D \cup {b \in BookingIds : bookings'[b] # bookings[b]})
  <2>1. ASSUME NEW sl, NEW bk, Commit(p, sl, bk)
        PROVE  CanTouch(p, DOMAIN sl \cup {b \in BookingIds : bookings'[b] # bookings[b]})
    BY <2>1 DEF Commit
  <2>2. txn[p].step = "commit"
    BY CommitShape
  <2>3. ASSUME NEW b \in BookingIds, HoldCommit(p, b)
        PROVE  /\ DOMAIN txn[p].sl = {txn[p].s}
               /\ \E bk : Commit(p, [s \in {txn[p].s} |->
                                        HeldSlot(txn[p].u, txn[p].t + HoldLength)], bk)
    <3>1. HoldShape(txn[p])
      BY <2>3, CallFields DEF CallShape, HoldCommit, At
    <3> QED
      BY <2>2, <2>3, <3>1 DEF HoldShape, HoldCommit
  <2>4. ASSUME \/ ConfirmCommit(p) /\ StillPending(txn[p].b)
               \/ ConfirmTooLate(p) \/ CancelCommit(p)
        PROVE  /\ DOMAIN txn[p].sl = {txn[p].bk[txn[p].b].slot}
               /\ \E row, bk : Commit(p, [x \in {txn[p].bk[txn[p].b].slot} |-> row], bk)
    <3>1. BookingShape(txn[p]) /\ txn[p].op # "reschedule"
      BY <2>4, CallFields DEF CallShape, ConfirmCommit, ConfirmTooLate, CancelCommit, At, BookingOps
    <3> QED
      BY <2>2, <2>4, <3>1
      DEF BookingShape, ConfirmCommit, ConfirmTooLate, CancelCommit, FreeAndCancel
  <2>5. ASSUME RescheduleCommit(p) \/ SweepCommit(p)
        PROVE  \E sl, bk : DOMAIN sl = DOMAIN txn[p].sl /\ Commit(p, sl, bk)
    BY <2>5 DEF RescheduleCommit, SweepCommit
  <2>6. ASSUME ToggleCommit(p)
        PROVE  \E sl, bk : DOMAIN sl = DOMAIN txn[p].sl /\ Commit(p, sl, bk)
    <3>1. ToggleShape(txn[p])
      BY <2>6, ToggleWrites
    <3> QED
      BY <2>6, <3>1 DEF ToggleShape, ToggleCommit
  <2>7. \E sl, bk : DOMAIN sl = DOMAIN txn[p].sl /\ Commit(p, sl, bk)
    BY <2>3, <2>4, <2>5, <2>6 DEF Writes
  <2> QED
    BY <2>1, <2>7
<1> QED
  BY <1>1 DEF CanTouch

(* A booking changes its slot only when the call about it moves it.        *)
LEMMA WhoMoves ==
  ASSUME WorkInv, NEW p \in Sessions, Writes(p), NEW b \in BookingIds,
         bookings[b] \in GridVisit, bookings'[b].slot # bookings[b].slot
  PROVE  RescheduleCommit(p) /\ b = txn[p].b
<1>1. ASSUME NEW n \in BookingIds, HoldCommit(p, n)
      PROVE  FALSE
  <2>1. bookings' = [x \in BookingIds |->
            IF x = n THEN PendingBooking(txn[p].u, txn[p].s, DefaultStep)
            ELSE IF x \in DOMAIN txn[p].bk THEN [bookings[x] EXCEPT !.status = "cancelled"]
            ELSE bookings[x]]
    BY <1>1, HoldCommitWrites
  <2>2. b # n
    BY <1>1, AbsentIsNoRow DEF HoldCommit
  <2>3. bookings'[b] \in {bookings[b], [bookings[b] EXCEPT !.status = "cancelled"]}
    BY <2>1, <2>2
  <2> QED
    BY <2>3, CancelledRow
<1>2. CASE ConfirmCommit(p) /\ StillPending(txn[p].b)
  <2>1. bookings' = [bookings EXCEPT ![txn[p].b].status = "active",
                                     ![txn[p].b].receipt = TRUE]
    BY <1>2, ConfirmWrites
  <2>2. bookings'[b] \in {bookings[b], [[bookings[b] EXCEPT !.status = "active"]
                                                    EXCEPT !.receipt = TRUE]}
    BY <2>1 DEF WorkInv, TablesOK
  <2> QED
    BY <2>2 DEF GridVisit
<1>3. CASE ConfirmTooLate(p) \/ CancelCommit(p)
  <2>1. bookings' = [bookings EXCEPT ![txn[p].b].status = "cancelled"]
    BY <1>3, FreeAndCancelWrites
  <2>2. bookings'[b] \in {bookings[b], [bookings[b] EXCEPT !.status = "cancelled"]}
    BY <2>1 DEF WorkInv, TablesOK
  <2> QED
    BY <2>2, CancelledRow
<1>4. CASE RescheduleCommit(p)
  BY <1>4, RescheduleWrites
<1>5. CASE ToggleCommit(p)
  BY <1>5, ToggleWrites
<1>6. CASE SweepCommit(p)
  <2>1. bookings' = [x \in BookingIds |->
            IF x \in DOMAIN txn[p].bk THEN [bookings[x] EXCEPT !.status = "cancelled"]
            ELSE bookings[x]]
    BY <1>6, SweepWrites
  <2>2. bookings'[b] \in {bookings[b], [bookings[b] EXCEPT !.status = "cancelled"]}
    BY <2>1
  <2> QED
    BY <2>2, CancelledRow
<1> QED
  BY <1>1, <1>2, <1>3, <1>4, <1>5, <1>6 DEF Writes

LockInv == \A q \in Sessions : LockShape(txn[q])

LEMMA OtherLocks ==
  ASSUME WorkInv, LockInv, NEW p \in Sessions, Writes(p), UNCHANGED world,
         NEW q \in Sessions \ {p}, txn'[q] = txn[q]
  PROVE  LockShape(txn[q])'
<1> DEFINE c == txn[q]
<1>1. SUFFICES ASSUME setting.row_locks
               PROVE  LockShape(c)'
  BY DEF LockShape, world
<1>2. LockShape(c) /\ setting' = setting
  BY DEF LockInv, world
<1>3. /\ \A s \in DOMAIN txn[p].sl : s \notin c.locks
      /\ \A b \in BookingIds : b \in c.locks => bookings'[b] = bookings[b]
  BY <1>1, TouchesNoLock
<1>4. ASSUME c.op = "hold", c.step # "slot"
      PROVE  /\ c.s \in c.locks /\ c.sl[c.s] = slots'[c.s]
             /\ \A x \in DOMAIN c.bk : bookings'[x].slot = c.s
  <2>1. c.s \in SlotKey /\ c.s \in c.locks /\ c.sl[c.s] = slots[c.s]
    BY <1>1, <1>2, <1>4, CallFields DEF LockShape, CallShape, HoldShape
  <2>2. slots'[c.s] = slots[c.s]
    BY <1>3, <2>1, WrittenRows
  <2>3. ASSUME NEW x \in DOMAIN c.bk
        PROVE  bookings'[x].slot = c.s
    <3>1. x \in BookingIds /\ bookings[x] \in GridVisit /\ bookings[x].slot = c.s
      BY <1>1, <1>2, <1>4, CallFields DEF LockShape
    <3>2. SUFFICES ASSUME bookings'[x].slot # bookings[x].slot
                   PROVE  FALSE
      BY <3>1
    <3>3. RescheduleCommit(p) /\ x = txn[p].b
      BY <3>1, <3>2, WhoMoves
    <3>4. BookingShape(txn[p]) /\ txn[p].op = "reschedule" /\ txn[p].step = "commit"
      BY <3>3, RescheduleWrites
    <3>5. txn[p].bk[x] = bookings[x]
      BY <1>1, <3>3, <3>4 DEF LockInv, LockShape, BookingOps
    <3>6. c.s \in DOMAIN txn[p].sl
      BY <3>1, <3>3, <3>4, <3>5 DEF BookingShape
    <3> QED
      BY <1>3, <2>1, <3>6
  <2> QED
    BY <2>1, <2>2, <2>3
<1>5. ASSUME c.op \in BookingOps, c.step # "booking"
      PROVE  c.b \in c.locks /\ c.bk[c.b] = bookings'[c.b]
  <2>1. c.b \in BookingIds /\ c.b \in c.locks /\ c.bk[c.b] = bookings[c.b]
    BY <1>1, <1>2, <1>5, CallFields DEF LockShape, CallShape, BookingShape
  <2> QED
    BY <1>3, <2>1
<1> QED
  BY <1>4, <1>5 DEF LockShape

LEMMA LocksStep ==
  ASSUME WorkInv, LockInv, [Next]_vars
  PROVE  LockInv'
<1>0. txn \in [Sessions -> Calls]
  BY DEF WorkInv, CallsOK
<1>1. CASE UNCHANGED <<setting, slots, bookings, txn>>
  BY <1>1 DEF LockInv, LockShape
<1>2. ASSUME NEW p \in Sessions, SessionStart(p) \/ SessionStep(p), Reads
      PROVE  LockInv'
  <2>1. txn' = [txn EXCEPT ![p] = txn'[p]] /\ LockShape(txn'[p])
    BY <1>2, NewCall, NewCallLocks, ReadCall DEF LockInv
  <2>2. setting' = setting /\ slots' = slots /\ bookings' = bookings
    BY <1>2 DEF Reads, world, tables
  <2>3. \A q \in Sessions : LockShape(txn'[q])
    BY <1>0, <2>1 DEF LockInv
  <2> QED
    BY <2>2, <2>3 DEF LockInv, LockShape
<1>3. ASSUME NEW p \in Sessions, Writes(p), UNCHANGED world
      PROVE  LockInv'
  <2>1. txn' = [txn EXCEPT ![p] = Idle]
    BY <1>3 DEF Writes, HoldCommit, ConfirmCommit, ConfirmTooLate, CancelCommit,
       FreeAndCancel, RescheduleCommit, ToggleCommit, SweepCommit, Commit, End, Rollback
  <2>2. txn'[p] = Idle /\ \A q \in Sessions \ {p} : txn'[q] = txn[q]
    BY <1>0, <2>1
  <2>3. LockShape(txn[p])'
    BY <2>2 DEF LockShape, Idle, BookingOps
  <2> QED
    BY <1>3, <2>2, <2>3, OtherLocks DEF LockInv
<1> QED
  BY <1>1, <1>2, <1>3, StepCases, ReadsOrWrites DEF vars, world, tables, Tick

(* With row locks no hold cancels another client's hold that still stands. *)
THEOREM HoldNotStealableHolds == Spec => HoldNotStealable
<1>1. Init => LockInv
  BY DEF Init, LockInv, LockShape, Idle, BookingOps
<1>2. ASSUME WorkInv, LockInv, [Next]_vars
      PROVE  setting.row_locks /\ (\E p \in Sessions, b \in BookingIds : HoldCommit(p, b)) =>
               \A c \in BookingIds :
                 IsPending(bookings[c]) /\ Stands(c) => IsPending(bookings'[c])
  <2> SUFFICES ASSUME setting.row_locks, NEW p \in Sessions, NEW b \in BookingIds,
                      HoldCommit(p, b), NEW c \in BookingIds,
                      IsPending(bookings[c]), Stands(c)
               PROVE  IsPending(bookings'[c])
    OBVIOUS
  <2>1. HoldShape(txn[p]) /\ txn[p].op = "hold" /\ txn[p].step = "commit"
    BY <1>2, CallFields DEF CallShape, HoldCommit, At
  <2>2. /\ txn[p].sl[txn[p].s] = slots[txn[p].s]
        /\ \A x \in DOMAIN txn[p].bk : bookings[x].slot = txn[p].s
    BY <1>2, <2>1 DEF LockInv, LockShape
  <2>3. txn[p].t \in Nat /\ txn[p].t <= now
    BY <1>2, CallFields DEF CallShape
  <2>4. bookings[c].slot # txn[p].s
    BY <1>2, <2>1, <2>2, <2>3, StandsOnItsOwn DEF HoldShape
  <2>5. c \notin DOMAIN txn[p].bk /\ c # b
    BY <2>2, <2>4 DEF HoldCommit, IsPending, AbsentBooking
  <2>6. bookings' = [x \in BookingIds |->
            IF x = b THEN PendingBooking(txn[p].u, txn[p].s, DefaultStep)
            ELSE IF x \in DOMAIN txn[p].bk THEN [bookings[x] EXCEPT !.status = "cancelled"]
            ELSE bookings[x]]
    BY <1>2, HoldCommitWrites
  <2> QED
    BY <2>5, <2>6
<1> QED
  BY WorkHolds, LocksStep, <1>1, <1>2, PTL DEF Spec, HoldNotStealable

-----------------------------------------------------------------------------
(***************************************************************************)
(* Calls that are up to date are the calls of Bookings.                    *)
(***************************************************************************)

(* Rows that are written over what was read are as the call wants them.    *)
LEMMA FlushCurrent ==
  ASSUME NEW tbl \in [SlotKey -> GridSlot], NEW loaded \in Rows(SlotKey, GridSlot),
         NEW new \in Rows(SlotKey, GridSlot), DOMAIN new \subseteq DOMAIN loaded,
         \A s \in DOMAIN loaded : loaded[s] = tbl[s]
  PROVE  Flush(tbl, loaded, new)
           = [s \in SlotKey |-> IF s \in DOMAIN new THEN new[s] ELSE tbl[s]]
<1>1. ASSUME NEW s \in SlotKey, s \in DOMAIN new
      PROVE  Written(tbl[s], loaded[s], new[s]) = new[s]
  <2>1. tbl[s] \in GridSlot /\ new[s] \in GridSlot /\ loaded[s] = tbl[s]
    BY <1>1, RowsDomain
  <2> QED
    BY <2>1 DEF Written, GridSlot
<1>2. DOMAIN tbl = SlotKey
  OBVIOUS
<1> QED
  BY <1>1, <1>2, FlushIsWritten

LEMMA SameCardinality == \A S : Services!Cardinality(S) = Cardinality(S)
BY DEF Services!Cardinality, Cardinality

(* The helpers of Bookings, on this module's grid.                         *)
LEMMA ServiceBlock ==
  ASSUME WorkInv, NEW s \in SlotKey
  PROVE  /\ Services!StepForDay(s[1]) = DefaultStep
         /\ Services!SlotsNeeded(DefaultStep, DefaultStep) = 1
         /\ Services!ConsecutiveBlock(slots, s, 1) = {s}
         /\ Services!Present(slots, s)
         /\ Services!Cardinality({s}) = 1
<1>1. s[1] \in Days
  BY SlotKeyParts
<1>2. Services!StepForDay(s[1]) = DefaultStep
  BY <1>1 DEF Services!StepForDay
<1>3. Services!SlotsNeeded(DefaultStep, DefaultStep) = 1
  BY OneStepVisit, DataAssumption DEF Services!SlotsNeeded, SlotsNeeded
<1>4. Present(slots, s) /\ Services!Present(slots, s)
  <2>1. slots[s] \in GridSlot
    BY DEF WorkInv, TablesOK
  <2> QED
    BY <2>1 DEF Present, Services!Present, GridSlot, SlotStatus
<1>5. Services!ConsecutiveBlock(slots, s, 1) = ConsecutiveBlock(slots, s, 1)
  BY SameCardinality DEF Services!ConsecutiveBlock, ConsecutiveBlock, Services!SlotKey,
     SlotKey, Services!Present, Present
<1> QED
  BY <1>2, <1>3, <1>4, <1>5, OneSlotBlock, FS_Singleton, SameCardinality

LEMMA ServiceVisit ==
  ASSUME WorkInv, NEW row \in GridVisit
  PROVE  /\ row.slot \in SlotKey /\ row.duration = DefaultStep
         /\ Services!BlockSlots(row) = {row.slot}
<1>1. row.slot \in SlotKey /\ row.duration = DefaultStep
  BY DEF GridVisit
<1> QED
  BY <1>1, ServiceBlock DEF Services!BlockSlots

LEMMA ServiceFrees ==
  ASSUME WorkInv, NEW b \in BookingIds, bookings[b] \in GridVisit
  PROVE  Services!FreeBlocks({b})
           = [s \in SlotKey |-> IF s = bookings[b].slot THEN FreeSlot ELSE slots[s]]
BY ServiceVisit DEF Services!FreeBlocks, Services!SlotKey, SlotKey, Services!FreeSlot, FreeSlot,
   Services!NoTime, NoTime

LEMMA ServiceIndexes == Services!UniqueLiveIndexes(bookings') <=> UniqueLiveIndexes(bookings')
BY DEF Services!UniqueLiveIndexes, UniqueLiveIndexes, Services!LiveSlotsApart, LiveSlotsApart,
       Services!LiveUsersApart, LiveUsersApart, Services!IsLive, IsLive,
       Services!LIVE_BOOKING_STATUSES, LIVE_BOOKING_STATUSES

LEMMA ServiceCommit ==
  ASSUME NEW p \in Sessions, Writes(p), UNCHANGED world, NEW sl, NEW bk,
         slots' = sl, bookings' = bk
  PROVE  Services!Commit(sl, bk)
<1>1. UniqueLiveIndexes(bookings')
  BY DEF Writes, HoldCommit, ConfirmCommit, ConfirmTooLate, CancelCommit,
     FreeAndCancel, RescheduleCommit, ToggleCommit, SweepCommit, Commit
<1>2. now' = now
  BY DEF world
<1> QED
  BY <1>1, <1>2, ServiceIndexes DEF Services!Commit, Services!schedule

LEMMA SameRows ==
  /\ Services!FreeSlot = FreeSlot /\ Services!BookedSlot = BookedSlot
  /\ \A u, until : Services!HeldSlot(u, until) = HeldSlot(u, until)
  /\ Services!AbsentBooking = AbsentBooking
  /\ \A u, s, n : Services!PendingBooking(u, s, n) = PendingBooking(u, s, n)
  /\ Services!SlotKey = SlotKey
BY DEF Services!FreeSlot, FreeSlot, Services!BookedSlot, BookedSlot, Services!HeldSlot,
   HeldSlot, Services!AbsentBooking, AbsentBooking, Services!PendingBooking,
   PendingBooking, Services!SlotKey, SlotKey, Services!NoTime, NoTime

LEMMA SameTests ==
  /\ \A row : Services!IsLive(row) <=> IsLive(row)
  /\ \A row : Services!IsPending(row) <=> IsPending(row)
  /\ \A slot, t : Services!IsEffectivelyFree(slot, t) <=> IsEffectivelyFree(slot, t)
  /\ \A slot, s, t : Services!IsBookableSlot(slot, s, t) <=> IsBookableSlot(slot, s, t)
  /\ \A slot, t : Services!HoldExpired(slot, t) <=> HoldExpired(slot, t)
  /\ \A s : Services!VisitStart(s) = VisitStart(s)
BY DEF Services!IsLive, IsLive, Services!LIVE_BOOKING_STATUSES, LIVE_BOOKING_STATUSES,
   Services!IsPending, IsPending, Services!IsEffectivelyFree, IsEffectivelyFree,
   Services!IsBookableSlot, IsBookableSlot, Services!HoldExpired, HoldExpired,
   Services!VisitStart, VisitStart, Services!NoTime, NoTime

(* Nothing lies in the past in this module.                                *)
LEMMA FutureSlot ==
  ASSUME WorkInv, NEW s \in SlotKey
  PROVE  VisitStart(s) > now /\ s[1] >= Services!Today(now)
<1>1. now \in Nat /\ VisitStart(s) > now
  <2>1. VisitStart(s) > Horizon /\ now <= Horizon /\ now \in Nat /\ Horizon \in Nat
    BY RacesAssumption DEF WorkInv, TablesOK
  <2>2. VisitStart(s) \in Int
    BY SlotKeyParts, DataAssumption DEF VisitStart
  <2> QED
    BY <2>1, <2>2
<1>2. s[1] \in Nat /\ s[2] \in Nat /\ s[2] < DayLength /\ DayLength \in Nat \ {0}
  BY SlotKeyParts, DataAssumption
<1>3. s[1] * DayLength + s[2] > now
  BY <1>1 DEF VisitStart
<1>4. s[1] * DayLength + DayLength > now
  BY <1>1, <1>2, <1>3
<1>5. now \div DayLength <= s[1]
  BY <1>1, <1>2, <1>4
<1> QED
  BY <1>1, <1>5 DEF Services!Today

LEMMA CurrentRows ==
  ASSUME WorkInv, NEW p \in Sessions, UpToDate(p)
  PROVE  /\ txn[p].t = now
         /\ \A s \in DOMAIN txn[p].sl : txn[p].sl[s] = slots[s]
         /\ \A b \in DOMAIN txn[p].bk : txn[p].bk[b] = bookings[b]
BY DEF UpToDate, Outdated

(* What a call that is up to date leaves in the slots table.               *)
LEMMA CurrentSlots ==
  ASSUME WorkInv, NEW p \in Sessions, UpToDate(p),
         NEW D \in SUBSET DOMAIN txn[p].sl, NEW new \in [D -> GridSlot]
  PROVE  Flush(slots, txn[p].sl, new)
           = [s \in SlotKey |-> IF s \in D THEN new[s] ELSE slots[s]]
<1>1. /\ slots \in [SlotKey -> GridSlot] /\ txn[p].sl \in Rows(SlotKey, GridSlot)
      /\ DOMAIN txn[p].sl \subseteq SlotKey
  BY CallFields DEF WorkInv, TablesOK
<1>2. new \in Rows(SlotKey, GridSlot) /\ DOMAIN new = D
  BY <1>1, RowsIntro
<1> QED
  BY <1>1, <1>2, CurrentRows, FlushCurrent

LEMMA ToggleAsOneStep ==
  ASSUME WorkInv, NEW p \in Sessions, ToggleCommit(p), UNCHANGED world, UpToDate(p)
  PROVE  Services!ToggleSlotBlock(txn[p].s)
<1> DEFINE c == txn[p]
           flip == IF c.sl[c.s].status = "free" THEN "blocked" ELSE "free"
           new == [s \in {c.s} |-> [c.sl[s] EXCEPT !.status = flip]]
<1>1. ToggleShape(c) /\ bookings' = bookings
  BY ToggleWrites
<1>2. /\ c.s \in SlotKey /\ c.sl[c.s] = slots[c.s] /\ {c.s} \in SUBSET DOMAIN c.sl
      /\ slots[c.s].status \in {"free", "blocked"} /\ slots[c.s] \in GridSlot
  BY <1>1, CurrentRows, CallFields DEF ToggleShape
<1>3. slots' = Flush(slots, c.sl, new)
  BY DEF ToggleCommit, Commit
<1>4. new \in [{c.s} -> GridSlot]
  BY <1>2 DEF GridSlot, SlotStatus
<1>5. slots' = [s \in SlotKey |-> IF s \in {c.s} THEN new[s] ELSE slots[s]]
  <2> HIDE DEF new
  <2> QED
    BY <1>2, <1>3, <1>4, CurrentSlots
<1>6. slots' = [slots EXCEPT ![c.s].status = IF @ = "free" THEN "blocked" ELSE "free"]
  BY <1>2, <1>5 DEF WorkInv, TablesOK
<1> QED
  BY <1>1, <1>2, <1>6 DEF Services!ToggleSlotBlock, Services!schedule, world

LEMMA SweepAsOneStep ==
  ASSUME WorkInv, NEW p \in Sessions, SweepCommit(p), UNCHANGED world, UpToDate(p)
  PROVE  Services!ReleaseExpiredHolds
<1> DEFINE c == txn[p]
           new == [s \in DOMAIN c.sl |-> FreeSlot]
<1>1. /\ c.op = "sweep" /\ DOMAIN c.sl = Expired /\ DOMAIN c.bk = PendingOn(Expired)
  BY DEF SweepCommit, At, UpToDate
<1>2. /\ Services!Lapsed = Expired
      /\ PendingOn(Expired) = {b \in BookingIds : /\ Services!IsPending(bookings[b])
                                                  /\ bookings[b].slot \in Services!Lapsed}
  BY SameTests, SameRows DEF Services!Lapsed, Expired, PendingOn
<1>3. Expired # {}
  BY <1>1, SweepWrites DEF SweepShape
<1>4. slots' = Flush(slots, c.sl, new) /\ new \in [DOMAIN c.sl -> GridSlot]
  BY SweepWrites, SlotValues
<1>5. slots' = [s \in SlotKey |-> IF s \in DOMAIN c.sl THEN new[s] ELSE slots[s]]
  <2> HIDE DEF new
  <2> QED
    BY <1>4, CurrentSlots
<1>6. slots' = [s \in Services!SlotKey |-> IF s \in Services!Lapsed THEN Services!FreeSlot
                                           ELSE slots[s]]
  BY <1>1, <1>2, <1>5, SameRows
<1>7. bookings' = Services!WithStatus(bookings, PendingOn(Expired), "cancelled")
  BY <1>1, SweepWrites DEF Services!WithStatus
<1>8. Services!Commit([s \in Services!SlotKey |-> IF s \in Services!Lapsed
                         THEN Services!FreeSlot ELSE slots[s]],
                      Services!WithStatus(bookings, PendingOn(Expired), "cancelled"))
  BY <1>6, <1>7, ServiceCommit DEF Writes
<1> QED
  BY <1>2, <1>3, <1>8 DEF Services!ReleaseExpiredHolds

(* The three calls about a booking that end in its own slot.               *)
LEMMA CurrentBooking ==
  ASSUME WorkInv, NEW p \in Sessions, UpToDate(p), BookingShape(txn[p]),
         txn[p].step = "commit"
  PROVE  LET c == txn[p] IN
         /\ c.b \in BookingIds /\ c.bk[c.b] = bookings[c.b] /\ bookings[c.b] \in GridVisit
         /\ IsLive(bookings[c.b]) /\ bookings[c.b] # AbsentBooking
         /\ c.u = bookings[c.b].user
         /\ bookings[c.b].slot \in SlotKey /\ bookings[c.b].slot \in DOMAIN c.sl
         /\ c.sl[bookings[c.b].slot] = slots[bookings[c.b].slot]
         /\ c.op # "reschedule" => DOMAIN c.sl = {bookings[c.b].slot}
<1>1. /\ txn[p].b \in BookingIds /\ DOMAIN txn[p].bk = {txn[p].b}
      /\ IsLive(txn[p].bk[txn[p].b]) /\ txn[p].u = bookings[txn[p].b].user
  BY DEF BookingShape
<1>2. txn[p].bk[txn[p].b] = bookings[txn[p].b] /\ bookings[txn[p].b] \in GridVisit
  BY <1>1, CurrentRows, CallFields
<1>3. bookings[txn[p].b].slot \in SlotKey /\ bookings[txn[p].b] # AbsentBooking
  BY <1>2, AbsentIsNoRow DEF GridVisit
<1>4. /\ bookings[txn[p].b].slot \in DOMAIN txn[p].sl
      /\ txn[p].op # "reschedule" => DOMAIN txn[p].sl = {bookings[txn[p].b].slot}
  BY <1>2 DEF BookingShape
<1> QED
  BY <1>1, <1>2, <1>3, <1>4, CurrentRows

LEMMA SameHoldTest ==
  ASSUME WorkInv, NEW p \in Sessions, UpToDate(p), BookingShape(txn[p]),
         txn[p].step = "commit"
  PROVE  Services!HoldStands(txn[p].b) <=> HoldStood(txn[p])
BY CurrentBooking, CurrentRows
DEF Services!HoldStands, HoldStood, Services!NoTime, NoTime

(* Cancelling a booking and freeing the slot it has.                       *)
LEMMA FreeAndCancelAsCommit ==
  ASSUME WorkInv, NEW p \in Sessions, ConfirmTooLate(p) \/ CancelCommit(p),
         UNCHANGED world, UpToDate(p)
  PROVE  Services!Commit(Services!FreeBlocks({txn[p].b}),
                         Services!WithStatus(bookings, {txn[p].b}, "cancelled"))
<1> DEFINE c == txn[p]
           s == bookings[c.b].slot
           new == [x \in {s} |-> FreeSlot]
<1>1. BookingShape(c) /\ c.step = "commit" /\ c.op # "reschedule"
  BY FreeAndCancelWrites
<1>2. /\ c.b \in BookingIds /\ c.bk[c.b] = bookings[c.b] /\ bookings[c.b] \in GridVisit
      /\ s \in SlotKey /\ {s} \in SUBSET DOMAIN c.sl
  BY <1>1, CurrentBooking
<1>3. slots' = Flush(slots, c.sl, new) /\ new \in [{s} -> GridSlot]
  BY <1>2, FreeAndCancelWrites, SlotValues
<1>4. slots' = [x \in SlotKey |-> IF x \in {s} THEN new[x] ELSE slots[x]]
  <2> HIDE DEF new, s
  <2> QED
    BY <1>2, <1>3, CurrentSlots
<1>5. slots' = Services!FreeBlocks({c.b})
  BY <1>2, <1>4, ServiceFrees
<1>6. bookings' = [bookings EXCEPT ![c.b].status = "cancelled"]
  BY FreeAndCancelWrites
<1>7. bookings' = Services!WithStatus(bookings, {c.b}, "cancelled")
  BY <1>2, <1>6 DEF Services!WithStatus, WorkInv, TablesOK
<1> QED
  BY <1>5, <1>7, ServiceCommit DEF Writes

LEMMA TooLateAsOneStep ==
  ASSUME WorkInv, NEW p \in Sessions, ConfirmTooLate(p), UNCHANGED world, UpToDate(p)
  PROVE  Services!ReceiptTooLate(txn[p].b)
<1>1. /\ BookingShape(txn[p]) /\ txn[p].step = "commit" /\ txn[p].op = "confirm"
      /\ ~HoldStood(txn[p])
  BY FreeAndCancelWrites DEF ConfirmTooLate, At
<1>2. IsPending(bookings[txn[p].b])
  BY <1>1, CurrentBooking DEF BookingShape
<1> QED
  BY <1>1, <1>2, SameHoldTest, SameTests, FreeAndCancelAsCommit DEF Services!ReceiptTooLate

LEMMA CancelAsOneStep ==
  ASSUME WorkInv, NEW p \in Sessions, CancelCommit(p), UNCHANGED world, UpToDate(p)
  PROVE  /\ Services!CancelBooking(txn[p].b)
         /\ txn[p].op = "client_cancel" => Services!CancelByClient(txn[p].b)
<1>1. BookingShape(txn[p]) /\ txn[p].step = "commit"
  BY FreeAndCancelWrites
<1>2. /\ bookings[txn[p].b].status # "cancelled"
      /\ bookings[txn[p].b] # Services!AbsentBooking
  BY <1>1, CurrentBooking, LiveFacts, SameRows
<1>3. Services!CancelBooking(txn[p].b)
  BY <1>2, FreeAndCancelAsCommit DEF Services!CancelBooking
<1>4. ASSUME txn[p].op = "client_cancel"
      PROVE  Services!CancelByClient(txn[p].b)
  BY <1>3, <1>4, SameTests DEF UpToDate, MayCancel, Services!CancelByClient
<1> QED
  BY <1>3, <1>4

LEMMA ConfirmAsOneStep ==
  ASSUME WorkInv, NEW p \in Sessions, ConfirmCommit(p), StillPending(txn[p].b),
         UNCHANGED world, UpToDate(p)
  PROVE  Services!ConfirmWithReceipt(txn[p].b)
<1> DEFINE c == txn[p]
           s == bookings[c.b].slot
           new == [x \in {s} |-> BookedSlot]
<1>1. /\ BookingShape(c) /\ c.step = "commit" /\ c.op = "confirm" /\ HoldStood(c)
      /\ IsPending(bookings[c.b])
  BY CallFields DEF CallShape, ConfirmCommit, At, BookingOps, StillPending
<1>2. /\ c.b \in BookingIds /\ c.bk[c.b] = bookings[c.b] /\ bookings[c.b] \in GridVisit
      /\ s \in SlotKey /\ {s} \in SUBSET DOMAIN c.sl
  BY <1>1, CurrentBooking
<1>3. slots' = Flush(slots, c.sl, new) /\ new \in [{s} -> GridSlot]
  BY <1>2, ConfirmWrites, SlotValues
<1>4. slots' = [x \in SlotKey |-> IF x \in {s} THEN new[x] ELSE slots[x]]
  <2> HIDE DEF new, s
  <2> QED
    BY <1>2, <1>3, CurrentSlots
<1>5. slots' = [x \in Services!SlotKey |-> IF x \in Services!BlockSlots(bookings[c.b])
                                           THEN Services!BookedSlot ELSE slots[x]]
  BY <1>2, <1>4, ServiceVisit, SameRows
<1>6. bookings' = [bookings EXCEPT ![c.b].status = "active", ![c.b].receipt = TRUE]
  BY ConfirmWrites
<1>7. Services!Commit([x \in Services!SlotKey |->
                         IF x \in Services!BlockSlots(bookings[c.b])
                         THEN Services!BookedSlot ELSE slots[x]],
                      [bookings EXCEPT ![c.b].status = "active", ![c.b].receipt = TRUE])
  BY <1>5, <1>6, ServiceCommit DEF Writes
<1> QED
  BY <1>1, <1>7, SameHoldTest, SameTests DEF Services!ConfirmWithReceipt

LEMMA RescheduleAsOneStep ==
  ASSUME WorkInv, NEW p \in Sessions, RescheduleCommit(p), UNCHANGED world, UpToDate(p)
  PROVE  Services!Reschedule(txn[p].b, txn[p].s)
<1> DEFINE c == txn[p]
           row == bookings[c.b]
           taken == IF IsPending(row) THEN HeldSlot(row.user, now + HoldLength)
                    ELSE BookedSlot
           new == [x \in DOMAIN c.sl |-> IF x = c.s THEN taken ELSE FreeSlot]
           sl == [x \in SlotKey |-> IF x = c.s THEN taken
                                    ELSE IF x = row.slot THEN FreeSlot ELSE slots[x]]
<1>1. BookingShape(c) /\ c.step = "commit" /\ c.op = "reschedule"
  BY RescheduleWrites
<1>2. /\ c.b \in BookingIds /\ c.bk[c.b] = row /\ row \in GridVisit /\ IsLive(row)
      /\ row.slot \in SlotKey /\ c.s \in SlotKey
      /\ DOMAIN c.sl = {row.slot, c.s}
      /\ c.s = row.slot \/ IsEffectivelyFree(slots[c.s], now)
  BY <1>1, CurrentBooking, CurrentRows DEF BookingShape
<1>3. taken \in GridSlot
  <2>1. row.user \in Users /\ now + HoldLength \in Nat
    BY <1>2, DataAssumption DEF GridVisit, WorkInv, TablesOK
  <2> QED
    BY <2>1, SlotValues
<1>4. slots' = Flush(slots, c.sl, new)
  <2> DEFINE read == IF IsPending(c.bk[c.b])
                     THEN HeldSlot(c.bk[c.b].user, c.t + HoldLength) ELSE BookedSlot
  <2>1. read = taken
    BY <1>2, CurrentRows
  <2>2. slots' = Flush(slots, c.sl, [x \in DOMAIN c.sl |-> IF x = c.s THEN read ELSE FreeSlot])
    BY RescheduleWrites
  <2> HIDE DEF read, taken
  <2> QED
    BY <2>1, <2>2
<1>5. slots' = sl
  <2>1. new \in [DOMAIN c.sl -> GridSlot]
    BY <1>3, SlotValues
  <2>2. DOMAIN c.sl \in SUBSET DOMAIN c.sl
    OBVIOUS
  <2> HIDE DEF new
  <2>3. slots' = [x \in SlotKey |-> IF x \in DOMAIN c.sl THEN new[x] ELSE slots[x]]
    BY <1>4, <2>1, <2>2, CurrentSlots
  <2> QED
    BY <1>2, <2>3 DEF new
<1>6. bookings' = [bookings EXCEPT ![c.b].slot = c.s]
  BY <1>2, RescheduleWrites DEF WorkInv, TablesOK
<1>7. Services!Commit(sl, [bookings EXCEPT ![c.b].slot = c.s])
  BY <1>5, <1>6, ServiceCommit DEF Writes
<1>8. /\ Services!SlotsNeeded(row.duration, Services!StepForDay(c.s[1])) = 1
      /\ Services!ConsecutiveBlock(slots, c.s, 1) = {c.s}
      /\ Services!Cardinality({c.s}) = 1 /\ Services!Present(slots, c.s)
      /\ Services!BlockSlots(row) = {row.slot}
  BY <1>2, ServiceBlock, ServiceVisit
<1>9. \A x \in {c.s} : \/ Services!IsEffectivelyFree(slots[x], now)
                       \/ x \in Services!BlockSlots(row)
  BY <1>2, <1>8, SameTests
<1>10. taken = IF Services!IsPending(row)
               THEN Services!HeldSlot(row.user, now + HoldLength) ELSE Services!BookedSlot
  BY SameTests, SameRows
<1>11. sl = [x \in Services!SlotKey |-> IF x \in {c.s} THEN taken
                                        ELSE Services!FreeBlocks({c.b})[x]]
  <2>1. Services!FreeBlocks({c.b})
          = [x \in SlotKey |-> IF x = row.slot THEN FreeSlot ELSE slots[x]]
    BY <1>2, ServiceFrees
  <2> HIDE DEF taken
  <2> QED
    BY <2>1, SameRows
<1>12. Services!IsLive(row)
  BY <1>2, SameTests
<1> HIDE DEF taken, sl
<1> QED
  BY <1>7, <1>8, <1>9, <1>10, <1>11, <1>12 DEF Services!Reschedule

LEMMA HoldAsOneStep ==
  ASSUME WorkInv, NEW p \in Sessions, NEW b \in BookingIds, HoldCommit(p, b),
         UNCHANGED world, UpToDate(p)
  PROVE  Services!HoldSlot(txn[p].u, txn[p].s, b)
<1> DEFINE c == txn[p]
           held == HeldSlot(c.u, now + HoldLength)
           new == [x \in {c.s} |-> held]
           past == Services!LiveOf(c.u) \cap Services!PastIds
           made == PendingBooking(c.u, c.s, DefaultStep)
           sl == [x \in SlotKey |-> IF x \in {c.s} THEN held ELSE slots[x]]
           bk == [Services!WithStatus(bookings, PendingOn({c.s}), "cancelled")
                    EXCEPT ![b] = made]
<1>1. /\ HoldShape(c) /\ c.op = "hold" /\ c.step = "commit" /\ bookings[b] = AbsentBooking
  BY CallFields DEF CallShape, HoldCommit, At
<1>2. /\ c.u \in Users /\ c.s \in SlotKey /\ DOMAIN c.sl = {c.s}
      /\ IsEffectivelyFree(slots[c.s], now) /\ ~HasLiveBooking(c.u)
      /\ DOMAIN c.bk = PendingOn({c.s})
  BY <1>1, CurrentRows DEF HoldShape, UpToDate
<1>3. Services!LiveOf(c.u) = {}
  BY <1>2, SameTests DEF HasLiveBooking, Services!LiveOf, Services!LiveIds
<1>4. past = {}
  BY <1>3
<1>5. Services!FreeBlocks(past) = slots /\ Services!Settle(past) = bookings
  BY <1>4, SameRows DEF Services!FreeBlocks, Services!Settle, WorkInv, TablesOK
<1>6. held \in GridSlot /\ held = Services!HeldSlot(c.u, now + HoldLength)
      /\ made = Services!PendingBooking(c.u, c.s, DefaultStep)
  <2>1. now + HoldLength \in Nat
    BY DataAssumption DEF WorkInv, TablesOK
  <2> QED
    BY <1>2, <2>1, SlotValues, SameRows
<1>7. slots' = sl
  <2>1. slots' = Flush(slots, c.sl, new) /\ new \in [{c.s} -> GridSlot]
    BY <1>6, CurrentRows, HoldCommitWrites
  <2>2. {c.s} \in SUBSET DOMAIN c.sl
    BY <1>2
  <2>3. slots' = [x \in SlotKey |-> IF x \in {c.s} THEN new[x] ELSE slots[x]]
    <3> HIDE DEF new
    <3> QED
      BY <2>1, <2>2, CurrentSlots
  <2> QED
    BY <2>3
<1>8. bookings' = bk
  <2> DEFINE B == DOMAIN c.bk
  <2>1. bookings' = [x \in BookingIds |->
            IF x = b THEN made
            ELSE IF x \in B THEN [bookings[x] EXCEPT !.status = "cancelled"]
            ELSE bookings[x]]
    BY HoldCommitWrites
  <2>2. B = PendingOn({c.s})
    BY <1>2
  <2> HIDE DEF B, made
  <2> QED
    BY <2>1, <2>2 DEF Services!WithStatus
<1>9. Services!Commit(sl, bk)
  BY <1>7, <1>8, ServiceCommit DEF Writes
<1>10. /\ Services!StepForDay(c.s[1]) = DefaultStep
       /\ Services!SlotsNeeded(DefaultStep, DefaultStep) = 1
       /\ Services!ConsecutiveBlock(slots, c.s, 1) = {c.s}
       /\ Services!Cardinality({c.s}) = 1 /\ Services!Present(slots, c.s)
       /\ c.s[1] >= Services!Today(now)
       /\ Services!IsBookableSlot(slots[c.s], c.s, now)
  BY <1>2, ServiceBlock, FutureSlot, SameTests DEF IsBookableSlot
<1>11. PendingOn({c.s}) = {x \in BookingIds : /\ Services!IsPending(bookings[x])
                                              /\ bookings[x].slot \in {c.s}}
  BY SameTests DEF PendingOn
<1>12. /\ bookings[b] = Services!AbsentBooking /\ SlotKey = Services!SlotKey
       /\ Services!LiveOf(c.u) \subseteq Services!PastIds
  BY <1>1, <1>3, SameRows
<1> HIDE DEF past, held, made
<1> QED
  BY <1>5, <1>6, <1>9, <1>10, <1>11, <1>12 DEF Services!HoldSlot, Services!MayHold,
     Services!HoldBlock, Services!PastOf, Services!BookingsWithHold, past

LEMMA WritesEnd ==
  ASSUME WorkInv, NEW q \in Sessions, Writes(q)
  PROVE  txn' = [txn EXCEPT ![q] = Idle] /\ \A p \in Sessions \ {q} : txn'[p] = txn[p]
<1>1. txn' = [txn EXCEPT ![q] = Idle]
  BY DEF Writes, HoldCommit, ConfirmCommit, ConfirmTooLate, CancelCommit,
     FreeAndCancel, RescheduleCommit, ToggleCommit, SweepCommit, Commit, End, Rollback
<1> QED
  BY <1>1 DEF WorkInv, CallsOK

(* The commit of a call that is up to date.                                *)
LEMMA CommitAsOneStep ==
  ASSUME WorkInv, NEW p \in Sessions, Writes(p), UNCHANGED world, UpToDate(p)
  PROVE  AsOneStep(txn[p])
<1>1. ASSUME NEW b \in BookingIds, HoldCommit(p, b)
      PROVE  txn[p].op = "hold" /\ Services!HoldSlot(txn[p].u, txn[p].s, b)
  BY <1>1, HoldAsOneStep DEF HoldCommit, At
<1>2. CASE ConfirmCommit(p) /\ StillPending(txn[p].b)
  BY <1>2, ConfirmAsOneStep DEF AsOneStep, ConfirmCommit, At
<1>3. CASE ConfirmTooLate(p)
  BY <1>3, TooLateAsOneStep DEF AsOneStep, ConfirmTooLate, At
<1>4. CASE CancelCommit(p)
  BY <1>4, CancelAsOneStep DEF AsOneStep, CancelCommit
<1>5. CASE RescheduleCommit(p)
  BY <1>5, RescheduleAsOneStep DEF AsOneStep, RescheduleCommit, At
<1>6. CASE ToggleCommit(p)
  BY <1>6, ToggleAsOneStep DEF AsOneStep, ToggleCommit, At
<1>7. CASE SweepCommit(p)
  BY <1>7, SweepAsOneStep DEF AsOneStep, SweepCommit, At
<1> QED
  BY <1>1, <1>2, <1>3, <1>4, <1>5, <1>6, <1>7 DEF Writes, AsOneStep

(* A call whose readings still hold when it commits is, in that one step,  *)
(* the call of Bookings with the same arguments, guards included.          *)
THEOREM SerialCallsHold == Spec => SerialCalls
<1>1. ASSUME WorkInv, [Next]_vars
      PROVE  \A p \in Sessions :
               /\ txn[p].op # "idle" /\ txn'[p] = Idle
               /\ UpToDate(p)
               => AsOneStep(txn[p]) \/ UNCHANGED tables
  <2> SUFFICES ASSUME NEW p \in Sessions, txn[p].op # "idle", txn'[p] = Idle, UpToDate(p),
                      ~(UNCHANGED tables)
               PROVE  AsOneStep(txn[p])
    OBVIOUS
  <2>1. txn'[p] # txn[p]
    BY DEF Idle
  <2>2. PICK q \in Sessions : SessionStart(q) \/ SessionStep(q)
    BY <1>1, <2>1, StepCases DEF vars, Tick
  <2>3. Writes(q) /\ UNCHANGED world
    BY <2>2, ReadsOrWrites DEF Reads
  <2>4. q = p
    BY <1>1, <2>1, <2>3, WritesEnd
  <2> QED
    BY <1>1, <2>3, <2>4, CommitAsOneStep
<1> QED
  BY WorkHolds, <1>1, PTL DEF Spec, SerialCalls

-----------------------------------------------------------------------------
(***************************************************************************)
(* Histories without races.                                                *)
(***************************************************************************)
(* It is a call that Bookings may make.                                    *)
LEMMA OneStepIsService ==
  ASSUME WorkInv, NEW p \in Sessions, Writes(p), AsOneStep(txn[p])
  PROVE  Services!Next
<1>1. /\ txn[p].op = "hold" => txn[p].u \in Users /\ txn[p].s \in SlotKey
      /\ txn[p].op \in BookingOps => txn[p].b \in BookingIds
      /\ txn[p].op = "reschedule" => txn[p].s \in SlotKey
      /\ txn[p].op = "toggle" => txn[p].s \in SlotKey
  BY CallFields DEF CallShape, HoldShape, BookingShape, ToggleShape, BookingOps
<1>0. SlotKey = Services!SlotKey
  BY DEF SlotKey, Services!SlotKey
<1>2. CASE txn[p].op = "hold"
  <2>1. PICK b \in BookingIds : Services!HoldSlot(txn[p].u, txn[p].s, b)
    BY <1>2 DEF AsOneStep
  <2>2. Services!ClientStep
    BY <1>0, <1>1, <1>2, <2>1 DEF Services!ClientStep
  <2> QED
    BY <2>2 DEF Services!Next
<1>3. CASE txn[p].op \in {"confirm", "client_cancel"}
  <2>1. Services!ClientStep
    BY <1>1, <1>3 DEF AsOneStep, BookingOps, Services!ClientStep
  <2> QED
    BY <2>1 DEF Services!Next
<1>4. CASE txn[p].op \in {"cancel", "toggle"}
  BY <1>0, <1>1, <1>4 DEF AsOneStep, BookingOps, Services!Next, Services!MasterStep
<1>5. CASE txn[p].op = "reschedule"
  <2>1. Services!MasterStep
    BY <1>0, <1>1, <1>5 DEF AsOneStep, BookingOps, Services!MasterStep
  <2> QED
    BY <2>1 DEF Services!Next
<1>6. CASE txn[p].op = "sweep"
  BY <1>6 DEF AsOneStep, Services!Next, Services!SchedulerStep
<1> QED
  BY <1>2, <1>3, <1>4, <1>5, <1>6 DEF AsOneStep

(* A history in which every call that writes does so on readings that      *)
(* still hold.                                                             *)
WritesOnCurrentReadings ==
  \A p \in Sessions :
    txn[p].op # "idle" /\ txn'[p] = Idle /\ ~(UNCHANGED tables) => UpToDate(p)

SerialHistory == [][WritesOnCurrentReadings]_vars

LEMMA SerialStep ==
  ASSUME WorkInv, [Next]_vars, [WritesOnCurrentReadings]_vars
  PROVE  [Services!Next]_(Services!vars)
<1>1. CASE UNCHANGED <<now, slots, bookings>>
  BY <1>1 DEF Services!vars
<1>2. CASE Tick
  <2>1. Services!Tick
    BY <1>2 DEF Tick, Services!Tick, Services!schedule, tables
  <2> QED
    BY <2>1 DEF Services!Next
<1>3. ASSUME NEW p \in Sessions, SessionStart(p) \/ SessionStep(p),
             ~(UNCHANGED <<now, slots, bookings>>)
      PROVE  Services!Next
  <2>1. Writes(p) /\ UNCHANGED world /\ ~(UNCHANGED tables)
    BY <1>3, ReadsOrWrites DEF Reads, world, tables
  <2>2. txn[p].op # "idle"
    BY <2>1 DEF Writes, HoldCommit, ConfirmCommit, ConfirmTooLate, CancelCommit,
       RescheduleCommit, ToggleCommit, SweepCommit, At
  <2>3. txn'[p] = Idle
    BY <2>1, WritesEnd DEF WorkInv, CallsOK
  <2>4. UpToDate(p)
    BY <2>1, <2>2, <2>3 DEF WritesOnCurrentReadings, vars
  <2> QED
    BY <2>1, <2>4, CommitAsOneStep, OneStepIsService
<1> QED
  BY <1>1, <1>2, <1>3, StepCases DEF vars, tables, world

(* Such a history is, on the tables, a history of whole calls: every step  *)
(* of it is a step of Bookings or leaves the tables alone.                 *)
THEOREM SerialHistoriesAreServices ==
  Spec /\ SerialHistory => [][Services!Next]_(Services!vars)
<1>1. WorkInv /\ [Next]_vars /\ [WritesOnCurrentReadings]_vars
        => [Services!Next]_(Services!vars)
  BY SerialStep
<1> QED
  BY WorkHolds, <1>1, PTL DEF Spec, SerialHistory

(* What is proved of Bookings, about these tables.                         *)
Schedule ==
  INSTANCE BookingsProofs WITH
    Hours <- {}, InitialSteps <- {DefaultStep},
    work_settings <- [open |-> 0, close |-> DayLength, step |-> DefaultStep],
    days <- Days, day_step <- [d \in Days |-> 0]

(* Services and Schedule are the same module under the same substitution:  *)
(* written out to the last operator, their formulas are the same text.     *)
LEMMA SameSchedule ==
  /\ Services!Next <=> Schedule!Next
  /\ Services!VisitOwnsSlot <=> Schedule!VisitOwnsSlot
  /\ Services!BusySlotHasBooking <=> Schedule!BusySlotHasBooking
BY DEF Services!SlotKey, Schedule!SlotKey, Services!LIVE_BOOKING_STATUSES,
   Schedule!LIVE_BOOKING_STATUSES, Services!BUSY_SLOT_STATUSES,
   Schedule!BUSY_SLOT_STATUSES, Services!NoTime, Schedule!NoTime,
   Services!AbsentSlot, Schedule!AbsentSlot, Services!FreeSlot,
   Schedule!FreeSlot, Services!BookedSlot, Schedule!BookedSlot,
   Services!HeldSlot, Schedule!HeldSlot, Services!AbsentBooking,
   Schedule!AbsentBooking, Services!PendingBooking, Schedule!PendingBooking,
   Services!IsLive, Schedule!IsLive, Services!IsPending, Schedule!IsPending,
   Services!Occupies, Schedule!Occupies, Services!GridTimes,
   Schedule!GridTimes, Services!SlotsNeeded, Schedule!SlotsNeeded,
   Services!VisitStart, Schedule!VisitStart, Services!VisitEnd,
   Schedule!VisitEnd, Services!Today, Schedule!Today,
   Services!IsEffectivelyFree, Schedule!IsEffectivelyFree,
   Services!IsBookableSlot, Schedule!IsBookableSlot, Services!HoldExpired,
   Schedule!HoldExpired, Services!Present, Schedule!Present,
   Services!ConsecutiveBlock, Schedule!ConsecutiveBlock,
   Services!LiveSlotsApart, Schedule!LiveSlotsApart,
   Services!LiveUsersApart, Schedule!LiveUsersApart,
   Services!UniqueLiveIndexes, Schedule!UniqueLiveIndexes,
   Services!Cardinality, Schedule!Cardinality, Services!IsFiniteSet,
   Schedule!IsFiniteSet, Services!vars, Schedule!vars, Services!schedule,
   Schedule!schedule, Services!StepForDay, Schedule!StepForDay,
   Services!BlockSlots, Schedule!BlockSlots, Services!LiveIds,
   Schedule!LiveIds, Services!LiveOf, Schedule!LiveOf, Services!PastIds,
   Schedule!PastIds, Services!FreeBlocks, Schedule!FreeBlocks,
   Services!WithStatus, Schedule!WithStatus, Services!Settle,
   Schedule!Settle, Services!Commit, Schedule!Commit,
   Services!OpenBookingForm, Schedule!OpenBookingForm, Services!HoldSlot,
   Schedule!HoldSlot, Services!MayHold, Schedule!MayHold,
   Services!HoldBlock, Schedule!HoldBlock, Services!PastOf, Schedule!PastOf,
   Services!BookingsWithHold, Schedule!BookingsWithHold,
   Services!HoldStands, Schedule!HoldStands,
   Services!ConfirmWithReceipt, Schedule!ConfirmWithReceipt,
   Services!ReceiptTooLate, Schedule!ReceiptTooLate,
   Services!AttachLateReceipt, Schedule!AttachLateReceipt,
   Services!CancelBooking, Schedule!CancelBooking, Services!CancelByClient,
   Schedule!CancelByClient, Services!SetWorkSettings,
   Schedule!SetWorkSettings, Services!AddDayFromDefaults,
   Schedule!AddDayFromDefaults, Services!Referenced, Schedule!Referenced,
   Services!RebuildFreeSlots, Schedule!RebuildFreeSlots,
   Services!SetDayHours, Schedule!SetDayHours, Services!ClearDayOverride,
   Schedule!ClearDayOverride, Services!DropDays, Schedule!DropDays,
   Services!DeleteDay, Schedule!DeleteDay, Services!ToggleSlotBlock,
   Schedule!ToggleSlotBlock, Services!Reschedule, Schedule!Reschedule,
   Services!Lapsed, Schedule!Lapsed, Services!ReleaseExpiredHolds,
   Schedule!ReleaseExpiredHolds, Services!SettlePastBookings,
   Schedule!SettlePastBookings, Services!PurgePastDays,
   Schedule!PurgePastDays, Services!Tick, Schedule!Tick,
   Services!ClientStep, Schedule!ClientStep, Services!MasterStep,
   Schedule!MasterStep, Services!SchedulerStep, Schedule!SchedulerStep,
   Services!Next, Schedule!Next, Services!Unfinished, Schedule!Unfinished,
   Services!VisitOwnsSlot, Schedule!VisitOwnsSlot,
   Services!BusySlotHasBooking, Schedule!BusySlotHasBooking

(* Its assumptions follow from those of this module.                       *)
LEMMA SameAssumptions ==
  /\ Schedule!IsFiniteSet(Starts)
  /\ {DefaultStep} \subseteq Nat \ {0}
  /\ Horizon \in Nat
BY DataAssumption, RacesAssumption DEF DataAssumption, Schedule!IsFiniteSet, IsFiniteSet

LEMMA ScheduleKept ==
  ASSUME Schedule!ScheduleInv, [Schedule!Next]_(Schedule!vars)
  PROVE  Schedule!ScheduleInv'
BY SameAssumptions, DataAssumption, Schedule!ScheduleStep DEF DataAssumption

LEMMA ScheduleOwns ==
  ASSUME Schedule!ScheduleInv
  PROVE  Services!VisitOwnsSlot /\ Services!BusySlotHasBooking
<1>1. Schedule!BusySlotHasBooking
  BY SameAssumptions, DataAssumption, Schedule!BusyRowsHaveBookings DEF DataAssumption
<1>2. Schedule!VisitOwnsSlot
  BY DEF Schedule!ScheduleInv
<1> QED
  BY <1>1, <1>2, SameSchedule

LEMMA ScheduleStarts ==
  ASSUME IndexesBuilt
  PROVE  Init => Schedule!ScheduleInv
<1> SUFFICES ASSUME Init PROVE Schedule!ScheduleInv
  OBVIOUS
<1>1. Schedule!SlotKey = SlotKey /\ Schedule!AbsentBooking = AbsentBooking
  BY DEF Schedule!SlotKey, SlotKey, Schedule!AbsentBooking, AbsentBooking
<1>2. FreeSlot \in Schedule!SlotRow
  BY DEF FreeSlot, Schedule!SlotRow, Schedule!SlotStatus, Schedule!NoTime, NoTime
<1>3. Schedule!TypeOK
  BY <1>1, <1>2, DataAssumption DEF Init, Schedule!TypeOK
<1>4. /\ \A b \in BookingIds : bookings[b].status = "absent"
      /\ \A s \in SlotKey : slots[s].status = "free"
  BY DEF Init, AbsentBooking, FreeSlot
<1>5. /\ Schedule!OneLiveBooking /\ Schedule!IndexesBuilt /\ Schedule!UniformStep /\ Schedule!BookingKeepsRow
      /\ Schedule!SlotOfOpenDay /\ Schedule!CompletedIsOver /\ Schedule!BusySlotOwned
      /\ Schedule!VisitOwnsSlot
  BY <1>1, <1>4 DEF Init, Schedule!OneLiveBooking, Schedule!LiveSlotsApart,
     Schedule!LiveUsersApart, Schedule!IndexesBuilt, IndexesBuilt, Schedule!IsLive,
     Schedule!LIVE_BOOKING_STATUSES, Schedule!UniformStep, Schedule!BookingKeepsRow,
     Schedule!SlotOfOpenDay, SlotKey, Schedule!CompletedIsOver, Schedule!BusySlotOwned,
     Schedule!BUSY_SLOT_STATUSES, Schedule!VisitOwnsSlot, Schedule!Unfinished
<1> QED
  BY <1>3, <1>5 DEF Schedule!ScheduleInv

(* So it loses no visit and leaks no slot: what the races of this module   *)
(* do to the schedule, they do by a commit on a reading that is out of     *)
(* date.                                                                   *)
THEOREM SerialHistoriesKeepSchedule ==
  ASSUME IndexesBuilt
  PROVE  Spec /\ SerialHistory => [](Services!VisitOwnsSlot /\ Services!BusySlotHasBooking)
<1>1. ASSUME WorkInv, [Next]_vars, Schedule!ScheduleInv, [WritesOnCurrentReadings]_vars
      PROVE  Schedule!ScheduleInv'
  <2>1. [Services!Next]_(Services!vars)
    BY <1>1, SerialStep
  <2>2. [Schedule!Next]_(Schedule!vars)
    BY <2>1, SameSchedule DEF Services!vars, Schedule!vars
  <2> QED
    BY <1>1, <2>2, ScheduleKept
<1> QED
  BY WorkHolds, ScheduleStarts, ScheduleOwns, <1>1, PTL DEF Spec, SerialHistory

(***************************************************************************)
(* Calls one at a time make such a history.                                *)
(***************************************************************************)
Busy(p) == txn[p].op # "idle"

(* While a call is in flight nobody else does anything and the clock       *)
(* stands, as if the event loop ran each handler and job to its end.       *)
NothingBetween ==
  \A p \in Sessions :
    Busy(p) => now' = now /\ \A q \in Sessions \ {p} : txn'[q] = txn[q]

OneAtATime == [][NothingBetween]_vars

(* What a call in flight has read so far is what it would read now.        *)
Fresh(c) ==
  /\ c.t = now
  /\ \A s \in DOMAIN c.sl : c.sl[s] = slots[s]
  /\ \A b \in DOMAIN c.bk : c.bk[b] = bookings[b]
  /\ c.op = "hold" => /\ ~HasLiveBooking(c.u)
                      /\ DOMAIN c.bk = IF c.step = "commit" THEN PendingOn({c.s})
                                       ELSE {}
  /\ c.op = "client_cancel" => MayCancel(c.b)
  /\ c.op = "sweep" => /\ DOMAIN c.sl = Expired
                       /\ DOMAIN c.bk = IF c.step = "commit"
                                        THEN PendingOn(DOMAIN c.sl) ELSE {}

BusyFresh == \A p \in Sessions : Busy(p) => Fresh(txn[p])

(* A call starts with the clock and the rows of the moment.                *)
LEMMA NewCallFresh ==
  ASSUME WorkInv, NEW p \in Sessions, SessionStart(p)
  PROVE  Fresh(txn'[p])
<1>0. txn \in [Sessions -> Calls]
  BY DEF WorkInv, CallsOK
<1>1. ASSUME NEW u \in Users, NEW s \in SlotKey, HoldStart(p, u, s)
      PROVE  Fresh(txn'[p])
  <2>1. txn'[p] = Call("hold", "slot", u, Null, s) /\ ~HasLiveBooking(u)
    BY <1>0, <1>1 DEF HoldStart, Start
  <2>2. /\ "hold" \in AllOps /\ "slot" \in Steps /\ Null \in BookingIds \cup {Null}
        /\ u \in Users \cup {Null} /\ s \in SlotKey \cup {Null}
    BY DEF AllOps, Steps
  <2>3. /\ DOMAIN txn'[p].bk = {} /\ DOMAIN txn'[p].sl = {} /\ txn'[p].op = "hold"
        /\ txn'[p].step = "slot" /\ txn'[p].u = u /\ txn'[p].t = now
    BY <2>1, <2>2, CallMade
  <2> QED
    BY <2>1, <2>3 DEF Fresh
<1>2. ASSUME NEW op \in BookingOps, NEW b \in BookingIds, NEW s \in SlotKey \cup {Null},
             bookings[b] \in GridVisit, op = "client_cancel" => MayCancel(b),
             Start(p, Call(op, "booking", bookings[b].user, b, s))
      PROVE  Fresh(txn'[p])
  <2>1. txn'[p] = Call(op, "booking", bookings[b].user, b, s)
    BY <1>0, <1>2 DEF Start
  <2>2. bookings[b].user \in Users /\ op \in AllOps /\ "booking" \in Steps
    BY <1>2, RowOfLive DEF BookingOps, AllOps, Steps
  <2>3. /\ txn'[p] \in Calls /\ DOMAIN txn'[p].bk = {} /\ DOMAIN txn'[p].sl = {}
        /\ txn'[p].op = op /\ txn'[p].step = "booking" /\ txn'[p].u = bookings[b].user
        /\ txn'[p].b = b /\ txn'[p].s = s /\ txn'[p].t = now
    BY <2>1, <2>2, CallMade
  <2> QED
    BY <1>2, <2>3 DEF Fresh, BookingOps
<1>3. ASSUME NEW op \in {"toggle", "sweep"}, NEW step \in {"commit", "pending"},
             NEW s \in SlotKey \cup {Null}, NEW S \in SUBSET SlotKey,
             op = "sweep" => S = Expired /\ step = "pending",
             Start(p, LoadSlots(Call(op, step, Null, Null, s), S))
      PROVE  Fresh(txn'[p])
  <2> DEFINE c == Call(op, step, Null, Null, s)
  <2>1. txn'[p] = LoadSlots(c, S)
    BY <1>0, <1>3 DEF Start
  <2>2. /\ op \in AllOps /\ step \in Steps /\ Null \in BookingIds \cup {Null}
        /\ Null \in Users \cup {Null}
    BY DEF AllOps, Steps
  <2>3. /\ c \in Calls /\ DOMAIN c.bk = {} /\ DOMAIN c.sl = {} /\ c.op = op
        /\ c.step = step /\ c.t = now
    BY <2>2, CallMade
  <2> HIDE DEF c
  <2>4. LET d == LoadSlots(c, S) IN
        /\ Same(c, d) /\ d.step = c.step /\ d.bk = c.bk
        /\ DOMAIN d.sl = S \cup DOMAIN c.sl
        /\ \A x \in S : d.sl[x] = slots[x]
    BY <2>3, SlotsLoaded
  <2> QED
    BY <1>3, <2>1, <2>3, <2>4 DEF Fresh, Same
<1>4. ASSUME NEW s \in SlotKey, ToggleStart(p, s)
      PROVE  Fresh(txn'[p])
  BY <1>3, <1>4 DEF ToggleStart
<1>5. CASE SweepStart(p)
  <2> DEFINE S == Expired
  <2>1. S \in SUBSET SlotKey /\ Start(p, LoadSlots(Call("sweep", "pending", Null, Null, Null), S))
    BY <1>5 DEF SweepStart, Expired
  <2>2. S = Expired
    OBVIOUS
  <2> HIDE DEF S
  <2> QED
    BY <1>3, <2>1, <2>2
<1>6. ASSUME NEW b \in BookingIds,
             ConfirmStart(p, b) \/ CancelStart(p, b) \/ ClientCancelStart(p, b)
      PROVE  Fresh(txn'[p])
  <2>1. bookings[b] \in GridVisit
    BY <1>6, RowOfLive DEF ConfirmStart, CancelStart, ClientCancelStart, MayCancel
  <2>2. PICK op \in {"confirm", "cancel", "client_cancel"} :
          /\ op = "client_cancel" => MayCancel(b)
          /\ Start(p, Call(op, "booking", bookings[b].user, b, Null))
    BY <1>6 DEF ConfirmStart, CancelStart, ClientCancelStart
  <2>3. op \in BookingOps
    BY DEF BookingOps
  <2> QED
    BY <1>2, <2>1, <2>2, <2>3
<1>7. ASSUME NEW b \in BookingIds, NEW s \in SlotKey, RescheduleStart(p, b, s)
      PROVE  Fresh(txn'[p])
  <2>1. bookings[b] \in GridVisit /\ "reschedule" \in BookingOps
    BY <1>7, RowOfLive DEF RescheduleStart, BookingOps
  <2> QED
    BY <1>2, <1>7, <2>1 DEF RescheduleStart
<1> QED
  BY <1>1, <1>4, <1>5, <1>6, <1>7 DEF SessionStart

(* Another read adds rows of the moment.                                   *)
LEMMA ReadFresh ==
  ASSUME WorkInv, NEW p \in Sessions, SessionStep(p), Reads, Fresh(txn[p])
  PROVE  txn'[p] = Idle \/ Fresh(txn'[p])
<1> DEFINE c == txn[p]
           d == txn'[p]
<1>0. txn \in [Sessions -> Calls] /\ c \in Calls /\ CallShape(c)
  BY CallFields DEF WorkInv, CallsOK, CallShape
<1>1. ASSUME End(p) PROVE d = Idle
  BY <1>0, <1>1 DEF End
<1>2. ASSUME NEW new \in Calls, NEW step \in Steps, Continue(p, new, step)
      PROVE  /\ Same(new, d) /\ d.step = step /\ d.sl = new.sl /\ d.bk = new.bk
  <2>1. d = StepTo(new, step)
    BY <1>0, <1>2 DEF Continue, StepTo
  <2> QED
    BY <2>1, StepMade
<1>s. /\ "stale" \in Steps /\ "old_slot" \in Steps /\ "day" \in Steps
      /\ "new_slot" \in Steps /\ "commit" \in Steps
  BY DEF Steps
<1>3. ASSUME NEW S \in SUBSET SlotKey, NEW rows \in SUBSET (SlotKey \cup BookingIds),
             NEW step \in Steps, Continue(p, Lock(LoadSlots(c, S), rows), step),
             c.op # "sweep",
             c.op = "hold" => c.step # "commit" /\ step # "commit"
      PROVE  Fresh(d)
  <2> DEFINE c1 == LoadSlots(c, S)
             c2 == Lock(c1, rows)
  <2>1. /\ c1 \in Calls /\ Same(c, c1) /\ c1.bk = c.bk
        /\ DOMAIN c1.sl = S \cup DOMAIN c.sl /\ \A s \in S : c1.sl[s] = slots[s]
        /\ \A s \in DOMAIN c.sl : s \notin S => c1.sl[s] = c.sl[s]
    BY <1>0, SlotsLoaded
  <2> HIDE DEF c1
  <2>2. c2 \in Calls /\ Same(c1, c2) /\ c2.sl = c1.sl /\ c2.bk = c1.bk
    BY <2>1, LockMade
  <2> HIDE DEF c2
  <2>3. Same(c2, d) /\ d.step = step /\ d.sl = c2.sl /\ d.bk = c2.bk
    BY <1>2, <1>3, <2>2 DEF c1, c2
  <2>4. \A s \in DOMAIN d.sl : d.sl[s] = slots[s]
    BY <2>1, <2>2, <2>3 DEF Fresh
  <2> QED
    BY <1>3, <2>1, <2>2, <2>3, <2>4 DEF Fresh, Same
<1>4. ASSUME NEW B \in SUBSET BookingIds, \A b \in B : bookings[b] \in GridVisit,
             DOMAIN c.bk = {}, Continue(p, LoadBookings(c, B), "commit"),
             c.op = "hold" => B = PendingOn({c.s}),
             c.op = "sweep" => B = PendingOn(DOMAIN c.sl)
      PROVE  Fresh(d)
  <2> DEFINE c1 == LoadBookings(c, B)
  <2>1. /\ c1 \in Calls /\ Same(c, c1) /\ c1.sl = c.sl /\ DOMAIN c1.bk = B \cup DOMAIN c.bk
        /\ \A b \in B : c1.bk[b] = bookings[b]
    BY <1>0, <1>4, BookingsLoaded
  <2> HIDE DEF c1
  <2>2. Same(c1, d) /\ d.step = "commit" /\ d.sl = c1.sl /\ d.bk = c1.bk
    BY <1>2, <1>4, <1>s, <2>1 DEF c1
  <2> QED
    BY <1>4, <2>1, <2>2 DEF Fresh, Same
<1>5. CASE HoldLoadSlot(p)
  <2>1. HoldShape(c) /\ c.op = "hold" /\ c.step = "slot"
    BY <1>0, <1>5 DEF HoldLoadSlot, At, CallShape
  <2>2. {c.s} \in SUBSET SlotKey /\ {c.s} \in SUBSET (SlotKey \cup BookingIds)
    BY <2>1 DEF HoldShape
  <2>3. CASE Rollback(p)
    BY <1>1, <2>3 DEF Rollback
  <2>4. CASE Continue(p, Lock(LoadSlots(c, {c.s}), {c.s}), "stale")
    BY <1>3, <1>s, <2>1, <2>2, <2>4
  <2> QED
    BY <1>5, <2>3, <2>4 DEF HoldLoadSlot
<1>6. CASE HoldLoadStale(p)
  <2> DEFINE B == PendingOn({c.s})
  <2>1. c.op = "hold" /\ DOMAIN c.bk = {} /\ Continue(p, LoadBookings(c, B), "commit")
    BY <1>6 DEF HoldLoadStale, At, Fresh
  <2>2. B \in SUBSET BookingIds /\ \A b \in B : bookings[b] \in GridVisit
    BY RowOfLive DEF PendingOn
  <2>3. B = PendingOn({c.s})
    OBVIOUS
  <2> HIDE DEF B
  <2> QED
    BY <1>4, <2>1, <2>2, <2>3
<1>7. CASE SweepLoadPending(p)
  <2> DEFINE B == PendingOn(DOMAIN c.sl)
  <2>1. c.op = "sweep" /\ DOMAIN c.bk = {} /\ Continue(p, LoadBookings(c, B), "commit")
    BY <1>7 DEF SweepLoadPending, At, Fresh
  <2>2. B \in SUBSET BookingIds /\ \A b \in B : bookings[b] \in GridVisit
    BY RowOfLive DEF PendingOn
  <2>3. B = PendingOn(DOMAIN c.sl)
    OBVIOUS
  <2> HIDE DEF B
  <2> QED
    BY <1>4, <2>1, <2>2, <2>3
<1>8. CASE LoadBooking(p)
  <2>1. BookingShape(c) /\ c.op \in BookingOps /\ c.step = "booking"
    BY <1>8, BookingCalls DEF LoadBooking
  <2>2. CASE Rollback(p)
    BY <1>1, <2>2 DEF Rollback
  <2>3. CASE Continue(p, Lock(LoadBookings(c, {c.b}), {c.b}), "old_slot")
    <3> DEFINE c1 == LoadBookings(c, {c.b})
               c2 == Lock(c1, {c.b})
    <3>1. /\ {c.b} \in SUBSET BookingIds /\ \A b \in {c.b} : bookings[b] \in GridVisit
          /\ DOMAIN c.bk = {} /\ {c.b} \in SUBSET (SlotKey \cup BookingIds)
      BY <2>1 DEF BookingShape
    <3>2. /\ c1 \in Calls /\ Same(c, c1) /\ c1.sl = c.sl
          /\ DOMAIN c1.bk = {c.b} \cup DOMAIN c.bk /\ c1.bk[c.b] = bookings[c.b]
      BY <1>0, <3>1, BookingsLoaded
    <3> HIDE DEF c1
    <3>3. c2 \in Calls /\ Same(c1, c2) /\ c2.sl = c1.sl /\ c2.bk = c1.bk
      BY <3>1, <3>2, LockMade
    <3> HIDE DEF c2
    <3>4. Same(c2, d) /\ d.sl = c2.sl /\ d.bk = c2.bk
      BY <1>2, <1>s, <2>3, <3>3 DEF c1, c2
    <3> QED
      BY <2>1, <3>1, <3>2, <3>3, <3>4 DEF Fresh, Same, BookingOps
  <2> QED
    BY <1>8, <2>2, <2>3 DEF LoadBooking
<1>9. CASE LoadOldSlot(p)
  <2> DEFINE old == c.bk[c.b].slot
             c1 == LoadSlots(c, {old})
  <2>1. BookingShape(c) /\ c.op \in BookingOps /\ c.step = "old_slot"
    BY <1>9, BookingCalls DEF LoadOldSlot
  <2>2. old \in SlotKey /\ DOMAIN c.sl = {}
    BY <2>1, LoadedSlot DEF BookingShape
  <2>3. /\ c1 \in Calls /\ Same(c, c1) /\ c1.bk = c.bk
        /\ DOMAIN c1.sl = {old} \cup DOMAIN c.sl
        /\ \A s \in {old} : c1.sl[s] = slots[s]
    <3>1. {old} \in SUBSET SlotKey
      BY <2>2
    <3> HIDE DEF old
    <3> QED
      BY <1>0, <3>1, SlotsLoaded
  <2>4. PICK step \in {"day", "commit"} : Continue(p, c1, step)
    BY <1>9 DEF LoadOldSlot
  <2> HIDE DEF c1, old
  <2>5. Same(c1, d) /\ d.sl = c1.sl /\ d.bk = c1.bk
    BY <1>2, <1>s, <2>3, <2>4
  <2> QED
    BY <2>1, <2>2, <2>3, <2>5 DEF Fresh, Same, BookingOps
<1>12. CASE RescheduleLoadDay(p)
  <2> DEFINE S == {s \in {c.s} : s[1] = c.bk[c.b].slot[1] /\ s # c.bk[c.b].slot}
             c1 == LoadSlots(c, S)
  <2>1. BookingShape(c) /\ c.op = "reschedule"
    BY <1>12, BookingCalls DEF RescheduleLoadDay, At
  <2>2. S \in SUBSET SlotKey
    BY <2>1 DEF BookingShape
  <2>3. Continue(p, c1, "new_slot")
    BY <1>12 DEF RescheduleLoadDay
  <2> HIDE DEF S
  <2>4. /\ c1 \in Calls /\ Same(c, c1) /\ c1.bk = c.bk
        /\ DOMAIN c1.sl = S \cup DOMAIN c.sl /\ \A s \in S : c1.sl[s] = slots[s]
        /\ \A s \in DOMAIN c.sl : s \notin S => c1.sl[s] = c.sl[s]
    BY <1>0, <2>2, SlotsLoaded
  <2> HIDE DEF c1
  <2>5. Same(c1, d) /\ d.sl = c1.sl /\ d.bk = c1.bk
    BY <1>2, <1>s, <2>3, <2>4
  <2>6. \A s \in DOMAIN d.sl : d.sl[s] = slots[s]
    BY <2>4, <2>5 DEF Fresh
  <2> QED
    BY <2>1, <2>4, <2>5, <2>6 DEF Fresh, Same, BookingOps
<1>10. CASE RescheduleLoadSlot(p)
  <2>1. BookingShape(c) /\ c.op = "reschedule"
    BY <1>10, BookingCalls DEF RescheduleLoadSlot, At
  <2>2. CASE Rollback(p)
    BY <1>1, <2>2 DEF Rollback
  <2>3. CASE Continue(p, Lock(LoadSlots(c, {c.s} \ DOMAIN c.sl), {c.s}), "commit")
    <3> DEFINE S == {c.s} \ DOMAIN c.sl
    <3>1. S \in SUBSET SlotKey /\ {c.s} \in SUBSET (SlotKey \cup BookingIds)
      BY <2>1 DEF BookingShape
    <3> HIDE DEF S
    <3>2. Continue(p, Lock(LoadSlots(c, S), {c.s}), "commit")
      BY <2>3 DEF S
    <3> QED
      BY <1>3, <1>s, <2>1, <3>1, <3>2
  <2> QED
    BY <1>10, <2>2, <2>3 DEF RescheduleLoadSlot
<1>11. CASE Abandon(p) \/ Writes(p) \/ ConfirmCommit(p)
  BY <1>1, <1>11 DEF Abandon, Rollback, Writes, HoldCommit, ConfirmCommit, ConfirmTooLate,
     CancelCommit, FreeAndCancel, RescheduleCommit, ToggleCommit, SweepCommit, Commit
<1> QED
  BY <1>5, <1>6, <1>7, <1>8, <1>9, <1>10, <1>11, <1>12 DEF SessionStep, Writes

(* Only a call in flight reads or writes.                                  *)
LEMMA WritesAreBusy ==
  ASSUME NEW p \in Sessions, Writes(p)
  PROVE  Busy(p)
BY DEF Busy, Writes, HoldCommit, ConfirmCommit, ConfirmTooLate, CancelCommit,
   RescheduleCommit, ToggleCommit, SweepCommit, At

LEMMA StepsAreBusy ==
  ASSUME WorkInv, NEW p \in Sessions, SessionStep(p)
  PROVE  Busy(p)
<1>1. CASE LoadBooking(p) \/ LoadOldSlot(p)
  BY <1>1, BookingCalls DEF LoadBooking, LoadOldSlot, BookingOps, Busy
<1>2. CASE HoldLoadSlot(p) \/ HoldLoadStale(p) \/ SweepLoadPending(p)
           \/ RescheduleLoadDay(p) \/ RescheduleLoadSlot(p) \/ ConfirmCommit(p) \/ Abandon(p)
  BY <1>2 DEF HoldLoadSlot, HoldLoadStale, SweepLoadPending, RescheduleLoadDay, RescheduleLoadSlot,
     ConfirmCommit, Abandon, At, Busy
<1>3. CASE Writes(p)
  BY <1>3, WritesAreBusy
<1> QED
  BY <1>1, <1>2, <1>3 DEF SessionStep, Writes

(* With nothing between them, the readings of a call stay fresh until it   *)
(* ends.                                                                   *)
LEMMA FreshStep ==
  ASSUME WorkInv, BusyFresh, [Next]_vars, [NothingBetween]_vars
  PROVE  BusyFresh'
<1> SUFFICES ASSUME NEW q \in Sessions, Busy(q)' PROVE Fresh(txn[q])'
  BY DEF BusyFresh
<1>1. ASSUME UNCHANGED <<now, slots, bookings>>
      PROVE  Fresh(txn[q])' <=> Fresh(txn'[q])
  BY <1>1 DEF Fresh, HasLiveBooking, PendingOn, MayCancel, Expired
<1>2. ASSUME UNCHANGED <<now, slots, bookings>>, txn'[q] = txn[q]
      PROVE  Fresh(txn[q])'
  BY <1>1, <1>2 DEF BusyFresh, Busy
<1>3. CASE UNCHANGED vars
  BY <1>2, <1>3 DEF vars, world, tables
<1>4. CASE Tick
  <2>1. Busy(q) /\ now' # now
    BY <1>4 DEF Tick, Busy, WorkInv, TablesOK
  <2>2. NothingBetween
    BY <2>1 DEF vars, world
  <2> QED
    BY <2>1, <2>2 DEF NothingBetween
<1>5. ASSUME NEW p \in Sessions, SessionStart(p) \/ SessionStep(p), ~(UNCHANGED vars)
      PROVE  Fresh(txn[q])'
  <2>1. NothingBetween
    BY <1>5
  <2>2. CASE Reads
    <3>1. /\ UNCHANGED <<now, slots, bookings>>
          /\ txn' = [txn EXCEPT ![p] = txn'[p]] /\ txn \in [Sessions -> Calls]
      BY <1>5, <2>2, NewCall, ReadCall DEF Reads, world, tables, WorkInv, CallsOK
    <3>2. CASE q # p
      BY <1>2, <3>1, <3>2
    <3>3. CASE q = p /\ SessionStart(p)
      BY <1>1, <3>1, <3>3, NewCallFresh
    <3>4. CASE q = p /\ SessionStep(p)
      <4>1. txn'[p] # Idle
        BY <3>4 DEF Busy, Idle
      <4>2. Busy(p)
        BY <3>4, StepsAreBusy
      <4> QED
        BY <1>1, <2>2, <3>1, <3>4, <4>1, <4>2, ReadFresh DEF BusyFresh
    <3> QED
      BY <1>5, <3>2, <3>3, <3>4
  <2>3. CASE Writes(p) /\ UNCHANGED world
    <3>1. /\ txn'[p] = Idle /\ \A r \in Sessions \ {p} : txn'[r] = txn[r]
      BY <2>3, WritesEnd DEF WorkInv, CallsOK
    <3>2. q # p /\ Busy(q)
      BY <3>1 DEF Busy, Idle
    <3>3. txn[p].op # "idle" /\ txn'[p] = txn[p]
      BY <2>1, <2>3, <3>2, WritesAreBusy DEF NothingBetween, Busy
    <3> QED
      BY <3>1, <3>3 DEF Idle
  <2> QED
    BY <1>5, <2>2, <2>3, ReadsOrWrites
<1> QED
  BY <1>3, <1>4, <1>5, StepCases

(* Calls that do not overlap, while the clock stands, read nothing that is *)
(* out of date when they write: such a history is one without races.       *)
THEOREM CallsOneAtATimeAreSerial == Spec /\ OneAtATime => SerialHistory
<1>1. Init => BusyFresh
  BY DEF Init, BusyFresh, Busy, Idle
<1>2. WorkInv /\ BusyFresh /\ [Next]_vars /\ [NothingBetween]_vars => BusyFresh'
  BY FreshStep
<1>3. ASSUME WorkInv, BusyFresh, [Next]_vars
      PROVE  [WritesOnCurrentReadings]_vars
  <2> SUFFICES ASSUME NEW p \in Sessions, txn[p].op # "idle", txn'[p] = Idle,
                      ~(UNCHANGED tables)
               PROVE  UpToDate(p)
    BY DEF WritesOnCurrentReadings
  <2>1. PICK q \in Sessions : SessionStart(q) \/ SessionStep(q)
    BY <1>3, StepCases DEF vars, Tick
  <2>2. Writes(q)
    BY <2>1, ReadsOrWrites DEF Reads
  <2>3. q = p
    <3>1. txn'[p] # txn[p]
      BY DEF Idle
    <3> QED
      BY <1>3, <2>2, <3>1, WritesEnd
  <2>4. txn[p].op \in {"hold", "sweep"} => txn[p].step = "commit"
    BY <2>2, <2>3 DEF Writes, HoldCommit, ConfirmCommit, ConfirmTooLate, CancelCommit,
       RescheduleCommit, ToggleCommit, SweepCommit, At
  <2>5. Fresh(txn[p])
    BY <1>3 DEF BusyFresh, Busy
  <2> QED
    BY <2>4, <2>5 DEF Fresh, UpToDate, Outdated
<1> QED
  BY WorkHolds, <1>1, <1>2, <1>3, PTL DEF Spec, OneAtATime, SerialHistory

=============================================================================
