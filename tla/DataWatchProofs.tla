--------------------------- MODULE DataWatchProofs ---------------------------
(***************************************************************************)
(* The watch over the data, for tables of any size, any number of copies   *)
(* and any thresholds: a copy that was verified stays while the bot        *)
(* believes in one, and a loss is not overlooked.  The first needs that    *)
(* the rotation keeps the youngest file; the second, that what a failed    *)
(* check forgets is on the account of an alarm.                            *)
(***************************************************************************)
EXTENDS DataWatch, SequenceTheorems, TLAPS

CheckReports ==
  [step : {"off", "idle", "collect", "loss", "stale", "store"},
   rows : Nat, previous : Nat, counted : BOOLEAN,
   unread : BOOLEAN, undated : BOOLEAN, boot : BOOLEAN]

(* A check that is not under way, and a bot that is down, have reports too. *)
LEMMA ReportsTyped ==
  /\ NoCheck \in CheckReports /\ Off \in CheckReports
  /\ NoCheck.step = "idle" /\ Off.step = "off"
BY DEF NoCheck, Off, CheckReports

(* A report of which only the step is changed.                             *)
LEMMA NextStepTyped ==
  ASSUME NEW c \in CheckReports,
         NEW step \in {"off", "idle", "collect", "loss", "stale", "store"}
  PROVE  [c EXCEPT !.step = step] \in CheckReports
BY DEF CheckReports

-----------------------------------------------------------------------------
(* The rotation keeps the youngest file, however few are to be kept.       *)
LEMMA RotateKeepsYoungest ==
  ASSUME NEW files \in Seq(BOOLEAN), Len(files) > 0
  PROVE  /\ Rotate(files) \in Seq(BOOLEAN)
         /\ Len(Rotate(files)) \in DOMAIN Rotate(files)
         /\ Rotate(files)[Len(Rotate(files))] = files[Len(files)]
<1> DEFINE keep == IF KEEP_BACKUPS < 1 THEN 1 ELSE KEEP_BACKUPS
           first == Len(files) - keep + 1
<1>1. keep \in Nat /\ keep >= 1
  BY DataWatchAssumption
<1>2. Len(files) \in Nat
  OBVIOUS
<1>3. CASE Len(files) <= keep
  <2>1. Rotate(files) = files
    BY <1>3 DEF Rotate
  <2> QED
    BY <2>1
<1>4. CASE ~(Len(files) <= keep)
  <2>1. Rotate(files) = SubSeq(files, first, Len(files))
    BY <1>4 DEF Rotate
  <2> HIDE DEF keep
  <2>2. first \in 1..Len(files)
    BY <1>1, <1>2, <1>4
  <2> HIDE DEF first
  <2>3. /\ SubSeq(files, first, Len(files)) \in Seq(BOOLEAN)
        /\ Len(SubSeq(files, first, Len(files))) = Len(files) - first + 1
        /\ \A i \in 1..(Len(files) - first + 1) :
             SubSeq(files, first, Len(files))[i] = files[first + i - 1]
    BY <1>2, <2>2, SubSeqProperties
  <2>4. Len(files) - first + 1 \in 1..(Len(files) - first + 1)
    BY <1>2, <2>2
  <2>5. first + (Len(files) - first + 1) - 1 = Len(files)
    BY <1>2, <2>2
  <2> QED
    BY <2>1, <2>3, <2>4, <2>5
<1> QED
  BY <1>3, <1>4

(* A backup that succeeds leaves a verified copy in the directory.         *)
LEMMA FreshCopy ==
  ASSUME copies \in Seq(BOOLEAN), CreateBackup
  PROVE  copies' \in Seq(BOOLEAN) /\ \E i \in DOMAIN copies' : copies'[i]
<1>1. /\ Append(copies, TRUE) \in Seq(BOOLEAN)
      /\ Len(Append(copies, TRUE)) > 0
      /\ Append(copies, TRUE)[Len(Append(copies, TRUE))] = TRUE
  OBVIOUS
<1>2. copies' = Rotate(Append(copies, TRUE))
  BY DEF CreateBackup, Copying
<1> QED
  BY <1>1, <1>2, RotateKeepsYoungest

-----------------------------------------------------------------------------
(* The types.                                                              *)
LEMMA SentAtTyped ==
  ASSUME sent_at \in [Topics -> 0..Cooldown], NEW k \in Topics, SendToTelegram(k)
  PROVE  sent_at' \in [Topics -> 0..Cooldown]
BY DataWatchAssumption DEF SendToTelegram

LEMMA TypeInit ==
  ASSUME Init
  PROVE  TypeOK
BY ReportsTyped, DataWatchAssumption DEF Init, TypeOK, CheckReports, Forgotten, Topics, Never

LEMMA TypeStep ==
  ASSUME TypeOK, [Next]_vars
  PROVE  TypeOK'
<1> USE DataWatchAssumption
<1>1. CASE UNCHANGED vars
  BY <1>1 DEF TypeOK, vars, disk, history
<1>2. CASE AddBooking \/ RemoveBookings \/ WipeSchedule
  <2>1. PICK n \in Nat : SetRows(n)
    <3>1. ASSUME NEW n \in 1..(rows - 1), SetRows(n)
          PROVE  n \in Nat
      OBVIOUS
    <3> QED
      BY <1>2, <3>1 DEF TypeOK, AddBooking, RemoveBookings, WipeSchedule
  <2> QED
    BY <2>1 DEF TypeOK, SetRows, history
<1>3. CASE DailyHealth
  BY <1>3, ReportsTyped, NextStepTyped DEF TypeOK, DailyHealth, CheckReports, disk, history
<1>4. CASE Collect
  <2>1. PICK counted \in BOOLEAN, unread \in BOOLEAN, undated \in BOOLEAN :
          check' = [check EXCEPT !.step = "loss",
                      !.counted = counted, !.rows = IF counted THEN rows ELSE 0,
                      !.unread = unread,
                      !.previous = IF unread THEN 0 ELSE bookings_seen,
                      !.undated = undated]
    BY <1>4 DEF Collect
  <2>2. check' \in CheckReports
    BY <2>1 DEF TypeOK, CheckReports
  <2> QED
    BY <1>4, <2>2 DEF TypeOK, Collect, CheckReports, disk, history
<1>5. CASE AlertOnDataLoss
  <2>1. sent_at' \in [Topics -> 0..Cooldown]
    BY <1>5 DEF TypeOK, AlertOnDataLoss
  <2>2. check' \in CheckReports
    BY <1>5, NextStepTyped DEF TypeOK, AlertOnDataLoss, CheckReports
  <2>3. /\ alarmed' \subseteq {"db.empty", "db.shrank"}
        /\ unheard' \subseteq {"refused", "suppressed"}
    BY <1>5 DEF TypeOK, AlertOnDataLoss, Loss
  <2> QED
    BY <1>5, <2>1, <2>2, <2>3 DEF TypeOK, AlertOnDataLoss, CheckReports, disk
<1>6. CASE BackupInOrder \/ AlertOnStaleBackup
  <2>1. sent_at' \in [Topics -> 0..Cooldown]
    BY <1>6, SentAtTyped DEF TypeOK, BackupInOrder, AlertOnStaleBackup, Topics
  <2>2. check' \in CheckReports
    BY <1>6, NextStepTyped DEF TypeOK, BackupInOrder, AlertOnStaleBackup, CheckReports
  <2> QED
    BY <1>6, <2>1, <2>2
    DEF TypeOK, BackupInOrder, AlertOnStaleBackup, CheckReports, disk, history
<1>7. CASE StoreSeen \/ StoreFails
  BY <1>7, ReportsTyped
  DEF TypeOK, StoreSeen, StoreFails, Recorded, CheckReports, disk, history
<1>8. CASE StartBackup
  <2>1. copies' \in Seq(BOOLEAN)
    <3>1. CASE CreateBackup
      BY <3>1, FreshCopy DEF TypeOK
    <3>2. CASE SnapshotFails
      BY <3>2 DEF TypeOK, SnapshotFails, Copying
    <3>3. CASE CopyRejected
      BY <3>3, AppendProperties DEF TypeOK, CopyRejected, Copying
    <3> QED
      BY <1>8, <3>1, <3>2, <3>3 DEF StartBackup
  <2> QED
    BY <1>8, <2>1
    DEF TypeOK, StartBackup, CreateBackup, CopyRejected, SnapshotFails, Copying, history
<1>9. CASE Backup
  <2>1. CASE RememberBackup
    <3>1. last_backup' \in {Never} \cup 0..BACKUP_STALE_AFTER
      BY <2>1 DEF TypeOK, RememberBackup
    <3> QED
      BY <2>1, <3>1 DEF TypeOK, RememberBackup, history
  <2>2. CASE CopyDelivered \/ NotDelivered \/ BackupAlert
    BY <2>2 DEF TypeOK, CopyDelivered, NotDelivered, BackupAlert, BackupStep, disk,
       history
  <2> QED
    BY <1>9, <2>1, <2>2 DEF Backup
<1>10. CASE Crash \/ CrashLosingDisk
  <2>1. sent_at' \in [Topics -> 0..Cooldown]
    BY <1>10 DEF Crash, CrashLosingDisk, Die, Forgotten
  <2>2. copies' \in Seq(BOOLEAN)
    BY <1>10, EmptySeq DEF TypeOK, Crash, CrashLosingDisk, disk
  <2>3. check' \in CheckReports
    BY <1>10, ReportsTyped DEF Crash, CrashLosingDisk, Die
  <2>4. blind' \subseteq {"unread", "disk"}
    BY <1>10 DEF TypeOK, Crash, CrashLosingDisk
  <2>5. /\ {rows, bookings_seen, known}' \subseteq Nat
        /\ last_backup' \in {Never} \cup 0..BACKUP_STALE_AFTER
    BY <1>10 DEF TypeOK, Crash, CrashLosingDisk, Die, disk
  <2> QED
    BY <1>10, <2>1, <2>2, <2>3, <2>4, <2>5
    DEF TypeOK, Crash, CrashLosingDisk, Die, CheckReports
<1>11. CASE Boot
  BY <1>11, ReportsTyped DEF TypeOK, Boot, NoCheck, CheckReports, disk, history
<1>12. CASE Tick
  <2>1. sent_at' \in [Topics -> 0..Cooldown]
    BY <1>12 DEF TypeOK, Tick, Older
  <2>2. last_backup' \in {Never} \cup 0..BACKUP_STALE_AFTER
    BY <1>12 DEF TypeOK, Tick, Older, Never
  <2> QED
    BY <1>12, <2>1, <2>2 DEF TypeOK, Tick, history
<1> QED
  BY <1>1, <1>2, <1>3, <1>4, <1>5, <1>6, <1>7, <1>8, <1>9, <1>10, <1>11, <1>12
  DEF Next, Check

(* Every reachable state is well typed.                                    *)
THEOREM TypeCorrect == Spec => []TypeOK
<1>1. Init => TypeOK
  BY TypeInit
<1>2. TypeOK /\ [Next]_vars => TypeOK'
  BY TypeStep
<1> QED
  BY <1>1, <1>2, PTL DEF Spec

-----------------------------------------------------------------------------
(***************************************************************************)
(* A backup is remembered only after its copy has been verified, so the    *)
(* copy must be there from the moment the job is about to remember it.     *)
(***************************************************************************)
Verified == \E i \in DOMAIN copies : copies[i]

CopyInv == last_backup # Never \/ backup = "remember" => Verified

(* A file more in the directory takes no copy away.                        *)
LEMMA AppendKeepsVerified ==
  ASSUME copies \in Seq(BOOLEAN), Verified, CopyRejected
  PROVE  Verified'
<1>1. copies' = Append(copies, FALSE)
  BY DEF CopyRejected, Copying
<1>2. PICK i \in DOMAIN copies : copies[i]
  BY DEF Verified
<1>3. i \in DOMAIN copies' /\ copies'[i] = copies[i]
  <2>1. /\ Append(copies, FALSE) \in Seq(BOOLEAN)
        /\ Len(Append(copies, FALSE)) = Len(copies) + 1
        /\ \A j \in 1..Len(copies) : Append(copies, FALSE)[j] = copies[j]
    BY AppendProperties, FALSE \in BOOLEAN
  <2>2. i \in 1..Len(copies) /\ Len(copies) \in Nat
    BY <1>2
  <2>3. i \in 1..(Len(copies) + 1)
    BY <2>2
  <2> QED
    BY <1>1, <2>1, <2>2, <2>3
<1> QED
  BY <1>2, <1>3 DEF Verified

LEMMA CopyStep ==
  ASSUME TypeOK, CopyInv, [Next]_vars
  PROVE  CopyInv'
<1>1. CASE CreateBackup
  BY <1>1, FreshCopy DEF TypeOK, CopyInv, Verified
<1>2. CASE CopyRejected
  <2>1. last_backup' = last_backup /\ backup' = "alert"
    BY <1>2 DEF CopyRejected, Copying
  <2> QED
    BY <1>2, <2>1, AppendKeepsVerified DEF TypeOK, CopyInv
<1>3. CASE CrashLosingDisk
  BY <1>3 DEF CrashLosingDisk, Die, CopyInv
<1>4. CASE Tick
  <2>1. last_backup' # Never => last_backup # Never
    BY <1>4 DEF Tick
  <2> QED
    BY <1>4, <2>1 DEF Tick, CopyInv, Verified
<1>5. CASE RememberBackup
  BY <1>5 DEF RememberBackup, CopyInv, Verified
<1>6. CASE UNCHANGED vars \/ AddBooking \/ RemoveBookings \/ WipeSchedule
           \/ DailyHealth \/ Check \/ SnapshotFails \/ CopyDelivered
           \/ NotDelivered \/ BackupAlert \/ Crash \/ Boot
  <2>1. UNCHANGED <<last_backup, copies>> /\ (backup' = backup \/ backup' # "remember")
    BY <1>6 DEF vars, disk, AddBooking, RemoveBookings, WipeSchedule, SetRows,
       DailyHealth, Check, Collect, AlertOnDataLoss, BackupInOrder,
       AlertOnStaleBackup, StoreSeen, StoreFails, SnapshotFails, Copying,
       CopyDelivered, NotDelivered, BackupAlert, BackupStep, Crash, Die, Boot
  <2> QED
    BY <2>1 DEF CopyInv, Verified
<1> QED
  BY <1>1, <1>2, <1>3, <1>4, <1>5, <1>6 DEF Next, StartBackup, Backup

(* As long as the bot believes in a backup, a verified copy is there, for  *)
(* every KEEP_BACKUPS, also 0, and however many copies are rejected.       *)
THEOREM RestorableCopyHolds == Spec => []RestorableCopy
<1>1. Init => CopyInv
  BY DEF Init, CopyInv
<1>2. TypeOK /\ CopyInv /\ [Next]_vars => CopyInv'
  BY CopyStep
<1>3. CopyInv => RestorableCopy
  BY DEF CopyInv, RestorableCopy, Verified
<1> QED
  BY <1>1, <1>2, <1>3, TypeCorrect, PTL DEF Spec

-----------------------------------------------------------------------------
(***************************************************************************)
(* What a check works with.  A check that could not count stores a zero,   *)
(* so the watermark may be off: then a false alarm of an empty table has   *)
(* gone out or been refused, or the salon is too young to have lost        *)
(* anything.                                                               *)
(***************************************************************************)
EmptyTold == "db.empty" \in alarmed \/ "refused" \in unheard
ShrunkTold == alarmed # {} \/ unheard # {}

Comparing == check.step \in {"loss", "stale", "store"}

WatermarkInv ==
  \/ blind # {}
  \/ bookings_seen = known
  \/ EmptyTold
  \/ known < EMPTY_ALERT_MIN_HISTORY

ReportInv ==
  /\ Comparing /\ ~check.unread => check.previous = bookings_seen
  /\ check.step \in {"stale", "store"} =>
       /\ Emptied(check.previous, check.rows) => EmptyTold
       /\ Shrunk(check.previous, check.rows) => ShrunkTold
  /\ ~check.counted => check.rows = 0

WatchInv == WatermarkInv /\ ReportInv

(* No check is under way.                                                  *)
LEMMA NoReport ==
  ASSUME check' \in {NoCheck, Off, [NoCheck EXCEPT !.step = "collect"],
                     [NoCheck EXCEPT !.step = "collect", !.boot = TRUE]}
  PROVE  ReportInv'
<1>1. CASE check' = NoCheck
  BY <1>1 DEF NoCheck, ReportInv, Comparing
<1>2. CASE check' = Off
  BY <1>2 DEF NoCheck, Off, ReportInv, Comparing
<1>3. CASE check' = [NoCheck EXCEPT !.step = "collect"]
  BY <1>3 DEF NoCheck, ReportInv, Comparing
<1>4. CASE check' = [NoCheck EXCEPT !.step = "collect", !.boot = TRUE]
  BY <1>4 DEF NoCheck, ReportInv, Comparing
<1> QED
  BY <1>1, <1>2, <1>3, <1>4

LEMMA WatchStep ==
  ASSUME TypeOK, WatchInv, [Next]_vars
  PROVE  WatchInv'
<1> USE DataWatchAssumption
<1>1. CASE Collect
  <2>1. WatermarkInv'
    BY <1>1 DEF WatchInv, WatermarkInv, EmptyTold, Collect, disk, history
  <2>2. /\ check'.step = "loss"
        /\ ~check'.unread => check'.previous = bookings_seen
        /\ ~check'.counted => check'.rows = 0
        /\ bookings_seen' = bookings_seen
    BY <1>1 DEF TypeOK, Collect, disk
  <2> QED
    BY <2>1, <2>2 DEF WatchInv, ReportInv, Comparing
<1>2. CASE AlertOnDataLoss
  <2>1. /\ UNCHANGED <<bookings_seen, known, blind>>
        /\ alarmed \subseteq alarmed' /\ unheard \subseteq unheard'
    BY <1>2 DEF AlertOnDataLoss, disk
  <2>2. /\ Emptied(check.previous, check.rows) => EmptyTold'
        /\ Shrunk(check.previous, check.rows) => ShrunkTold'
    <3>1. ~("db.shrank" \in Loss(check.previous, check.rows)
            /\ Emptied(check.previous, check.rows))
      BY DEF Loss, Emptied, Shrunk
    <3>2. /\ Emptied(check.previous, check.rows)
               => "db.empty" \in Loss(check.previous, check.rows)
          /\ Shrunk(check.previous, check.rows)
               => "db.shrank" \in Loss(check.previous, check.rows)
      BY DEF Loss
    <3> QED
      BY <1>2, <3>1, <3>2 DEF AlertOnDataLoss, EmptyTold, ShrunkTold
  <2>3. /\ check' = [check EXCEPT !.step = "stale"]
        /\ check.step = "loss"
    BY <1>2 DEF AlertOnDataLoss
  <2>4. /\ check'.step = "stale" /\ check'.previous = check.previous
        /\ check'.rows = check.rows /\ check'.counted = check.counted
        /\ check'.unread = check.unread
    BY <2>3 DEF TypeOK
  <2> QED
    BY <2>1, <2>2, <2>3, <2>4
    DEF WatchInv, WatermarkInv, ReportInv, Comparing, EmptyTold, Emptied, Shrunk
<1>3. CASE BackupInOrder \/ AlertOnStaleBackup
  <2>1. UNCHANGED <<bookings_seen, history>>
    BY <1>3 DEF BackupInOrder, AlertOnStaleBackup, disk
  <2>2. /\ check.step = "stale" /\ check' = [check EXCEPT !.step = "store"]
    BY <1>3 DEF BackupInOrder, AlertOnStaleBackup
  <2>3. /\ check'.step = "store" /\ check'.previous = check.previous
        /\ check'.rows = check.rows /\ check'.counted = check.counted
        /\ check'.unread = check.unread
    BY <2>2 DEF TypeOK
  <2> QED
    BY <2>1, <2>2, <2>3
    DEF WatchInv, WatermarkInv, ReportInv, Comparing, EmptyTold, ShrunkTold, Emptied,
        Shrunk, history
<1>4. CASE StoreSeen
  <2>1. ReportInv'
    BY <1>4, NoReport DEF StoreSeen
  <2>2. CASE check.counted
    BY <1>4, <2>2, <2>1 DEF StoreSeen, Recorded, WatchInv, WatermarkInv
  <2>3. CASE ~check.counted /\ check.unread
    BY <1>4, <2>3, <2>1 DEF StoreSeen, Recorded, WatchInv, WatermarkInv
  <2>4. CASE ~check.counted /\ ~check.unread
    <3>1. check.rows = 0 /\ check.previous = bookings_seen
      BY <1>4, <2>4 DEF WatchInv, ReportInv, Comparing, StoreSeen
    <3>2. Emptied(bookings_seen, 0) => EmptyTold
      BY <1>4, <3>1 DEF WatchInv, ReportInv, StoreSeen, TypeOK
    <3>3. UNCHANGED <<known, alarmed, unheard>> /\ blind \subseteq blind'
      BY <1>4, <2>4 DEF StoreSeen, Recorded
    <3>4. known = bookings_seen /\ ~(known < EMPTY_ALERT_MIN_HISTORY) => EmptyTold
      BY <3>2 DEF Emptied, TypeOK
    <3> QED
      BY <2>1, <3>3, <3>4 DEF WatchInv, WatermarkInv, EmptyTold
  <2> QED
    BY <2>2, <2>3, <2>4
<1>5. CASE DailyHealth \/ Boot \/ StoreFails \/ Crash
  <2>1. ReportInv'
    BY <1>5, NoReport DEF DailyHealth, Boot, StoreFails, Crash, Die
  <2>2. UNCHANGED <<bookings_seen, known, blind, alarmed, unheard>>
    BY <1>5 DEF DailyHealth, Boot, StoreFails, Crash, Die, disk, history
  <2> QED
    BY <2>1, <2>2 DEF WatchInv, WatermarkInv, EmptyTold
<1>6. CASE CrashLosingDisk
  <2>1. ReportInv'
    BY <1>6, NoReport DEF CrashLosingDisk, Die
  <2>2. blind' # {}
    BY <1>6 DEF CrashLosingDisk
  <2> QED
    BY <2>1, <2>2 DEF WatchInv, WatermarkInv
<1>7. CASE UNCHANGED vars \/ AddBooking \/ RemoveBookings \/ WipeSchedule
           \/ StartBackup \/ Backup \/ Tick
  <2>1. UNCHANGED <<bookings_seen, known, blind, alarmed, unheard, check>>
    BY <1>7 DEF vars, disk, history, AddBooking, RemoveBookings, WipeSchedule,
       SetRows, StartBackup, CreateBackup, SnapshotFails, CopyRejected, Copying,
       Backup, RememberBackup, CopyDelivered, NotDelivered, BackupAlert,
       BackupStep, Tick
  <2> QED
    BY <2>1 DEF WatchInv, WatermarkInv, ReportInv, Comparing, EmptyTold, ShrunkTold,
       Emptied, Shrunk
<1> QED
  BY <1>1, <1>2, <1>3, <1>4, <1>5, <1>6, <1>7 DEF Next, Check

(* A check that could count and read, on a disk that lasts, does not end   *)
(* with a loss no alarm was tried about.                                   *)
LEMMA LossAlertedStep ==
  ASSUME TypeOK, WatchInv, StoreSeen, Watched, "disk" \notin blind
  PROVE  /\ Emptied(known, check.rows) => EmptyTold
         /\ Shrunk(known, check.rows) => ShrunkTold
<1> USE DataWatchAssumption
<1>1. blind = {}
  BY DEF TypeOK, Watched
<1>2. /\ Emptied(bookings_seen, check.rows) => EmptyTold
      /\ Shrunk(bookings_seen, check.rows) => ShrunkTold
  BY DEF WatchInv, ReportInv, Comparing, StoreSeen, Watched
<1>3. CASE bookings_seen = known
  BY <1>2, <1>3
<1>4. CASE EmptyTold
  BY <1>4 DEF EmptyTold, ShrunkTold
<1>5. CASE known < EMPTY_ALERT_MIN_HISTORY
  BY <1>5 DEF Emptied, Shrunk, TypeOK
<1> QED
  BY <1>1, <1>3, <1>4, <1>5 DEF WatchInv, WatermarkInv

(* A loss on a disk that lasts is never overlooked, through crashes in the *)
(* middle of checks and checks that could not count.                       *)
THEOREM LossAlertedHolds == Spec => LossAlerted
<1>1. Init => WatchInv
  BY DEF Init, WatchInv, WatermarkInv, ReportInv, Comparing, Off, NoCheck
<1>2. TypeOK /\ WatchInv /\ [Next]_vars => WatchInv'
  BY WatchStep
<1>3. TypeOK /\ WatchInv /\ [Next]_vars
        => [StoreSeen /\ Watched /\ "disk" \notin blind =>
              /\ Emptied(known, check.rows)
                   => "db.empty" \in alarmed \/ "refused" \in unheard
              /\ Shrunk(known, check.rows) => alarmed # {} \/ unheard # {}]_vars
  BY LossAlertedStep DEF EmptyTold, ShrunkTold
<1> QED
  BY <1>1, <1>2, <1>3, TypeCorrect, PTL DEF Spec, LossAlerted
=============================================================================
