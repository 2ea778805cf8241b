------------------------------ MODULE DataWatch ------------------------------
(***************************************************************************)
(* The watch over the bot's data: DbHealthService.check                    *)
(* (src/services/db_health.py), the backup job                             *)
(* (src/services/backup_service.py), the alerts of a check                 *)
(* (src/services/alert_service.py) and the app_state table all of them     *)
(* remember things in (src/services/app_state.py).                         *)
(*                                                                         *)
(* A check runs at every start of the process and once a day.  It compares *)
(* the number of bookings with the number the previous check left in       *)
(* app_state.  app_state is a table of the same database, and the copies   *)
(* lie in a directory next to it: a disk that is lost takes all of it.     *)
(* Checks and backups are sequences of awaits, so the process may die in   *)
(* the middle of either, and the tables change under a check.  The two are *)
(* started at different hours and do not overlap.                          *)
(*                                                                         *)
(* The alerts about storage, integrity and conflicts, and the status card  *)
(* of a start, are left out: each follows from the report at hand and      *)
(* changes nothing but the cooldown of its own topic.  Times are ages, in  *)
(* ticks, as far back as they matter.                                      *)
(***************************************************************************)
EXTENDS Integers, Sequences

CONSTANTS
  EMPTY_ALERT_MIN_HISTORY,  \* fewer bookings than this is a young salon
  BACKUP_STALE_AFTER,
  Cooldown,                 \* DEFAULT_COOLDOWN_SECONDS
  KEEP_BACKUPS,
  MaxRows,                  \* bound on the bookings table
  MaxCopies                 \* bound on the files in the backup directory

ASSUME DataWatchAssumption ==
  /\ {EMPTY_ALERT_MIN_HISTORY, BACKUP_STALE_AFTER, Cooldown} \subseteq Nat \ {0}
  /\ {KEEP_BACKUPS, MaxRows, MaxCopies} \subseteq Nat

VARIABLES
  rows,             \* bookings in the table
  bookings_seen,    \* app_state: what the last check has stored
  last_backup,      \* app_state: the age of last_backup_at, or Never
  copies,           \* files in the backup directory, oldest first: verified or not
  sent_at,          \* per topic of a check, the age of its entry; in memory
  check,            \* the check in progress: its next step and its report
  backup,           \* the next step of the backup in progress
  (* History, for the properties only.                                     *)
  known,            \* the last count that a check has read and got through with
  blind,            \* why a check since then cannot have seen a loss
  alarmed,          \* alarms about a loss that Telegram took since then
  unheard           \* why one was not sent: refused, or within the cooldown

disk == <<rows, bookings_seen, last_backup, copies>>
history == <<known, blind, alarmed, unheard>>
vars == <<disk, sent_at, check, backup, history>>

Never == -1
Topics == {"db.shrank", "db.backup_stale"}
Forgotten == [k \in Topics |-> Cooldown]

(* counted, unread, undated: the counts were read; the watermark was not;  *)
(* the time of the last backup was not.                                    *)
NoCheck == [step |-> "idle", rows |-> 0, previous |-> 0, counted |-> TRUE,
            unread |-> FALSE, undated |-> FALSE, boot |-> FALSE]
Off == [NoCheck EXCEPT !.step = "off"]

Up == check.step # "off"
Serving == Up /\ ~check.boot

-----------------------------------------------------------------------------
(***************************************************************************)
(* AlertService.send.  One message per topic and cooldown, unless forced;  *)
(* only a message that Telegram took starts the cooldown.                  *)
(***************************************************************************)
Suppressed(topic) == sent_at[topic] < Cooldown

SendToTelegram(topic) ==
  \/ UNCHANGED sent_at
  \/ ~Suppressed(topic) /\ sent_at' = [sent_at EXCEPT ![topic] = 0]

-----------------------------------------------------------------------------
(***************************************************************************)
(* What happens to the data.                                               *)
(***************************************************************************)
SetRows(n) ==
  /\ rows' = n
  /\ UNCHANGED <<bookings_seen, last_backup, copies, sent_at, check, backup, history>>

AddBooking == Serving /\ rows < MaxRows /\ SetRows(rows + 1)

(* A day is deleted with its bookings.                                     *)
RemoveBookings == \E n \in 1..(rows - 1) : SetRows(n)

(* The script wipes the schedule, and leaves app_state as it is.           *)
WipeSchedule == rows > 0 /\ SetRows(0)

-----------------------------------------------------------------------------
(***************************************************************************)
(* check: collect, alert on data loss, alert on a stale backup, store.     *)
(***************************************************************************)
DailyHealth ==
  /\ check.step = "idle" /\ backup = "idle"
  /\ check' = [NoCheck EXCEPT !.step = "collect"]
  /\ UNCHANGED <<disk, sent_at, backup, history>>

CollectStores ==   \* mutant: the watermark is moved before anybody is alerted
  /\ check.step = "collect"
  /\ check' = [check EXCEPT !.step = "loss", !.rows = rows,
                            !.previous = bookings_seen]
  /\ bookings_seen' = rows
  /\ UNCHANGED <<rows, last_backup, copies, sent_at, backup, history>>

(* Three counts in one session, then app_state in others.  When the counts *)
(* raise, the report says that the tables are empty; when the watermark    *)
(* cannot be read, that there has been none; and so for the last backup.   *)
Collect ==
  /\ check.step = "collect"
  /\ \E counted, unread, undated \in BOOLEAN :
       check' = [check EXCEPT !.step = "loss",
                   !.counted = counted, !.rows = IF counted THEN rows ELSE 0,
                   !.unread = unread, !.previous = IF unread THEN 0 ELSE bookings_seen,
                   !.undated = undated]
  /\ UNCHANGED <<disk, sent_at, backup, history>>

Emptied(before, after) == before >= EMPTY_ALERT_MIN_HISTORY /\ after = 0
Shrunk(before, after) ==
  before >= EMPTY_ALERT_MIN_HISTORY /\ after # 0 /\ 2 * after < before

Loss(before, after) ==
  {topic \in {"db.empty", "db.shrank"} :
     \/ topic = "db.empty" /\ Emptied(before, after)
     \/ topic = "db.shrank" /\ Shrunk(before, after)}

(* The alarm about an empty table is forced, that about a shrunk one is    *)
(* not.  Whether it went out, the check does not ask.                      *)
AlertOnDataLoss ==
  LET loss == Loss(check.previous, check.rows)
      suppressed == "db.shrank" \in loss /\ Suppressed("db.shrank")
  IN
  /\ check.step = "loss"
  /\ \/ /\ ~suppressed
        /\ alarmed' = alarmed \cup loss
        /\ sent_at' = [k \in Topics |-> IF k \in loss THEN 0 ELSE sent_at[k]]
        /\ UNCHANGED unheard
     \/ /\ loss # {}
        /\ unheard' = unheard \cup {IF suppressed THEN "suppressed" ELSE "refused"}
        /\ UNCHANGED <<sent_at, alarmed>>
  /\ check' = [check EXCEPT !.step = "stale"]
  /\ UNCHANGED <<disk, backup, known, blind>>

StaleIfNone == last_backup = Never   \* mutant: a backup is good for ever

Stale == last_backup = Never \/ last_backup >= BACKUP_STALE_AFTER

(* Nothing to lose yet, or the last backup is young enough.                *)
BackupInOrder ==
  /\ check.step = "stale"
  /\ check.rows = 0 \/ ~(check.undated \/ Stale)
  /\ check' = [check EXCEPT !.step = "store"]
  /\ UNCHANGED <<disk, sent_at, backup, history>>

AlertOnStaleBackup ==
  /\ check.step = "stale"
  /\ check.rows # 0 /\ (check.undated \/ Stale)
  /\ SendToTelegram("db.backup_stale")
  /\ check' = [check EXCEPT !.step = "store"]
  /\ UNCHANGED <<disk, backup, history>>

(* What the master knows of her bookings when the check is over.           *)
Recorded ==
  IF check.counted
  THEN known' = check.rows /\ blind' = {} /\ alarmed' = {} /\ unheard' = {}
  ELSE /\ blind' = blind \cup (IF check.unread THEN {"unread"} ELSE {})
       /\ UNCHANGED <<known, alarmed, unheard>>

StoreChange ==   \* mutant: the change is stored instead of the count
  /\ check.step = "store"
  /\ bookings_seen' = check.rows - check.previous
  /\ Recorded
  /\ check' = NoCheck
  /\ UNCHANGED <<rows, last_backup, copies, sent_at, backup>>

StoreSeen ==
  /\ check.step = "store"
  /\ bookings_seen' = check.rows
  /\ Recorded
  /\ check' = NoCheck
  /\ UNCHANGED <<rows, last_backup, copies, sent_at, backup>>

(* AppStateStore.set never raises: a write that fails is only logged.      *)
StoreFails ==
  /\ check.step = "store"
  /\ check' = NoCheck
  /\ UNCHANGED <<disk, sent_at, backup, history>>

-----------------------------------------------------------------------------
(***************************************************************************)
(* BackupService.run: copy, verify and rotate; remember; deliver.  The     *)
(* daily job, and the first backup after a start that remembers none.  Its *)
(* alerts have topics of their own and are further apart than a cooldown.  *)
(***************************************************************************)
Rotate(files) ==
  LET keep == IF KEEP_BACKUPS < 1 THEN 1 ELSE KEEP_BACKUPS IN
  IF Len(files) <= keep THEN files
  ELSE SubSeq(files, Len(files) - keep + 1, Len(files))

Copying(files, step) ==
  /\ check.step = "idle" /\ backup = "idle"
  /\ copies' = files
  /\ backup' = step
  /\ UNCHANGED <<rows, bookings_seen, last_backup, sent_at, check, history>>

CreateBackup == Copying(Rotate(Append(copies, TRUE)), "remember")

(* No snapshot can be made.                                                *)
SnapshotFails == Copying(copies, "alert")

CopyRejectedRotates ==   \* mutant: rotated before the copy is verified
  Copying(Rotate(Append(copies, FALSE)), "alert")

(* The copy does not pass its verification.  Its file stays.               *)
CopyRejected ==
  /\ Len(copies) < MaxCopies
  /\ Copying(Append(copies, FALSE), "alert")

RememberBackup ==
  /\ backup = "remember"
  /\ last_backup' \in {last_backup, 0}   \* set may fail
  /\ backup' = "deliver"
  /\ UNCHANGED <<rows, bookings_seen, copies, sent_at, check, history>>

BackupStep(step, next) ==
  /\ backup = step
  /\ backup' = next
  /\ UNCHANGED <<disk, sent_at, check, history>>

CopyDelivered == BackupStep("deliver", "idle")

(* Too big for Telegram, or refused.                                       *)
NotDelivered == BackupStep("deliver", "alert")

(* "backup.failed", "backup.too_big" or "backup.not_sent".                 *)
BackupAlert == BackupStep("alert", "idle")

-----------------------------------------------------------------------------
(***************************************************************************)
(* The process.                                                            *)
(***************************************************************************)
Die ==
  /\ Up
  /\ check' = Off
  /\ backup' = "idle"
  /\ sent_at' = Forgotten
  /\ UNCHANGED <<known, alarmed, unheard>>

Crash == Die /\ UNCHANGED <<disk, blind>>

(* A container whose disk does not outlive it: init_db makes a new, empty  *)
(* database at the next start.                                             *)
CrashLosingDisk ==
  /\ Die
  /\ rows' = 0 /\ bookings_seen' = 0 /\ last_backup' = Never
  /\ copies' = <<>>
  /\ blind' = blind \cup {"disk"}

(* startup_checks comes before the scheduler and before the first client.  *)
Boot ==
  /\ ~Up
  /\ check' = [NoCheck EXCEPT !.step = "collect", !.boot = TRUE]
  /\ UNCHANGED <<disk, sent_at, backup, history>>

Older(age, oldest) == IF age < oldest THEN age + 1 ELSE oldest

Tick ==
  /\ last_backup' = IF last_backup = Never THEN Never
                    ELSE Older(last_backup, BACKUP_STALE_AFTER)
  /\ sent_at' = [k \in Topics |-> Older(sent_at[k], Cooldown)]
  /\ UNCHANGED <<rows, bookings_seen, copies, check, backup, history>>

Init ==
  /\ rows = 0 /\ bookings_seen = 0 /\ last_backup = Never /\ copies = <<>>
  /\ sent_at = Forgotten
  /\ check = Off /\ backup = "idle"
  /\ known = 0 /\ blind = {} /\ alarmed = {} /\ unheard = {}

Check ==
  \/ Collect
  \/ AlertOnDataLoss
  \/ BackupInOrder \/ AlertOnStaleBackup
  \/ StoreSeen \/ StoreFails

StartBackup == CreateBackup \/ SnapshotFails \/ CopyRejected
Backup == RememberBackup \/ CopyDelivered \/ NotDelivered \/ BackupAlert

Next ==
  \/ AddBooking \/ RemoveBookings \/ WipeSchedule
  \/ DailyHealth \/ Check
  \/ StartBackup \/ Backup
  \/ Crash \/ CrashLosingDisk \/ Boot
  \/ Tick

Spec == Init /\ [][Next]_vars

(* Time passes, the check is started daily, and what is under way goes on. *)
(* Nothing makes the nightly backup run.                                   *)
FairSpec ==
  /\ Spec
  /\ WF_vars(Tick) /\ WF_vars(DailyHealth) /\ WF_vars(Check) /\ WF_vars(Backup)

-----------------------------------------------------------------------------
TypeOK ==
  /\ {rows, bookings_seen, known} \subseteq Nat
  /\ last_backup \in {Never} \cup 0..BACKUP_STALE_AFTER
  /\ copies \in Seq(BOOLEAN)
  /\ sent_at \in [Topics -> 0..Cooldown]
  /\ check \in [step : {"off", "idle", "collect", "loss", "stale", "store"},
                rows : Nat, previous : Nat, counted : BOOLEAN,
                unread : BOOLEAN, undated : BOOLEAN, boot : BOOLEAN]
  /\ backup \in {"idle", "remember", "deliver", "alert"}
  /\ blind \subseteq {"unread", "disk"}
  /\ alarmed \subseteq {"db.empty", "db.shrank"}
  /\ unheard \subseteq {"refused", "suppressed"}

(* "A backup nobody opened is not a backup" (_verify): as long as the bot  *)
(* believes in a backup, a copy that was verified is in the directory,     *)
(* however many copies were rejected and however few are kept.             *)
RestorableCopy == last_backup # Never => \E i \in DOMAIN copies : copies[i]

(* A loss on a disk that lasts is never overlooked: when a check ends with *)
(* far fewer bookings than the last one that could count them, an alarm    *)
(* has gone out since, or Telegram refused one, or the cooldown of an      *)
(* earlier one held it back (for an empty table it may not), though the    *)
(* process may have died in the middle of checks and checks may have       *)
(* failed to count.  (A check that cannot read what was stored sees no     *)
(* loss; one that fails to count gives a false alarm, which counts here.)  *)
Watched == check.counted /\ ~check.unread /\ "unread" \notin blind

LossAlerted ==
  [][StoreSeen /\ Watched /\ "disk" \notin blind =>
       /\ Emptied(known, check.rows) => "db.empty" \in alarmed \/ "refused" \in unheard
       /\ Shrunk(known, check.rows) => alarmed # {} \/ unheard # {}]_vars

(* "Every boot compares reality against what the previous boot saw and     *)
(* says so out loud" (the module's description, of an ephemeral disk): an  *)
(* emptied salon is announced, or at least the attempt is made, also when  *)
(* the disk has gone.                                                      *)
LossAnnounced ==
  [][StoreSeen /\ Watched /\ Emptied(known, check.rows) =>
       "db.empty" \in alarmed \/ "refused" \in unheard]_vars

(* A salon that goes on having bookings, in a bot that stays up and can    *)
(* count them, gets a copy again and again or hears again and again that   *)
(* it does not: also when the backup job has stopped, copies are rejected, *)
(* Telegram takes none of them, or their time cannot be stored.            *)
CopiesOrAlarms ==
  <>[](Up /\ rows > 0 /\ check.counted)
    => []<><<CopyDelivered \/ BackupAlert \/ AlertOnStaleBackup>>_vars
=============================================================================
