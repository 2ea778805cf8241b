\* Two bookings make a history, two files of which one is kept.
CONSTANTS
  EMPTY_ALERT_MIN_HISTORY = 2
  BACKUP_STALE_AFTER = 2
  Cooldown = 1
  KEEP_BACKUPS = 1
  MaxRows = 3
  MaxCopies = 2
SPECIFICATION FairSpec
INVARIANTS
  TypeOK
  RestorableCopy
PROPERTIES
  LossAlerted
  CopiesOrAlarms
