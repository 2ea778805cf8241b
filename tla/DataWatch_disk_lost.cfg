\* The same instance; the disk of the container does not outlive it.
CONSTANTS
  EMPTY_ALERT_MIN_HISTORY = 2
  BACKUP_STALE_AFTER = 2
  Cooldown = 1
  KEEP_BACKUPS = 1
  MaxRows = 3
  MaxCopies = 1
SPECIFICATION Spec
PROPERTIES
  LossAnnounced
