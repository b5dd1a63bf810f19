CONSTANTS
  backup1 = backup1
  backup2 = backup2
  Backups = {backup1, backup2}
  NoBackup = NoBackup
  MaxStagings = 2
SPECIFICATION RestoreSpec
CHECK_DEADLOCK FALSE
INVARIANTS
  RestoredAsAsked
