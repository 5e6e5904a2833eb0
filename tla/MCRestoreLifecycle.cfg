SPECIFICATION Spec
CONSTANTS
  backup1 = backup1
  backup2 = backup2
  None = None
  Torn = Torn
  Backups <- MCBackups
INVARIANTS  RestoreCanFinish
