SPECIFICATION Spec
CONSTANTS
  None = none
  Backups = {b1, b2}
  Restores = {r1}
  Destinations = {d1}
  Concurrency = 1
  MaxAttempts = 2
  MaxTicks = 1
  MaxTroubles = 2
  MaxRequests = 3
INVARIANTS BackupsTypeOK SuccessIsStored MixedHasSafety
PROPERTIES BackupOperationsEnd ExpiredIsRemoved
CHECK_DEADLOCK FALSE
