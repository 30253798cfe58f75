SPECIFICATION Spec
CONSTANTS
  Targets = {t1, t2}
  User = user
  NoServer = noserver
  None = none
  Free = free
  MaxPatches = 1
  MaxEvents = 1
CHECK_DEADLOCK FALSE
INVARIANT RecoveryAlwaysPossible
