SPECIFICATION Spec
CONSTANTS
  Targets = {t1}
  User = user
  NoServer = noserver
  None = none
  Free = free
  MaxPatches = 1
  MaxEvents = 2
CHECK_DEADLOCK FALSE
INVARIANTS TypeOK CrashSafe 
PROPERTIES GivesBack ForeignKept
CONSTRAINT MCNotSpoiled
