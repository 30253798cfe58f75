SPECIFICATION Spec
CONSTANTS
  Pids = {p1, p2}
  Tokens = {t1, t2}
  None = None
  MaxQueue = 2
INVARIANTS TypeOK CoreIsOwned StoppedLeavesNoCore 
PROPERTIES  ShutdownEnds
