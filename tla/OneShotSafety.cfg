SPECIFICATION SafetySpec
CONSTANTS
  Keys = {k1}
  Schedulers = {s1}
  Cancellers = {c1}
  MaxPending = 2
  MaxGeneration = 3
CHECK_DEADLOCK FALSE
INVARIANTS TypeOK EntryHasWorker NeverEarly
PROPERTIES FateIsFinal CancelCovers
CONSTRAINT MCLastIsCancellable
