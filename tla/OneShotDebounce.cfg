SPECIFICATION Spec
CONSTANTS
  Keys = {k1, k2}
  Schedulers = {s1, s2}
  Cancellers = {}
  MaxPending = 1
  MaxGeneration = 3
CHECK_DEADLOCK FALSE
INVARIANTS NoLostWakeup PendingBounded
PROPERTIES KeepsPromise
