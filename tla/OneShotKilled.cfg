SPECIFICATION SafetySpec
CONSTANTS
  Keys = {k1}
  Schedulers = {s1}
  Cancellers = {c1}
  MaxPending = 1
  MaxGeneration = 2
CHECK_DEADLOCK FALSE
INVARIANTS PlainJobNotKilled
