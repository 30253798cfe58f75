SPECIFICATION Spec
CONSTANTS
  Launches = {w1, w2, w3}
  Free = free
  MaxRetries = 3
  RetryDelay = 3
  RestartDelay = 1
  Window = 7
  RestartLimit = 3
SYMMETRY MCSymmetry
INVARIANTS TypeOK OneProgram  RetriesAreBounded RestartsAreThrottled
