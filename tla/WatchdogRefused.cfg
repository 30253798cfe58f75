SPECIFICATION Spec
CONSTANTS
  Launches = {w1, w2}
  Free = free
  MaxRetries = 2
  RetryDelay = 2
  RestartDelay = 1
  Window = 5
  RestartLimit = 2
PROPERTIES RefusedByInstance
