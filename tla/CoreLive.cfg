SPECIFICATION MCLiveSpec
CONSTANTS
  Boot = boot
  Callers = {}
  Recoverers = {r1, r2}
  Upgrader = upgrader
  Exit = exit
  Free = free
  ServiceSettings = {FALSE, TRUE}
  UpgradeOutcomes = {"current", "refused", "broken", "updated"}
  MaxFaults = 3
CHECK_DEADLOCK FALSE
PROPERTIES  Recovered
