SPECIFICATION SafetySpec
CONSTANTS
  Boot = boot
  Callers = {c1}
  Recoverers = {r1, r2}
  Upgrader = upgrader
  Exit = exit
  Free = free
  ServiceSettings = {FALSE, TRUE}
  UpgradeOutcomes = {"current", "refused", "broken", "updated"}
  MaxFaults = 2
CHECK_DEADLOCK FALSE
SYMMETRY MCSymmetry
CONSTRAINT MCUpdateBound
INVARIANTS TypeOK AliveIsOwned RecoveryIsSingle RecoveryIsWanted WishIsKept 
PROPERTIES OldEventsHarmless
