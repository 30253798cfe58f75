SPECIFICATION Spec
CONSTANTS
    c1 = c1
    c2 = c2
    f1 = f1
    f2 = f2
    Callers <- MCCallers
    Flows <- MCFlows
    MaxRequests = 2
    MaxWindows = 2
    MaxRecreateDestroys = 2
CONSTRAINT MCBusy
INVARIANTS TypeOK SilentStaysHidden OneCreator
PROPERTY ShowIsServed
CHECK_DEADLOCK FALSE
