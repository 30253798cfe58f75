SPECIFICATION Spec
CONSTANTS
    window = window
    page = page
    Sc = Sc
    u1 = u1
    u2 = u2
    None = None
    Script = Sc
    Procs <- MCProcs
    Uids <- MCUids
    Remote <- MCRemote
    Commands <- MCCommands
    Boots <- MCBoots
    MaxCommands = 2
    MaxFaults = 3
INVARIANTS TypeOK  SettingsAreSound
CHECK_DEADLOCK FALSE
