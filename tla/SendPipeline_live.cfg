SPECIFICATION FairSpec
CONSTANTS
    Events = {"e1", "e2"}
    MainEvents = {"e1"}
    BadCurrency = {}
    Hooks = {h1}
    Commands = {}
    Phases = {0}
    Modes = {"maintenance"}
    BatchLimit = 2
    MaxSends = 2
    MaxFaults = 1
    MaxEdits = 0
INVARIANT QuietDuringMaintenance
PROPERTY NoSendStranded
