SPECIFICATION FairSpec
CONSTANTS
    Subs = {"sub"}
    Dommes = {"domme"}
    Others = {}
    Handlers = {h1, h2}
    MaxNumber = 1
    SetTo = {0}
    MaxMessages = 2
    MaxSends = 1
    MaxDisturbances = 1
INVARIANTS OutcomeAppliedOnce NumberEarned
PROPERTY WindowsClose
CHECK_DEADLOCK FALSE
