SPECIFICATION FairSpec
CONSTANTS
    Members = {m1}
    Protected = {}
    Handlers = {h1}
    InactiveAfter = 2
    KickGrace = 1
    BootstrapGrace = 1
    FinalNotice = 1
    AfkDays = 2
    MaxTime = 3
    MaxDisturbances = 2
PROPERTIES ToldTheDate KickWasDue RulesPrevail
CHECK_DEADLOCK FALSE
