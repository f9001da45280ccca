SPECIFICATION Spec
CONSTANTS
    home = home
    g1 = g1
    o1 = o1
    o2 = o2
    c1 = c1
    c2 = c2
    c3 = c3
    None = None
    Owners = {o1}
    Guilds = {home, g1}
    Home = home
    Creators <- MCCreators
    Requests = {r1, r2}
    MaxVersion = 2
    MaxPublications = 2
    Orientations = {"domme", "submissive"}
    MaxRevision = 5
    x = x
    y = y
    Channels = {x, y}
SYMMETRY Symmetry
INVARIANTS RegisteredAsPublished AliasesMirrorProfiles CardsAreHonest
PROPERTY ExplicitRowsStand
CHECK_DEADLOCK FALSE
