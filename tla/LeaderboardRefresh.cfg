\* Names, attribution and the board: two subs, one send, two tasks.
SPECIFICATION Spec
CONSTANTS
    u1 = u1
    u2 = u2
    n1 = n1
    n3 = n3
    s1 = s1
    lounge = lounge
    hall = hall
    NoOne = NoOne
    Subs = {u1, u2}
    Names = {n1, n3}
    Asks <- MCAsks
    Sends = {s1}
    NameOf <- MCNameOf
    Legacy <- MCLegacy
    MaxRows = 2
    Tasks = {poller, ops}
    Poller = poller
    Channels = {lounge, hall}
    MaxMessages = 3
    MaxEvents = 1
INVARIANTS NameHasOneOwner ErasedStaysErased BoardFollowsHash
PROPERTY AttributionStands
SYMMETRY Symmetry
CHECK_DEADLOCK FALSE
