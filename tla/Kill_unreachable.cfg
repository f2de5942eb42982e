SPECIFICATION Spec
CONSTANTS
    Instances = {i1, i2}
    Reserved = {i2}
    Strays = {}
    killChunkSize = 1
    MayBeUnreachable = TRUE
    MayEnd = TRUE
    MaxTask = 0
    MaxRequests = 1
    MaxMailbox = 1
    MaxRestarts = 0
    None = None
    i1 = i1
    i2 = i2
    i3 = i3
INVARIANTS
    InFlightWatched
    WaitsForRoomOnly
CHECK_DEADLOCK FALSE
