SPECIFICATION FairSpec
CONSTANTS
    Instances = {i1, i2}
    Reserved = {}
    Strays = {i1}
    killChunkSize = 1
    MayBeUnreachable = FALSE
    MayEnd = TRUE
    MaxTask = 1
    MaxRequests = 0
    MaxMailbox = 1
    MaxRestarts = 1
    None = None
    i1 = i1
    i2 = i2
    i3 = i3
INVARIANTS
    InFlightBounded
PROPERTIES
    DoomedIsKilled
CHECK_DEADLOCK FALSE
