SPECIFICATION Spec
CONSTANTS
    x = x
    y = y
    p1 = p1
    p2 = p2
    p3 = p3
    RunSpecs = {x, y}
    Plans = {p1, p2, p3}
    affectedRunSpecIds <- Affected
    MaxEvents = 1
CHECK_DEADLOCK FALSE
INVARIANTS
    TypeOK
    LocksAreOwned
    LastLockHolds
    DeployingConflictFree
    RunningGoesOn
