SPECIFICATION Spec
CONSTANTS
    Upgrades <- ResidentUpgrade
    MaxInstances = 7
    None = None
CHECK_DEADLOCK FALSE
INVARIANT
    SoleOrchestrator
