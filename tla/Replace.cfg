SPECIFICATION FairSpec
CONSTANTS
    Upgrades <- MCUpgrades
    MaxInstances = 7
    None = None
CHECK_DEADLOCK FALSE
INVARIANTS
    TypeOK
    HealthyKept
    CapacityKept
    FinishedIsReplaced
PROPERTY
    Finishes
