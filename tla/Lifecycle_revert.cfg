SPECIFICATION Spec
CONSTANTS
    NumTasks = 1
    Times = {0}
    UnreachableEnabled = FALSE
    inactiveAfter = 1
    expungeAfter = 2
    MaxIncarnation = 2
    NoInstance = NoInstance
    Resident = TRUE
    Statuses <- ResidentStatuses
    GoalChanges = {"GoalDecommissioned"}
    StorageMayFail = FALSE
    DriverMayBeGone = FALSE
    MaxPending = 2
PROPERTY
    DecommissionedIsFinal
CHECK_DEADLOCK FALSE
