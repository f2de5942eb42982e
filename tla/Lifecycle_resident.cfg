SPECIFICATION Spec
CONSTANTS
    NumTasks = 1
    Times = {0}
    UnreachableEnabled = FALSE
    inactiveAfter = 1
    expungeAfter = 2
    MaxIncarnation = 2
    NoInstance = NoInstance
    Resident = TRUE
    Statuses <- ResidentStatuses
    GoalChanges = {"GoalStopped", "GoalDecommissioned"}
    StorageMayFail = TRUE
    DriverMayBeGone = TRUE
    MaxPending = 2
PROPERTY
    ReservationKept
CHECK_DEADLOCK FALSE
