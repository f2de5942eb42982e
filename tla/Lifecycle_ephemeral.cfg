SPECIFICATION Spec
CONSTANTS
    NumTasks = 1
    Times = {0, 1, 2}
    UnreachableEnabled = TRUE
    inactiveAfter = 1
    expungeAfter = 2
    MaxIncarnation = 2
    NoInstance = NoInstance
    Resident = FALSE
    Statuses <- AppStatuses
    GoalChanges = {"GoalDecommissioned"}
    StorageMayFail = TRUE
    DriverMayBeGone = TRUE
    MaxPending = 2
INVARIANTS
    TypeOK
    ConditionFollowsTasks
    TerminalOnlyIfDead
    ScheduledIsNotRunning
    IncarnationLaunchedOnce
    DecommissionedIsRemoved
    HealthyIsEarned
CHECK_DEADLOCK FALSE
