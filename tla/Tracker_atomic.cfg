SPECIFICATION Spec
CONSTANTS
    i1 = i1
    i2 = i2
    app1 = app1
    app2 = app2
    Instances <- MCInstances
    Updates <- Expunging
    KindOf <- MCKindOf
    InstanceOf <- MCInstanceOf
    AppOf <- OneApp
    QueueSize = 2
    DeadlinesPass = TRUE
    AskMayTimeOut = FALSE
    FailuresAmbiguous = FALSE
    MaxCrashes = 1
    None = None
    NoResult = NoResult
INVARIANTS
    TypeOK
    MemoryIsPersisted
    OneChangeAtATime
PROPERTIES
    ReadsSeeWrites
    AtomicCalls
CHECK_DEADLOCK FALSE
