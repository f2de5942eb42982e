SPECIFICATION FairSpec
CONSTANTS
    i1 = i1
    i2 = i2
    app1 = app1
    app2 = app2
    Instances <- MCInstances
    Updates <- Blocking
    KindOf <- MCKindOf
    InstanceOf <- MCInstanceOf
    AppOf <- TwoApps
    QueueSize = 2
    DeadlinesPass = TRUE
    AskMayTimeOut = TRUE
    FailuresAmbiguous = TRUE
    MaxCrashes = 1
    None = None
    NoResult = NoResult
INVARIANT
    SubscriberFollows
PROPERTY
    EveryCallAnswered
CHECK_DEADLOCK FALSE
