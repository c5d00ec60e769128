SPECIFICATION FairSpec
CONSTANTS
    BatchSize = 2
    QueueSize = 2
    Deadline = 2
    MaxItems = 9
INVARIANTS
    TypeOK
    DrainedIsComplete
    ErrorComesLast
    BackPressure
PROPERTIES
    ImplementsStream
    ReadEnds
    SandboxEnds
CHECK_DEADLOCK FALSE
