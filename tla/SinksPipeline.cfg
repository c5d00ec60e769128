SPECIFICATION Spec
CONSTANTS
    Configs <- PairConfigs
    BatchSize = 2
    MaxItems = 3
    MaxAttempts = 2
INVARIANTS TypeOK OnceUnlessFailed GivenToAll
PROPERTIES ImplementsLog
CHECK_DEADLOCK FALSE
