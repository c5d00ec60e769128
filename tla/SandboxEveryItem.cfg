SPECIFICATION Spec
CONSTANTS
    BatchSize = 2
    QueueSize = 2
    Deadline = 2
    MaxItems = 3
INVARIANT YieldsEveryItem
CHECK_DEADLOCK FALSE
