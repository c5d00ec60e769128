SPECIFICATION Spec
CONSTANTS
    Deadline = 2
    MaxItems = 3
INVARIANTS FailureIsRaised
CHECK_DEADLOCK FALSE
