SPECIFICATION Spec
CONSTANTS
    Deadline = 2
    MaxItems = 3
INVARIANTS EndsAfterItems
PROPERTIES ImplementsStream ReaderEnds
CHECK_DEADLOCK FALSE
