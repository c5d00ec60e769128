CONSTANTS
    Spiders = {s1}
    NoSpider = NoSpider
    MaxTasks = 2
    MaxRetries = 1
    MaxFaults = 0
    Callers = {c1, c2}
    Lifespan = Lifespan
SPECIFICATION Spec
SYMMETRY CallerSymmetry
INVARIANTS SingletonUnlessRaced NoStrandedRow NoAbandonedSandbox RowsAgree
PROPERTY NoItemAfterStop
CHECK_DEADLOCK FALSE
