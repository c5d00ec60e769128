CONSTANTS
    Spiders = {s1, s2}
    NoSpider = NoSpider
    MaxTasks = 2
    MaxRetries = 1
    MaxFaults = 1
    Callers = {c1}
    Lifespan = Lifespan
SPECIFICATION Spec
INVARIANT TypeOK
PROPERTIES OutcomeIsFinal ImplementsLedger
CHECK_DEADLOCK FALSE
