CONSTANTS
    Spiders = {s1}
    NoSpider = NoSpider
    MaxTasks = 1
    MaxRetries = 1
    MaxFaults = 0
    Callers = {c1}
    Lifespan = Lifespan
SPECIFICATION Spec
INVARIANT StopSettlesRow
CHECK_DEADLOCK FALSE
