CONSTANTS
    Spiders = {s1}
    NoSpider = NoSpider
    MaxTasks = 1
    MaxRetries = 0
    MaxFaults = 0
    Callers = {c1}
    Lifespan = Lifespan
SPECIFICATION Spec
INVARIANT PausedIsResumable
CHECK_DEADLOCK FALSE
