CONSTANTS
    Spiders = {s1}
    NoSpider = NoSpider
    MaxTasks = 2
    MaxRetries = 1
    MaxFaults = 1
    Callers = {c1}
    Lifespan = Lifespan
SPECIFICATION FairSpec
PROPERTIES StopReturns RunEnds ShutdownEnds
CHECK_DEADLOCK FALSE
