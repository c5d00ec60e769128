CONSTANTS
    Spiders = {s1}
    NoSpider = NoSpider
    MaxTasks = 2
    MaxRetries = 0
    MaxFaults = 0
    Callers = {c1, c2}
    Lifespan = Lifespan
SPECIFICATION Spec
SYMMETRY CallerSymmetry
INVARIANT Singleton
CHECK_DEADLOCK FALSE
