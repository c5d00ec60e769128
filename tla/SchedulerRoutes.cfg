SPECIFICATION Spec
CONSTANTS
    Spiders = {s1}
    NoSpider = NoSpider
    Crons = {k1}
    BadCron = BadCron
    NoCron = NoCron
    NoJob = NoJob
    ClassCrons = {k1, NoCron}
    Clients = {c1, c2}
    MaxSchedules = 2
SYMMETRY ClientSymmetry
INVARIANTS
    TypeOK
    OneJobPerSpider
    ScheduledAsShown
