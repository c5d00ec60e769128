SPECIFICATION Spec
CONSTANTS
    Spiders = {s1}
    NoSpider = NoSpider
    Crons = {k1, k2}
    BadCron = BadCron
    NoCron = NoCron
    NoJob = NoJob
    ClassCrons = {k1, k2}
    Clients = {c1}
    MaxSchedules = 1
INVARIANT ClassIsScheduled
