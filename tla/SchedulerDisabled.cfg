SPECIFICATION Spec
CONSTANTS
    Spiders = {s1}
    NoSpider = NoSpider
    Crons = {k1}
    BadCron = BadCron
    NoCron = NoCron
    NoJob = NoJob
    ClassCrons = {NoCron}
    Clients = {c1}
    MaxSchedules = 1
INVARIANT DisabledIsQuiet
