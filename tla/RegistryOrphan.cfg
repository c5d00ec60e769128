SPECIFICATION Spec
CONSTANTS
    a = a
    b = b
    Files = {f}
    Hidden = {}
    Names = {a}
    Contents <- OneContent
    Clients = {c1, c2}
    MaxRows = 2
    MaxStimuli = 5
    NoFile = NoFile
    NoClass = NoClass
    NoName = NoName
INVARIANTS DeletedStops
CHECK_DEADLOCK FALSE
