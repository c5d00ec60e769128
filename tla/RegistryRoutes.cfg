SPECIFICATION Spec
CONSTANTS
    a = a
    b = b
    Files = {f, g}
    Hidden = {}
    Names = {a, b}
    Contents <- ThreeContents
    Clients = {c1, c2}
    MaxRows = 2
    MaxStimuli = 3
    NoFile = NoFile
    NoClass = NoClass
    NoName = NoName
SYMMETRY Symmetry
INVARIANTS TypeOK OnePath ReloadCatchesUp OneRowUnlessRaced DeletedIsStopped
CHECK_DEADLOCK FALSE
