SPECIFICATION Spec
CONSTANTS
    Clients = {c1, c2}
    MaxUsers = 2
    MaxPairs = 2
    MaxStimuli = 2
    Tabs = {t1}
    Gets = {"me"}
    Logins = {"login"}
    Profiles = {"profile"}
    Calls = {}
INVARIANTS FirstIsAdmin TokensMatchUser
PROPERTIES CallEnds
CHECK_DEADLOCK FALSE
