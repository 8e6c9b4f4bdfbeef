CONSTANTS
    a1 = a1
    a2 = a2
    NoOne = NoOne
    Accounts = {a1, a2}
    IncomingCap = 2
    MaxConns = 1
    MaxReqs = 2
    MaxWire = 4
    MaxHistory = 1
    ClientEnv = {"cut"}
SPECIFICATION FairSpec
PROPERTIES EventsAreApplied ReadersEnd DropIsNoticed LoadingEnds
