CONSTANTS
    c1 = c1
    u1 = u1
    NoOne = NoOne
    Conns = {c1}
    Users = {u1}
    Mids = {}
    Calendar = {}
    Stamps = {}
    QueueCap = 8
    HistLimit = 2
    MaxReqs = 1
    Env = {"signal"}
SPECIFICATION FairSpec
PROPERTIES ShutdownCompletes
