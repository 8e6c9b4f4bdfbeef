CONSTANTS
    a1 = a1
    NoOne = NoOne
    Accounts = {a1}
    IncomingCap = 2
    MaxConns = 1
    MaxReqs = 1
    MaxWire = 4
    MaxHistory = 1
    ClientEnv = {}
SPECIFICATION Spec
INVARIANTS HistoryShown
