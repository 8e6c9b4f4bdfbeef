CONSTANTS
    a1 = a1
    a2 = a2
    NoOne = NoOne
    Accounts = {a1, a2}
    IncomingCap = 2
    MaxConns = 2
    MaxReqs = 2
    MaxWire = 5
    MaxHistory = 2
    ClientEnv = {"cut", "latewrite", "tear"}
SPECIFICATION Spec
ACTION_CONSTRAINTS EagerReaders EagerFrames FewPackets
VIEW LiveView
SYMMETRY Symmetry
INVARIANTS ClientTypeOK SessionHonest OneLogin NothingLost MissedOnlyAtFirst AnnouncedKeyIsOwn
