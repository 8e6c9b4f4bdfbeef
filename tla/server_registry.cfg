CONSTANTS
    c1 = c1
    c2 = c2
    u1 = u1
    u2 = u2
    m1 = m1
    NoOne = NoOne
    Conns = {c1, c2}
    Users = {u1, u2}
    Mids = {m1}
    Calendar = {1}
    Stamps = {1, 2}
    QueueCap = 9
    HistLimit = 1
    MaxReqs = 2
    Env = {"signal", "crash", "dbfail", "slow"}
SPECIFICATION NewOrOldSpec
SYMMETRY Symmetry
INVARIANTS RegistryMatchesSessions WriterReleased
PROPERTIES OwnerLeaves ImplementsRoom
ACTION_CONSTRAINTS LazyWriter ThreeRequests UndatedToAll
