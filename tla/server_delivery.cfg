CONSTANTS
    c1 = c1
    c2 = c2
    u1 = u1
    u2 = u2
    m1 = m1
    m2 = m2
    NoOne = NoOne
    Conns = {c1, c2}
    Users = {u1, u2}
    Mids = {m1, m2}
    Calendar = {1, 2}
    Stamps = {1, 2}
    QueueCap = 8
    HistLimit = 2
    MaxReqs = 2
    Env = {"crash"}
SPECIFICATION SeededSpec
SYMMETRY Symmetry
ACTION_CONSTRAINTS LazyWriter FourToAll
INVARIANTS TypeOK PeerViewCurrent NoMessageMissed JoinOrder SeenIsStored NoPanic
