CONSTANTS
    c1 = c1
    u1 = u1
    m1 = m1
    NoOne = NoOne
    Conns = {c1}
    Users = {u1}
    Mids = {m1}
    Calendar = {1}
    Stamps = {1}
    QueueCap = 8
    HistLimit = 2
    MaxReqs = 2
    Env = {"signal"}
SPECIFICATION Spec
INVARIANTS NoPanic
