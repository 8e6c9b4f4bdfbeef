CONSTANTS
    c1 = c1
    c2 = c2
    u1 = u1
    u2 = u2
    m1 = m1
    NoOne = NoOne
    Conns = {c1, c2}
    Users = {u1, u2}
    Mids = {m1}
    Calendar = {1}
    Stamps = {1}
    QueueCap = 12
    HistLimit = 2
    MaxReqs = 2
    Env = {"hangup"}
SPECIFICATION LiveSpec
ACTION_CONSTRAINTS LazyWriter FewRequests
PROPERTIES NameIsReleased RequestsFinish
