CONSTANTS
    h1 = h1
    h2 = h2
    n1 = n1
    n2 = n2
    a1 = a1
    a2 = a2
    s1 = s1
    m1 = m1
    m2 = m2
    NoOne = NoOne
    Handlers = {h1, h2}
    Names = {n1, n2}
    Addresses = {a1, a2}
    Secrets = {s1}
    Mids = {m1, m2}
    Stamps = {1, 2}
    Calendar = {1}
    Limits = {0}
    DefaultLimit = 1
    Kinds = {"signup", "login", "save", "load"}
    MaxCalls = 3
SPECIFICATION Spec
SYMMETRY Symmetry
INVARIANTS StorageTypeOK OwnersCanLogIn OneOwner SavesAreWhole ShownWasSaved StartRefused
PROPERTIES RowsGiveWay
