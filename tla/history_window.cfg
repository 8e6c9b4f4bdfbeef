CONSTANTS
    h1 = h1
    h2 = h2
    n1 = n1
    n2 = n2
    a1 = a1
    a2 = a2
    s1 = s1
    s2 = s2
    m1 = m1
    m2 = m2
    NoOne = NoOne
    Handlers = {h1, h2}
    Names = {n1, n2}
    Addresses = {a1, a2}
    Secrets = {s1, s2}
    Mids = {m1, m2}
    Stamps = {1}
    Calendar = {1}
    Limits = {0, 1}
    DefaultLimit = 1
    Kinds = {"save", "load"}
    MaxCalls = 3
SPECIFICATION Spec
INVARIANTS NewestAreShown
