CONSTANTS
    c1 = c1
    c2 = c2
    c3 = c3
    u1 = u1
    u2 = u2
    NoOne = NoOne
    Conns = {c1, c2, c3}
    Users = {u1, u2}
    Foreign = {c3}
    Stamps = {1}
    Calendar = {1}
    HistLimit = 2
SPECIFICATION Spec
SYMMETRY Symmetry
VIEW MainView
INVARIANTS SystemTypeOK AnnouncedIsOnDisk MailIsReadable ViewIsRoom FileIsUsable
ACTION_CONSTRAINTS EagerReader NoIdleEnd NoIdleDrop EarlyGivesUp EagerTry OneMessage LateRestart
