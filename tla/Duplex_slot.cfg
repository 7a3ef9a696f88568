\* A client with two more connections for its session, and a client of another session.
CONSTANTS
    h1 = h1
    h2 = h2
    h3 = h3
    h4 = h4
    i1 = i1
    i2 = i2
    Sockets = {h1, h2, h3, h4}
    SessionIds = {i1, i2}
    IdOf <- MCIdOf
    Screened = {h1}
    Rejoiners = {h2, h3}
    Resetters = {h1}
    MaxFaults = 1
    NoSock = NoSock
    NoModel = NoModel
SPECIFICATION MCFairSpec
INVARIANTS SlotIsOwned HeldIsWhole
PROPERTIES SlotIsFreed ScreenEnds
\* The system stops for good once every socket is done.
CHECK_DEADLOCK FALSE
