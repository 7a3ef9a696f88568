\* One client, whose first socket may send a reset.
CONSTANTS
    h1 = h1
    h2 = h2
    h3 = h3
    h4 = h4
    i1 = i1
    i2 = i2
    Sockets = {h1, h2, h3, h4}
    SessionIds = {i1, i2}
    IdOf <- MCIdOf
    Screened = {h1}
    Rejoiners = {}
    Resetters = {h1}
    MaxFaults = 0
    NoSock = NoSock
    NoModel = NoModel
SPECIFICATION MCFairSpec
PROPERTIES ResetKeepsTheSession
\* The system stops for good once every socket is done.
CHECK_DEADLOCK FALSE
