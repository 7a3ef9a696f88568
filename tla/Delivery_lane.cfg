SPECIFICATION MCFairSpec
CONSTANTS
    r1 = r1
    r2 = r2
    a1 = a1
    Results = {r1, r2}
    Alerts = {a1}
    Questions = {r2}
    AckModes = {TRUE, FALSE}
    Subscribed = TRUE
    MaxTurns = 2
    MaxFailures = 1
    MaxDrops = 1
    Nothing = Nothing
INVARIANTS SpokenOnce DeliveredWasHeard
PROPERTIES NoOverlap EveryResultIsDelivered
\* The system stops for good once every request and every actor is done.
CHECK_DEADLOCK FALSE
