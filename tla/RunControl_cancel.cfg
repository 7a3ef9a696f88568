SPECIFICATION MCFairSpec
CONSTANTS
    Parts = {"cancel"}
    MaxRuns = 1
    MaxAttempts = 1
    MaxCrashes = 0
    Patches = {p1}
    Dispatchers = {d1}
    CancelTasks = {t1}
    Reconcilers = {c1}
    Requests = {q1}
    Users = {u1}
    Endpoints = {"exchange"}
    NoPatch = NoPatch
    NoOne = NoOne
PROPERTIES RunsSettle
\* The system stops for good once every request and every actor is done.
CHECK_DEADLOCK FALSE
