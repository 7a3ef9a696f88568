SPECIFICATION Spec
CONSTANTS
    MaxRuns = 1
    MaxAttempts = 1
    MaxCrashes = 0
    Patches = {p1}
    Dispatchers = {d1}
    CancelTasks = {t1}
    Reconcilers = {}
    Requests = {q1}
    Users = {u1}
    Endpoints = {"exchange", "complete"}
    NoPatch = NoPatch
    NoOne = NoOne
INVARIANTS CancelledRunHasNoToken
\* The system stops for good once every run and every actor is done.
CHECK_DEADLOCK FALSE
