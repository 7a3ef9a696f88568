SPECIFICATION MCSpec
CONSTANTS
    Parts = {"callbacks", "redelivery", "cancel"}
    MaxRuns = 2
    MaxAttempts = 2
    MaxCrashes = 1
    Patches = {p1, p2}
    Dispatchers = {d1}
    CancelTasks = {t1}
    Reconcilers = {c1}
    Requests = {q1, q2}
    Users = {u1}
    Endpoints = {"exchange", "spec", "source", "complete", "failed"}
    NoPatch = NoPatch
    NoOne = NoOne
SYMMETRY Symmetry
INVARIANTS OneTokenPerRun GateHoldsValidatedPatch RestingJobIsSettled
PROPERTIES CompletionNotReplaced NoTokenRevival
\* The system stops for good once every request and every actor is done.
CHECK_DEADLOCK FALSE
