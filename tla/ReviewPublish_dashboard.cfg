SPECIFICATION Spec
CONSTANTS
    MaxRuns = 1
    MaxPRs = 1
    MaxCrashes = 0
    Patches = {p1}
    Dashboard = {a1}
    Api = {}
    Rejecters = {x1}
    Cancellers = {}
    Executors = {}
    Publishers = {t1}
    NoPatch = NoPatch
INVARIANTS StatusFollowsDecision
