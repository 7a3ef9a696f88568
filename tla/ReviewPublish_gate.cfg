\* Either route of approval; the crash, of any process at any point, on the API's.
SPECIFICATION MCFairSpec
CONSTANTS
    MaxRuns = 2
    MaxPRs = 1
    MaxCrashes = 1
    Patches = {p1, p2}
    Dashboard = {a1}
    Api = {b1}
    Rejecters = {x1}
    Cancellers = {u1}
    Executors = {e1}
    Publishers = {t1}
    NoPatch = NoPatch
INVARIANTS PullRequestWasReviewed ApiStatusFollowsDecision
PROPERTIES GateIsKept PublishingEnds
