SPECIFICATION MCFairSpec
CONSTANTS
    Calls = {d1}
    Streams = {s1}
    Leavers = {s1}
    s1 = s1
    ExecCalls = {c1, c2}
    Late = {c1}
    OwnTrace = {c2}
    c2 = c2
    Payments = {}
    Costs <- MCCosts
    Estimate = 2
    Credit = 2
    Opening = 4
    Cap = 3
    MaxModelCalls = 2
    MaxRunCost = 2
    MaxDeliveries = 2
    MaxCrashes = 1
    NoOne = NoOne
    VsSessions = {m1}
    VsCallers = {v1}
    VsRequests = {q1}
    VsGoals = {g1}
    MaxSessions = 1
    MaxFrames = 1
    MaxAnswers = 1
    MaxReplay = 1
    MaxExpired = 1
    MaxOut = 1
    MaxQueue = 1
    MaxBatch = 1
    MaxTasks = 0
    MaxFree = 1
    MaxVsFaults = 1
    NoGoal = NoGoal
    NoSession = NoSession
INVARIANTS OverdraftIsExplained SpendIsExplained OvershootIsOneCall NoHoldIsForgotten
PROPERTIES EverySessionIsReported
\* Everything stops for good once every request is done.
CHECK_DEADLOCK FALSE
