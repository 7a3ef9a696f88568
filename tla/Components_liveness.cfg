\* The same parts, each at a size its liveness can be checked at.
CONSTANTS
    Parts = {"tasks that queue", "a task", "coordinator", "codex runs", "codex faults"}
    Tasks = {t1, t2}
    Workspaces = {w1}
    WorkspaceOf <- MCWorkspaceOf
    Slots = 1
    Asks = {a1}
    Permissions = {a1}
    MaxReplies = 1
    MaxFaults = 1
    MaxCrashes = 1
    NoTask = NoTask
    Turns = {u1, u2}
    MaxConsults = 1
    MaxCoordCrashes = 0
    NoTurn = NoTurn
    t1 = t1
    x1 = x1
    CxRuns = {x1, x2}
    CxAsks = {}
    CxQueries = {y1}
    Sides <- MCSides
    Queued = {}
    MaxTurns = 1
    MaxCxFaults = 1
    NoRun = NoRun
    NoQuery = NoQuery
    s1 = s1
    g1 = g1
    VsSessions = {s1}
    VsCallers = {c1}
    VsRequests = {q1}
    VsGoals = {g1}
    MaxSessions = 1
    MaxFrames = 2
    MaxAnswers = 4
    MaxReplay = 1
    MaxExpired = 1
    MaxOut = 1
    MaxQueue = 1
    MaxBatch = 1
    MaxTasks = 2
    MaxFree = 1
    MaxVsFaults = 1
    NoGoal = NoGoal
    NoSession = NoSession
SPECIFICATION MCFairSpec
PROPERTIES
    CancelEnds
    EveryTaskEnds
    ForksAreReleased
    ClosedRunEnds
CHECK_DEADLOCK FALSE
