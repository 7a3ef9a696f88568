\* Every part: two tasks of one workspace and one slot, one ask, one crash and one
\* failure; three turns of a coordinator; the runs of a Codex
\* worker; the sessions of the visual service.
CONSTANTS
    Parts = {"tasks", "coordinator", "codex runs", "codex side queries", "codex faults",
             "visual answers", "visual usage"}
    Tasks = {t1, t2}
    Workspaces = {w1}
    WorkspaceOf <- MCWorkspaceOf
    Slots = 1
    Asks = {a1}
    Permissions = {a1}
    MaxReplies = 1
    MaxFaults = 1
    MaxCrashes = 1
    NoTask = NoTask
    Turns = {u1, u2, u3}
    MaxConsults = 1
    MaxCoordCrashes = 1
    NoTurn = NoTurn
    t1 = t1
    x1 = x1
    CxRuns = {x1, x2}
    CxAsks = {k1}
    CxQueries = {y1, y2}
    Sides <- MCSides
    Queued = {x1}
    MaxTurns = 2
    MaxCxFaults = 1
    NoRun = NoRun
    NoQuery = NoQuery
    s1 = s1
    g1 = g1
    VsSessions = {s1, s2}
    VsCallers = {c1, c2}
    VsRequests = {q1, q2, q3}
    VsGoals = {g1, g2}
    MaxSessions = 1
    MaxFrames = 2
    MaxAnswers = 4
    MaxReplay = 1
    MaxExpired = 1
    MaxOut = 1
    MaxQueue = 1
    MaxBatch = 1
    MaxTasks = 2
    MaxFree = 1
    MaxVsFaults = 1
    NoGoal = NoGoal
    NoSession = NoSession
SPECIFICATION MCSpec
INVARIANTS
    HeardOnce
    NoMootAsk
    TurnPlannedOnce
    NobodyWaitsInVain
    AskIsHeld
    UsageIsCountedOnce
    OneAnswerPerRequest
CHECK_DEADLOCK FALSE
