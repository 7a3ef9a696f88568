\* Two calls and a typed command, all for the desktop, one lost socket, one answer the
\* model does not take; the money's sizes are in the module.
CONSTANTS
    l1 = l1
    s1 = s1
    c1 = c1
    c2 = c2
    e1 = e1
    NoOne = NoOne
    NoCall = NoCall
    MaxCalls = 2
    Locals <- MCLocals
    Foreground <- MCDesktop
    Remembered = 2
    MaxDrops = 1
    MaxFailures = 1
SPECIFICATION MCSpec
INVARIANTS
    OneDesktopAction
    AnswerIsOnItsWay
    NoCallIsStranded
    LedgerIsExplained
PROPERTIES
    ContractIsKept
    NoLateStart
\* The system stops for good once every call, command and request is done.
CHECK_DEADLOCK FALSE
