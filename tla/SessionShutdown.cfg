\* Two meetings joined and shut down together; the engine may refuse to wait.
CONSTANTS
    NoJoin = NoJoin
    Joins = {m1, m2}
    Meetings = {m1, m2}
    MeetingOf <- FreshIds
    Callers = {}
    FaultyCalls = {"wait"}
SPECIFICATION Spec
CHECK_DEADLOCK FALSE
INVARIANTS
    BotIsAuthenticated
    ShutdownIsOrderly
