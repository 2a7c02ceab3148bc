CONSTANTS
    NoJoin = NoJoin
    Joins = {m1}
    Meetings = {m1}
    MeetingOf <- FreshIds
    Callers = {c1, c2}
    FaultyCalls = {}
SPECIFICATION Spec
CHECK_DEADLOCK FALSE
INVARIANTS
    LeaveNotReentered
