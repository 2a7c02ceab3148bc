CONSTANTS
    NoJoin = NoJoin
    Joins = {m1}
    Meetings = {m1}
    MeetingOf <- FreshIds
    Callers = {c1, c2}
    FaultyCalls = {"stop", "inspect"}
SPECIFICATION FairSpec
CHECK_DEADLOCK FALSE
INVARIANTS
    TypeOK
    TeardownsAreComplete
PROPERTIES
    ExitNotReportedWhileLeaving
    TeardownsEnd
    ImplementsLease
