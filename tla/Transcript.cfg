\* One meeting of each provider.
SPECIFICATION FairSpec
CONSTANTS
    Meetings = {v1, r1}
    Vellum = {v1}
    Conversing = {v1, r1}
    Leavers = {v1, r1}
    MaxVellumLines = 2
    MaxRecallLines = 1
INVARIANTS
    TypeOK
    ConversationHasEveryLine
    DeadMeetingIsForgotten
PROPERTIES
    EveryLineArrives
CHECK_DEADLOCK FALSE
