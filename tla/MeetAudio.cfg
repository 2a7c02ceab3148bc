\* One meeting whose bot, daemon, runner and network may each fail at any step.
CONSTANTS
    Requests = {r1}
    Opening = r1
    BufferLimit = 1
    MaxAudio = 2
    MaxEvents = 2
    MaxReconnects = 2
    Stable = 2
SPECIFICATION MeetAudioSpec
CHECK_DEADLOCK FALSE
INVARIANTS
    SessionsAgree
    EndedJoinHoldsNothing
PROPERTIES
    StopReachesProvider
    AudioPathSettles
