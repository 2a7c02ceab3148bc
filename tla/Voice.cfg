\* Two utterances, a talking human, a leave at any time.
SPECIFICATION FairSpec
CONSTANTS
    Speaks = {s1, s2}
    StreamIds = {s1, s2}
    IdOf <- FreshIds
    None = None
INVARIANT
    VoiceIsAccountedFor
PROPERTIES
    LeaveSilences
    HumanIsHeard
CHECK_DEADLOCK FALSE
