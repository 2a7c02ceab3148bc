\* A meeting of up to four events, over two ticks of the interval.
SPECIFICATION MCSpec
CONSTANTS
    Events <- Talk
    Objections = {"stop"}
    ChatSize = 2
    Window = 4
    Interval = 3
    Debounce = 1
    Dedupe = 1
    Timeout = 1
    Mentions = {"hello"}
    Proactive = TRUE
    VoiceMode = TRUE
    Tier2Debounce = 1
    Tier2Timeout = 1
    Cooldown = 2
    EndOfUtterance = 1
    MaxArrivals = 4
    MaxNow = 6
INVARIANT
    AskedInTime
PROPERTY
    WakesAreEarned
CHECK_DEADLOCK FALSE
