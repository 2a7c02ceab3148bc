\* Either runtime under an init, a restart and a shutdown in any order, also
\* overlapping; a worker has one bot.
CONSTANTS
    Inits = {load}
    Restarts = {route}
    Shutdowns = {disable}
    Stubborn = {load}
    Mute = {load}
    MaxReloads = 1
    Meetings = {m1}
    Deaf = {m1}
    None = None
SPECIFICATION ProviderSpec
CHECK_DEADLOCK FALSE
INVARIANTS
    RuntimesInTurn
    SweepSparesTheLive
PROPERTY
    RuntimesSettle
