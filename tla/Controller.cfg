CONSTANTS
    c1 = c1
    c2 = c2
    a1 = a1
    a2 = a2
    Join = join
    Leave = leave
    None = none
    Chats = {c1, c2}
    AvatarCalls = {a1, a2}
    Enabling = {a1}
    MaxMisses = 1
    MaxCalls = 2
    Commands <- MCCommands
    TypeOf <- MCTypeOf
SPECIFICATION Spec
INVARIANTS
    NoCommandActsLate
    ChatsAreWhole
    CameraShowsFrames
PROPERTY LeaveIsFinal
CONSTRAINT OneFault
SYMMETRY Callers
CHECK_DEADLOCK FALSE
