\* Three events in batches of up to two, one retry; three lines under one label.
SPECIFICATION FairSpec
CONSTANTS
    People <- AnnAndBob
    Chats = {c1}
    KeyOf <- Alike
    MaxPageChanges = 2
    MaxBatchSize = 2
    Attempts = 2
    MaxEvents = 3
    MaxFaults = 1
    Labels = {l1}
    MappingReplaceThreshold = 2
    MaxLines = 3
CONSTRAINT OneTrouble
INVARIANT
    RecordsTellTheMeeting
PROPERTIES
    SeenInOrder
    BindingIsEarned
    PageIsTold
    StopDrains
CHECK_DEADLOCK FALSE
