SPECIFICATION FairSpec
CONSTANTS
    Users = {1, 2}
    Values = {a}
    Absent = Absent
    None = None
    MaxChanges = 1
    MaxEpoch = 3
    PageSize = 1
    MaxStreams = 2
    MaxTrouble = 1
INVARIANTS
    ReadyIsComplete
    MessagesFit
    NoSilentStall
PROPERTIES
    Implements
    Converges
CHECK_DEADLOCK FALSE
