SPECIFICATION Spec
CONSTANTS
    Users = {1, 2, 3}
    Values = {a}
    Absent = Absent
    MaxChanges = 2
    MaxEpoch = 2
    MaxLost = 1
INVARIANTS
    NoLostUpdate
    CachedHasRow
    CompleteCache
    BaselineDisjoint
PROPERTY
    Converges
CHECK_DEADLOCK FALSE
