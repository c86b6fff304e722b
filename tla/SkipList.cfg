\* Three keys, two values and three levels, every operation run to its end.
SPECIFICATION FairSpec
CONSTANTS
    Keys <- MCKeys
    Values <- MCValues
    Absent = Absent
    kMaxHeight = 3
    KeySize <- MCKeySize
    ValueSize <- MCValueSize
INVARIANTS
    TypeOK
    LevelsSorted
    InBounds
    SizeExact
    Accounts
PROPERTIES
    ImplementsMap
    OperationsEnd
