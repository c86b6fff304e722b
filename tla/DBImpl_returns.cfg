\* Clients that never put a name that may still be cached, fairly scheduled.
SPECIFICATION FairSpec
CONSTANTS
    Threads = {t1, t2}
    Keys <- MCKeys
    Values <- MCOneValue
    Empty = ""
    CStr <- MCCStr
    SizeOf <- MCSizeOf
    NullPtr = NullPtr
    Absent = Absent
    NoThread = NoThread
    Shards = {1}
    ShardOf <- MCOneShard
    CACHE_SIZE = 1
    MEM_TABLE_MAX_SIZE = 2
    DirEndsInSlash = FALSE
    Overwrites = FALSE
    MaxCalls = 4
    MaxCrashes = 1
INVARIANTS
    NodeNeverNull
    ReadsLatest
PROPERTY CallsReturn
CHECK_DEADLOCK FALSE
