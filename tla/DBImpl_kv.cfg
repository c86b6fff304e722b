\* Two threads, keys and values with a NUL byte (also as the first one), flushes, a crash and a restart.
SPECIFICATION Spec
CONSTANTS
    Threads = {t1, t2}
    Keys <- MCNulKeys
    Values <- MCNulValues
    Empty = ""
    CStr <- MCCStr
    SizeOf <- MCSizeOf
    NullPtr = NullPtr
    Absent = Absent
    NoThread = NoThread
    Shards = {1, 2}
    ShardOf <- MCTwoShards
    CACHE_SIZE = 1
    MEM_TABLE_MAX_SIZE = 2
    DirEndsInSlash = TRUE
    Overwrites = TRUE
    MaxCalls = 3
    MaxCrashes = 1
SYMMETRY Symmetry
INVARIANTS
    TypeOK
    CacheCoherent
    NothingForgotten
PROPERTY ImplementsKVStore
CHECK_DEADLOCK FALSE
