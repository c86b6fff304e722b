\* db_impl.cpp: Get reads the memtable and then the sst files.
SPECIFICATION Spec
CONSTANTS
    Threads = {t1}
    Keys <- MCKeys
    Values <- MCOneValue
    Empty = ""
    CStr <- MCCStr
    SizeOf <- MCSizeOf
    NullPtr = NullPtr
    Absent = Absent
    NoThread = NoThread
    Shards = {1}
    ShardOf <- MCOneShard
    CACHE_SIZE = 1
    MEM_TABLE_MAX_SIZE = 2
    DirEndsInSlash = FALSE
    Overwrites = TRUE
    MaxCalls = 4
    MaxCrashes = 1
INVARIANTS
    GetReadsDown
CHECK_DEADLOCK FALSE
