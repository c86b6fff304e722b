\* Two users, more keys in a shard than it has room for.
SPECIFICATION Spec
CONSTANTS
    Users = {u1, u2}
    Keys = {"a", "b", "c", "d"}
    Shards = {1, 2}
    ShardOf <- MCShardOf
    cap = 2
    LockType = "MutexLock"
    NoUser = NoUser
    MaxCalls = 7
SYMMETRY Symmetry
INVARIANTS
    TypeOK
    ListsIndexed
    RefsExact
    GarbageKept
PROPERTIES
    ImplementsKeyCache
    CallsTakeEffect
CHECK_DEADLOCK FALSE
