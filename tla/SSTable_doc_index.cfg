\* index_block_builder.h: the entry of a block has its offset and a key above its keys.
SPECIFICATION Spec
CONSTANTS
    Keys <- DocKeys
    Values <- MCValues
    Hash <- MCHash
    HASH_BITS = 8
    HIGH_BITS = 5
    RESTART_INTERVAL = 2
    MAX_DATA_BLOCK_SIZE = 40
    KEYS_NUM = 2
INVARIANT IndexLocatesBlocks
CHECK_DEADLOCK FALSE
