\* Three records to a group, up to five to a block, a filter made for two keys.
SPECIFICATION Spec
CONSTANTS
    Keys <- MCKeys
    Values <- MCValues
    Hash <- MCHash
    HASH_BITS = 8
    HIGH_BITS = 5
    RESTART_INTERVAL = 3
    MAX_DATA_BLOCK_SIZE = 60
    KEYS_NUM = 2
INVARIANTS
    TypeOK
    FooterLocates
    BlocksDecode
    NoFalseNegatives
    ParseFindsBlocks
CHECK_DEADLOCK FALSE
