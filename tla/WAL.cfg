\* Three records and two crashes, lengths around the size of the buffer, and
\* logs below and above the limit of FileReader's offsets.
SPECIFICATION Spec
CONSTANTS
    Bytes <- MCBytes
    BUFFER_SIZE = 4
    kHeaderSize = 2
    Lens <- MCLens
    OffsetLimit = 20
    MaxLogs = 3
    MaxCrashes = 2
INVARIANTS
    TypeOK
    NothingLost
    AckedOnDisk
PROPERTY AllRead
CHECK_DEADLOCK FALSE
