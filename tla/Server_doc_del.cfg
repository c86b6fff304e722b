\* A GET after a DEL.
SPECIFICATION Spec
CONSTANTS
    Conns = {c1, c2}
    Chars <- MCChars
    Commands <- MCCommands
    Raw <- MCRaw
    MaxSends = 3
    Cuts = {}
    MaxCuts = 0
PROPERTY DelDeletes
CHECK_DEADLOCK FALSE
