\* Two clients; TCP may cut what was sent once: in the count, in a length or in an argument.
SPECIFICATION Spec
CONSTANTS
    Conns = {c1, c2}
    Chars <- MCChars
    Commands <- MCCommands
    Raw <- MCRaw
    MaxSends = 3
    Cuts = {1, 6, 24}
    MaxCuts = 1
INVARIANTS
    TypeOK
    ParseInverts
    RecentKeysAnswered
PROPERTIES
    
    Answered
CHECK_DEADLOCK FALSE
