SPECIFICATION SendSpec
CONSTANTS
    TgrLen = 2
    Room = 5
    MaxTgr = 6
INVARIANT WholeTelegrams
CHECK_DEADLOCK FALSE
