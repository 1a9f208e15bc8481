SPECIFICATION SendFairSpec
CONSTANTS
    TgrLen = 2
    Room = 5
    MaxTgr = 6
INVARIANT WaitingAreLatest
INVARIANT NoneDropped
PROPERTY InOrder
PROPERTY QueueDrains
CHECK_DEADLOCK FALSE
