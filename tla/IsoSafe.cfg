SPECIFICATION FairSpec
CONSTANTS
    Accs = {a1, a2}
    a1 = a1
    a2 = a2
    Fds = {f1, f2}
    f1 = f1
    f2 = f2
    MaxBuf = 2
    FailsAtOnce = TRUE
    None = None
INVARIANT VectorMatches
INVARIANT NoneWaitsBesideOwn
INVARIANT PausedIsCutOff
PROPERTY OneConnectionAtATime
PROPERTY NoneDroppedSilently
PROPERTY ConnectEnds
PROPERTY PeerEndReported
