SPECIFICATION FairSpec
CONSTANTS
    Addr = {p1, p2, p3}
    Accs = {a1, a2, a3}
    Fds = {f1, f2}
    MaxBuf = 1
    Dynamic = FALSE
    AutoConnect = TRUE
    Impatient = FALSE
    PortReuse = FALSE
    None = None
    Null = Null
INVARIANT NoOrphan
INVARIANT LastReportTrue
INVARIANT ConfiguredIsConnected
PROPERTY OneConnectionAtATime
PROPERTY EndIsTold
PROPERTY ConnectEnds
PROPERTY EndIsReported
