SPECIFICATION Spec
CONSTANTS
    Addr = {p1, p2}
    Accs = {a1, a2, a3}
    Fds = {f1, f2}
    MaxBuf = 1
    Dynamic = TRUE
    AutoConnect = TRUE
    Impatient = TRUE
    PortReuse = TRUE
    None = None
    Null = Null
SYMMETRY Symmetry
INVARIANT NoDangling
INVARIANT PausedIsClosed
INVARIANT OwnHandleWatched
