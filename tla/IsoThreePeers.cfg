SPECIFICATION Spec
CONSTANTS
    Accs = {a1, a2, a3}
    a1 = a1
    a2 = a2
    a3 = a3
    Fds = {f1}
    f1 = f1
    MaxBuf = 1
    FailsAtOnce = FALSE
    None = None
SYMMETRY Symmetry
INVARIANT PausedIsCutOff
