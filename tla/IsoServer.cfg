SPECIFICATION Spec
CONSTANTS
    m1 = m1
    m2 = m2
    Modules = {m1, m2}
    LocalPort <- Ports
    RemotePort <- Partners
    Digits = {0, 1}
    Width = 2
    Accs = {a1, a2, a3}
    Tsaps <- Asked
    Repeats = FALSE
    None = None
SYMMETRY Symmetry
INVARIANT VectorsMatch
INVARIANT RightModule
PROPERTY ModulesApart
