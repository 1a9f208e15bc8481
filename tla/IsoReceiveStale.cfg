SPECIFICATION Spec
CONSTANTS
    Header = 4
    Lens = {4, 5, 9}
    MaxTel = 3
    Outlives = TRUE
INVARIANT Framed
