SPECIFICATION FairSpec
CONSTANTS
    Header = 4
    Lens = {4, 5, 9}
    MaxTel = 3
    Outlives = FALSE
INVARIANT InStep
INVARIANT Framed
PROPERTY Delivered
