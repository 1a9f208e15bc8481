SPECIFICATION FairSpec
CONSTANTS
    Handles = {h1, h2, h3}
    None = None
INVARIANT HandlesValid
INVARIANT ServerHeard
INVARIANT NeverGivesUp
PROPERTY Reconnects
