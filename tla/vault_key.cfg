SPECIFICATION Spec
CONSTANTS
    Devices = {d1, d2}
    Materials = {m1, m2}
    None = None
    Millisecond = 2
    MaxClock = 3
    MaxRevision = 6
    MaxMessages = 2
SYMMETRY Symmetry
INVARIANTS
    TokensNameOneKey
    NoKeyIsAhead
PROPERTY
    OnlyTheSeenKeyIsReplaced
