SPECIFICATION FairSpec
CONSTANTS
    Collections = {c1}
    Objects = {o1, o2, o3}
    Devices = {d1}
    None = None
    Limits = {1, None}
    MaxVersion = 4
INVARIANTS
    NothingIsSkipped
    DonePullsCatchUp
PROPERTY
    ChangesArrive
CHECK_DEADLOCK FALSE
