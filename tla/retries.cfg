SPECIFICATION Spec
CONSTANTS
    None = None
    Collections = {c1}
    Objects = {o1, o2}
    Blobs = {k1, k2}
    MutationIDs = {m1}
    Requests = {r1, r2}
    Maintainers = {s1}
    Operations = {"create-inline"}
    StagedLifetime = 1
    RetainedLifetime = 1
    PendingLifetime = 1
    OutcomeLifetime = 1
    MaxTime = 2
    MaxVersion = 2
    CollectGarbage = TRUE
    Faults = TRUE
SYMMETRY Symmetry
INVARIANTS
    TypeOK
    CreatesAreRecoverable
    RetriesAgree
    CursorOrdersChanges
    LiveObjectsHoldTheirClaim
    BytesBehindContents
PROPERTIES
    OutcomesAreFinal
