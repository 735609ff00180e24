SPECIFICATION Spec
CONSTANTS
    None = None
    Collections = {c1}
    Objects = {o1}
    Blobs = {k1}
    MutationIDs = {}
    Requests = {r1, r2}
    Maintainers = {s1}
    Operations = {"upload", "create", "delete-blob"}
    StagedLifetime = 1
    RetainedLifetime = 1
    PendingLifetime = 1
    OutcomeLifetime = 1
    MaxTime = 0
    MaxVersion = 1
    CollectGarbage = TRUE
    Faults = FALSE
SYMMETRY Symmetry
INVARIANTS
    BytesBehindContents
