SPECIFICATION Spec
CONSTANTS
    None = None
    Collections = {c1}
    Objects = {o1}
    Blobs = {k1, k2, k3}
    MutationIDs = {m1}
    Requests = {r1, r2}
    Maintainers = {}
    Operations = {"create-inline", "update-inline", "delete"}
    StagedLifetime = 1
    RetainedLifetime = 1
    PendingLifetime = 1
    OutcomeLifetime = 1
    MaxTime = 0
    MaxVersion = 3
    CollectGarbage = TRUE
    Faults = FALSE
SYMMETRY Symmetry
INVARIANTS
    ClaimNamesItsVersion
    NoLostUpdate
PROPERTIES
    CollectionsAreFeeds
