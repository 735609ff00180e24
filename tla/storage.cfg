SPECIFICATION ClockSpec
CONSTANTS
    None = None
    Collections = {c1}
    Objects = {o1}
    Blobs = {k1}
    MutationIDs = {m1}
    Requests = {r1}
    Maintainers = {s1}
    Operations = {"create-inline", "upload", "create", "delete-blob", "delete"}
    StagedLifetime = 1
    RetainedLifetime = 1
    PendingLifetime = 1
    OutcomeLifetime = 1
    MaxTime = 2
    MaxVersion = 2
    CollectGarbage = TRUE
    Faults = TRUE
PROPERTIES
    BlobsFollowTheirLifetime
    StagedBlobsDoNotLinger
    ClaimsDoNotLinger
    PurgeableRowsGo
    OrphansAreFound
