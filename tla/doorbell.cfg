SPECIFICATION FairSpec
CONSTANTS
    Collections = {c1}
    Devices = {d1, d2}
    MaxVersion = 2
INVARIANTS
    NoChangeIsSilent
    HubHoldsOpenStreams
PROPERTY
    DevicesCatchUp
