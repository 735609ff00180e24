SPECIFICATION FairSpec
CONSTANTS
    Handlers = {h1, h2}
    Users = {u1}
    Sessions = {s1, s2}
    None = None
    SessionTTL = 2
    MaxTime = 3
INVARIANTS
    OverMeansOver
    SessionsLastTheirTime
PROPERTY
    ExpiredSessionsGo
