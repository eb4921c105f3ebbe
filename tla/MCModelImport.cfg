SPECIFICATION LiveSpec
CONSTANTS
    h1 = h1
    h2 = h2
    r1 = r1
    r2 = r2
    Handlers = {h1, h2}
    Id <- OneProcess
    Nobody = Nobody
    Revs = {r1, r2}
    None = None
    NFiles = 2
    Big = {2}
    Parts = 2
    MaxAttempts = 2
    MaxUploads = 2
    MaxStalls = 1
INVARIANTS
    VersionIsOneRevision
    OutcomeAgrees
PROPERTIES
    ImportEnds
CHECK_DEADLOCK FALSE
