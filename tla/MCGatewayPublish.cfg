SPECIFICATION LiveSpec
CONSTANTS
    NoPublisher = NoPublisher
    Publishers = {p1, p2}
    LeaseDuration = 3
    RequestTimeout = 1
    MaxGeneration = 2
INVARIANTS
    TypeOK
    SingleMutator
    WithdrawnMeansNoObjects
    RouteNeverDangles
    UrlMeansRouted
PROPERTIES
    ImplementsFence
    
