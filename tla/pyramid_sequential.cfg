CONSTANTS
    r1 = r1
    r2 = r2
    r3 = r3
    corner = corner
    half = half
    line = line
    Request = {r1, r2, r3}
    Feature = {corner, half, line}
    Unsupported = {line}
    MaxZoom = 3
    Target <- MCTarget
    Content <- MCContent
    EmptyArray <- MCEmptyArray
    Solid <- MCSolid
    InFlight = 1
    Loader = Loader
    Null = Null
    Pending = Pending
    Failed = Failed
SPECIFICATION Spec
INVARIANTS
    TypeOK
    SourceIsNotNeeded
PROPERTIES
    HeadwayIsMade
    ImplementsTileServer
