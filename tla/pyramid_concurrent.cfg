CONSTANTS
    r1 = r1
    r2 = r2
    r3 = r3
    corner = corner
    half = half
    line = line
    Request = {r1, r2}
    Feature = {corner, half, line}
    Unsupported = {line}
    MaxZoom = 1
    Target <- MCShallowTarget
    Content <- MCContent
    EmptyArray <- MCEmptyArray
    Solid <- MCNone
    InFlight = 2
    Loader = Loader
    Null = Null
    Pending = Pending
    Failed = Failed
SPECIFICATION Spec
INVARIANTS
    ServedTilesAreRight
PROPERTIES
    TransformedTilesStay
    EveryRequestIsAnswered
