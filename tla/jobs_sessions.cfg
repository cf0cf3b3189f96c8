CONSTANTS
    p1 = p1
    p2 = p2
    p3 = p3
    s1 = s1
    s2 = s2
    s3 = s3
    cities = cities
    roads = roads
    Post = {p1, p2, p3}
    Session <- MCOwnSession
    Guid = {s1, s2}
    Prefix <- MCPrefix
    FileName <- MCOneFile
    Known = {p1, p2, p3}
    Endless = {}
    Broken = {}
    View = {v1}
    Wanted <- MCWanted
    Receiver = Receiver
    MaxConcurrentCalls = 2
    MaxCrash = 1
    Absent = Absent
    Blank = Blank
    Mixed = Mixed
    Tangled = Tangled
    Null = Null
    Failed = Failed
SPECIFICATION Spec
INVARIANTS
    ListedLayersAreReady
    LayerShowsItsFile
CHECK_DEADLOCK FALSE
