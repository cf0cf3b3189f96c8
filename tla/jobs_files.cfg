CONSTANTS
    p1 = p1
    p2 = p2
    p3 = p3
    s1 = s1
    s2 = s2
    s3 = s3
    cities = cities
    roads = roads
    Post = {p1, p2, p3}
    Session <- MCOneSession
    Guid = {s1}
    Prefix <- MCPrefix
    FileName <- MCAllOneFile
    Known = {p1, p2}
    Endless = {p3}
    Broken = {}
    View = {}
    Wanted <- MCWanted
    Receiver = Receiver
    MaxConcurrentCalls = 2
    MaxCrash = 0
    Absent = Absent
    Blank = Blank
    Mixed = Mixed
    Tangled = Tangled
    Null = Null
    Failed = Failed
SPECIFICATION Spec
INVARIANTS
    TypeOK
    FeaturesAreWholeUploads
PROPERTIES
    JobsEnd
CHECK_DEADLOCK FALSE
