CONSTANTS
    tiles = tiles
    admin = admin
    job = job
    note = note
    junk = junk
    command = command
    topic = topic
    receiver = receiver
    second = second
    hub = hub
    Client = {tiles, admin}
    Slot = {1, 2}
    Message = {job}
    Type = {command, topic}
    ContentType <- MCContentType
    Malformed = {}
    Handler = {receiver, second}
    Accepts <- MCAccepts
    Registers <- MCRegisters
    ReceiveOnce = TRUE
    MaxDelivery = 3
    MaxCrash = 1
    Null = Null
SPECIFICATION Spec
INVARIANTS
    TypeOK
    HandledAtMostOnce
PROPERTIES
    ImplementsDelivery
CHECK_DEADLOCK FALSE
