CONSTANTS
    tiles = tiles
    admin = admin
    job = job
    note = note
    junk = junk
    command = command
    topic = topic
    receiver = receiver
    second = second
    hub = hub
    Client = {tiles, admin}
    Slot = {1}
    Message = {note, junk}
    Type = {command, topic}
    ContentType <- MCContentType
    Malformed = {junk}
    Handler = {receiver, hub}
    Accepts <- MCAccepts
    Registers <- MCRegisters
    ReceiveOnce = FALSE
    MaxDelivery = 2
    MaxCrash = 1
    Null = Null
SPECIFICATION Spec
INVARIANTS
    HandledOncePerDelivery
PROPERTIES
    EverySentMessageIsSettled
CHECK_DEADLOCK FALSE
