CONSTANTS
    s1 = s1
    s2 = s2
    p1 = p1
    p2 = p2
    Senders = {s1, s2}
    Strand = Strand
    Packets = {p1, p2}
    NoPacket = NoPacket
    MaxPush = 3
    MaxInQueue = 3
SPECIFICATION FairSpec
INVARIANTS
    TypeOK
    OneWrite
    FifoDelivery
    NoStrandedPacket
    PlayerLifecycle
PROPERTIES
    ImplementsOrderedDelivery
    Drains
    Closes
CHECK_DEADLOCK FALSE
