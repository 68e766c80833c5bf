CONSTANTS
    s1 = s1
    p1 = p1
    Senders = {s1}
    Strand = Strand
    Packets = {p1}
    NoPacket = NoPacket
    MaxPush = 2
    MaxInQueue = 1
SPECIFICATION Spec
INVARIANT NulloptNeverReturned
CHECK_DEADLOCK FALSE
