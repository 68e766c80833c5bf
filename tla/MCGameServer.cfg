CONSTANTS
    i1 = i1
    i2 = i2
    s1 = s1
    s2 = s2
    Ids = {i1, i2}
    Senders = {s1, s2}
    ClientOpcodes = {"Unknown"}
    NoPacket = NoPacket
    MaxInputs = 1
    MaxBacklog = 0
SPECIFICATION Spec
SYMMETRY Symmetry
INVARIANTS
    TypeOK
    NoGhostPlayer
    
    ViewConverges
CHECK_DEADLOCK FALSE
