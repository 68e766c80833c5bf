CONSTANTS
    i1 = i1
    s1 = s1
    Ids = {i1}
    Senders = {s1}
    ClientOpcodes = {"MoveLeft"}
    NoPacket = NoPacket
    MaxInputs = 0
    MaxBacklog = 0
SPECIFICATION Spec
SYMMETRY Symmetry
INVARIANT ClosedSessionTolerated
CHECK_DEADLOCK FALSE
