CONSTANTS
    i1 = i1
    s1 = s1
    Ids = {i1}
    Senders = {s1}
    ClientOpcodes = {"MoveLeft"}
    NoPacket = NoPacket
    MaxInputs = 1
    MaxBacklog = 0
SPECIFICATION Spec
SYMMETRY Symmetry
INVARIANT UnknownPlayerTolerated
CHECK_DEADLOCK FALSE
