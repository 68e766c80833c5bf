CONSTANTS
    i1 = i1
    s1 = s1
    Ids = {i1}
    Senders = {s1}
    ClientOpcodes = {"CreatePlayer", "RemovePlayer", "Jump", "Unknown"}
    NoPacket = NoPacket
    MaxInputs = 3
    MaxBacklog = 0
    Files <- SomeFiles
    DebugSide = 2
SPECIFICATION StartSpec
INVARIANTS
    ServedByWholeServer
    NoGhostPlayer
    NullPlayerOnlyAfterRemoval
PROPERTIES
    StartSettles
    PlayersFollowSessions
CHECK_DEADLOCK FALSE
