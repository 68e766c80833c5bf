CONSTANTS
    io = io
    game = game
    sender1 = sender1
    sender2 = sender2
    netIn = netIn
    gameIn = gameIn
    netOut = netOut
    v1 = v1
    v2 = v2
    Threads = {io, game, sender1, sender2}
    Queues = {netIn, gameIn, netOut}
    Values = {v1, v2}
    Nullopt = Nullopt
    Moved = Moved
    None = None
    Calls <- ProgramCalls
    MaxCalls <- ProgramBounds
SPECIFICATION FairSpec
INVARIANTS
    TypeOK
    NoLostWakeup
    NoDeadlock
    OnlyLockBlocks
PROPERTIES
    ImplementsFifoQueues
    WaiterServed
CHECK_DEADLOCK FALSE
