CONSTANTS
    Base = 4
    OpcodeBytes = 1
    SizeBytes = 2
    WordBytes = 2
    kMaxOpcode = 3
    kMaxPayloadSize = 9
    Kinds <- SomeKinds
    MaxPackets = 3
SPECIFICATION FairSpec
INVARIANTS
    TypeOK
    Framing
    FieldsReadBack
    ReadAsksForBytes
PROPERTY AllPushed
CHECK_DEADLOCK FALSE
