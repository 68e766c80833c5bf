CONSTANTS
    Tile = 6
    GridX = 5
    GridY = 5
    Solid <- RoomWithLedge
    Width = 3
    Height = 4
    StartX = 7
    StartY = 7
    Speed = 2
    Gravity = 1
    JumpForce = 4
    Dts = {1, 2}
SPECIFICATION Spec
INVARIANT OnGroundIsSupported
