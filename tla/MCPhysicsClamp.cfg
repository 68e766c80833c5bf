CONSTANTS
    Tile = 4
    GridX = 5
    GridY = 5
    Solid <- RoomWithLedge
    Width = 2
    Height = 3
    StartX = 5
    StartY = 5
    Speed = 2
    Gravity = 1
    JumpForce = 4
    Dts = {1, 2}
SPECIFICATION Spec
INVARIANT StaysInMap
