--------------------------- MODULE MCPacketHandler ---------------------------
(* Packets for PacketHandler: one of every kind the code tells apart.      *)
EXTENDS PacketHandler

Kind(opcode, fields) == [opcode |-> opcode, fields |-> fields]

SomeKinds ==
    {Kind(1, << >>),                          \* an input without payload
     Kind(2, RemoveFields(6)),
     Kind(1, MoveFields(1, 11, 14)),
     Kind(2, PlayerFields(9, 13, 2, 3, 1)),   \* as long as a payload may be
     Kind(1, <<Word(6), Word(1), Word(9), Word(7), Byte(2)>>),  \* too long
     Kind(kMaxOpcode, << >>),
     Kind(kMaxOpcode, RemoveFields(5))}       \* refused, with a payload
=============================================================================
