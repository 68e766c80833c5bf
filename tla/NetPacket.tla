------------------------------ MODULE NetPacket ------------------------------
(***************************************************************************)
(* shared/protocol/net_packet.hpp and .cpp: a packet is a header, opcode   *)
(* and payload size in network byte order, and a body that operator<<      *)
(* appends fields to and operator>> takes them from, at the same end.      *)
(*                                                                         *)
(* A field is a value and its sizeof.  The host is little-endian, as       *)
(* swap_endian assumes.                                                    *)
(***************************************************************************)
EXTENDS Naturals, Sequences, SequencesExt

CONSTANTS
    Base,                     \* the values of a byte: 256
    OpcodeBytes, SizeBytes,   \* sizeof the fields of PacketHead: 2 and 4
    WordBytes,                \* sizeof size_t and double: 8
    kMaxOpcode, kMaxPayloadSize

\* Base^n, as a function that can be proved about.
Pow[n \in Nat] == IF n = 0 THEN 1 ELSE Base * Pow[n - 1]

ASSUME NetPacketAssumption ==
    /\ Base \in Nat \ {0, 1}
    /\ OpcodeBytes \in Nat \ {0} /\ SizeBytes \in Nat \ {0}
    /\ WordBytes \in Nat \ {0}
    /\ kMaxOpcode \in Nat /\ kMaxPayloadSize \in 1 .. Pow[SizeBytes] - 1

HeadSize == OpcodeBytes + SizeBytes

\* The bytes of an integer in memory, and the integer that has these bytes.
Stored(n, size) == [k \in 1 .. size |-> (n \div Pow[k - 1]) % Base]
Loaded(bytes) ==
    CHOOSE n \in 0 .. Pow[Len(bytes)] - 1 : Stored(n, Len(bytes)) = bytes

swap_endian(bytes) == Reverse(bytes)

ToNet(n, size) == swap_endian(Stored(n, size))
FromNet(bytes) == Loaded(swap_endian(bytes))

\* NetPacket(opcode); has is body_ != nullptr.
NewPacket(opcode) ==
    [opcode |-> ToNet(opcode, OpcodeBytes), size |-> ToNet(0, SizeBytes),
     has |-> FALSE, body |-> << >>]

GetHeadSize(p) == FromNet(p.size)

\* ResizeBody: new bytes are 0.
ResizeBody(p, n) ==
    [p EXCEPT !.has = TRUE,
              !.body = [k \in 1 .. n |-> IF k <= Len(@) THEN @[k] ELSE 0]]

\* operator<< of a field f.
Put(p, f) ==
    [p EXCEPT !.has = TRUE,
              !.body = @ \o ToNet(f.value, f.size),
              !.size = ToNet(Len(p.body) + f.size, SizeBytes)]

\* Mutant of Taken: the fields are taken from the front.
TakenFront(p, n) == SubSeq(p.body, 1, n)

\* operator>> for a variable of n bytes, no more than the body has: the bytes
\* taken, and the packet left.
Taken(p, n) == SubSeq(p.body, Len(p.body) - n + 1, Len(p.body))
Get(p, n)   == FromNet(Taken(p, n))
Rest(p, n)  ==
    LET offset == Len(p.body) - n
    IN  [ResizeBody(p, offset) EXCEPT !.size = ToNet(offset, SizeBytes)]

\* What moving a packet leaves behind.
MovedFrom(p) ==
    [p EXCEPT !.size = [k \in 1 .. SizeBytes |-> 0], !.has = FALSE,
              !.body = << >>]

\* Mutant of IsValidHeader: the limit is taken for a length that is allowed.
IsValidHeaderLoose(p) ==
    FromNet(p.opcode) < kMaxOpcode /\ GetHeadSize(p) <= kMaxPayloadSize

IsValidHeader(p) ==
    FromNet(p.opcode) < kMaxOpcode /\ GetHeadSize(p) < kMaxPayloadSize

\* GetHeadData, as the bytes behind it.
HeadBytes(p) == p.opcode \o p.size
WithHead(p, bytes) ==
    [p EXCEPT !.opcode = SubSeq(bytes, 1, OpcodeBytes),
              !.size = SubSeq(bytes, OpcodeBytes + 1, HeadSize)]

\* A packet without a body makes an empty buffer, not even a header.
MakeBuffer(p) == IF p.has THEN HeadBytes(p) \o p.body ELSE << >>

-----------------------------------------------------------------------------
(* The fields of the packets the server makes.                             *)

Word(v) == [value |-> v, size |-> WordBytes]
Byte(v) == [value |-> v, size |-> 1]

\* CreatePlayerPacket and AddPlayerPacket.
PlayerFields(id, x, y, width, height) ==
    <<Word(id), Word(x), Word(y), Byte(width), Byte(height)>>
RemoveFields(id) == <<Word(id)>>
MoveFields(id, x, y) == <<Word(id), Word(x), Word(y)>>
=============================================================================
