---------------------------- MODULE PacketHandler ----------------------------
(***************************************************************************)
(* The framing of the packets a client sends: the read loop of             *)
(* Session::ReadPacketHead and ReadPacketBody over                         *)
(* net/session/packet_handler.cpp.  async_read_some returns any non-empty  *)
(* part of what it is asked for, so a packet may arrive in any pieces.     *)
(*                                                                         *)
(* The client makes its packets with NetPacket, refused ones too, and      *)
(* sends all of their bytes.                                               *)
(***************************************************************************)
EXTENDS NetPacket, FiniteSets

CONSTANTS
    Kinds,       \* the packets clients send: their opcodes and fields
    MaxPackets   \* bound: packets the client sends

ASSUME PacketHandlerAssumption ==
    /\ Kinds \subseteq [opcode : 0 .. Pow[OpcodeBytes] - 1,
                        fields : Seq([value : Nat, size : Nat])]
    /\ MaxPackets \in Nat

\* The packets of a kind's opcode and its first fields, one more each time.
Filled(kind) ==
    LET filled[m \in 0 .. Len(kind.fields)] ==
            IF m = 0 THEN ResizeBody(NewPacket(kind.opcode), 0)
                     ELSE Put(filled[m - 1], kind.fields[m])
    IN  filled

\* The packet that a kind is.
Made(kind) == Filled(kind)[Len(kind.fields)]

\* A value has no more bytes than its type, and a payload no more than the size
\* field of the header can say.
ASSUME KindsFit ==
    \A kind \in Kinds :
        /\ Len(Made(kind).body) < Pow[SizeBytes]
        /\ \A m \in DOMAIN kind.fields :
              kind.fields[m].value < Pow[kind.fields[m].size]

VARIABLES
    sent,        \* the packets the client has sent
    stream,      \* the bytes sent and not read yet
    mode,        \* the outstanding read: of the "head" or of the "body"
    head_already_read, body_already_read,
    packet,      \* packet_
    extracted    \* the packets given to PushPacket

vars == <<sent, stream, mode, head_already_read, body_already_read, packet,
          extracted>>

Init ==
    /\ sent = << >>
    /\ stream = << >>
    /\ mode = "head"
    /\ head_already_read = 0
    /\ body_already_read = 0
    /\ packet = NewPacket(0)
    /\ extracted = << >>

HeadSizeLeft == HeadSize - head_already_read
BodySizeLeft == Len(packet.body) - body_already_read

ClientSend(kind) ==
    /\ Len(sent) < MaxPackets
    /\ sent' = Append(sent, kind)
    /\ stream' = stream \o MakeBuffer(Made(kind))
    /\ UNCHANGED <<mode, head_already_read, body_already_read, packet, extracted>>

\* Mutant of Received: every piece is read to the start of the buffer.
ReceivedAtStart(buffer, at, n) ==
    [k \in DOMAIN buffer |-> IF k \in 1 .. n THEN stream[k] ELSE buffer[k]]

\* async_read_some copies n bytes to offset `at` of a buffer.
Received(buffer, at, n) ==
    [k \in DOMAIN buffer |->
        IF k \in at + 1 .. at + n THEN stream[k - at] ELSE buffer[k]]

Consume(n) == stream' = SubSeq(stream, n + 1, Len(stream))

\* ExtractPacket: p is moved out of packet_.
Extract(p) ==
    /\ extracted' = Append(extracted, p)
    /\ packet' = MovedFrom(p)
    /\ head_already_read' = 0
    /\ body_already_read' = 0
    /\ mode' = "head"

\* Mutant of AfterRefusal: an invalid header does not reset head_already_read_.
AfterRefusalNoReset(read) == read

\* head_already_read_ after a header that is not valid.
AfterRefusal(read) == 0

\* The handler of ReadPacketHead for a read of n bytes: UpdateHeadSize, then
\* the body, the packet, or the header again.
ReadHead(n) ==
    /\ mode = "head"
    /\ Consume(n)
    /\ LET read == head_already_read + n
           p    == WithHead(packet, Received(HeadBytes(packet), head_already_read, n))
           q    == ResizeBody(p, GetHeadSize(p))
       IN  \/ /\ read < HeadSize
              /\ head_already_read' = read
              /\ packet' = p
              /\ UNCHANGED <<mode, body_already_read, extracted>>
           \/ /\ read >= HeadSize /\ ~IsValidHeader(p)
              /\ head_already_read' = AfterRefusal(read)
              /\ packet' = p
              /\ UNCHANGED <<mode, body_already_read, extracted>>
           \/ /\ read >= HeadSize /\ IsValidHeader(p) /\ Len(q.body) > 0
              /\ head_already_read' = read
              /\ packet' = q
              /\ mode' = "body"
              /\ UNCHANGED <<body_already_read, extracted>>
           \/ /\ read >= HeadSize /\ IsValidHeader(p) /\ Len(q.body) = 0
              /\ Extract(q)
    /\ UNCHANGED sent

\* The handler of ReadPacketBody for a read of n bytes: UpdateBodySize, then
\* the packet or the rest of the body.
ReadBody(n) ==
    /\ mode = "body"
    /\ Consume(n)
    /\ LET read == body_already_read + n
           p    == [packet EXCEPT !.body = Received(@, body_already_read, n)]
       IN  \/ /\ read < GetHeadSize(packet)
              /\ body_already_read' = read
              /\ packet' = p
              /\ UNCHANGED <<mode, head_already_read, extracted>>
           \/ read >= GetHeadSize(packet) /\ Extract(p)
    /\ UNCHANGED sent

Limit == IF mode = "head" THEN HeadSizeLeft ELSE BodySizeLeft

\* A read completes with some bytes, no more than it was asked for.
Read ==
    \E n \in 1 .. Limit :
        /\ n <= Len(stream)
        /\ ReadHead(n) \/ ReadBody(n)

Next == Read \/ \E kind \in Kinds : ClientSend(kind)

Spec == Init /\ [][Next]_vars

\* What the client has sent is read: the loop always has a read outstanding.
FairSpec == Spec /\ WF_vars(Read)

-----------------------------------------------------------------------------
(* Properties.                                                             *)

Packets ==
    [opcode : [1 .. OpcodeBytes -> 0 .. Base - 1],
     size : [1 .. SizeBytes -> 0 .. Base - 1],
     has : BOOLEAN,
     body : UNION {[1 .. n -> 0 .. Base - 1] : n \in 0 .. kMaxPayloadSize - 1}]

\* Every variable has its type; the counters stay inside their buffers, and
\* every packet pushed, out of step or not, is as long as its header says.
TypeOK ==
    /\ sent \in Seq(Kinds)
    /\ stream \in Seq(0 .. Base - 1)
    /\ mode \in {"head", "body"}
    /\ head_already_read \in 0 .. HeadSize
    /\ body_already_read \in 0 .. kMaxPayloadSize
    /\ packet \in Packets
    /\ extracted \in Seq({p \in Packets : Len(p.body) = GetHeadSize(p)})

Refused(n) == ~IsValidHeader(Made(sent[n]))

\* The server does not skip the payload behind a header it refuses: from there
\* on it may take any bytes for a header.
InStep(n) == \A m \in 1 .. n - 1 : Refused(m) => sent[m].fields = << >>

\* The valid packets sent while the server was in step, and the place of one of
\* them among all.
Wanted == {n \in DOMAIN sent : ~Refused(n) /\ InStep(n)}
Place(n) == Cardinality({m \in Wanted : m <= n})

\* Whatever pieces the bytes arrive in, the packets pushed to the world are the
\* valid packets the client sent, in order, header and payload byte for byte: an
\* incomplete read, an empty payload or a refused header never shifts the
\* framing, until a payload follows a refused header (packet_handler.cpp:16-59,
\* session.cpp:107-120, 148-157).
Framing ==
    /\ \A n \in Wanted :
          Place(n) <= Len(extracted) => extracted[Place(n)] = Made(sent[n])
    /\ InStep(Len(sent) + 1) => Len(extracted) <= Cardinality(Wanted)

\* The j-th last of the fields, and what operator>> leaves of a packet p that is
\* read back like that.
NthLast(fields, j) == fields[Len(fields) + 1 - j]
Left(p, fields) ==
    LET left[j \in 0 .. Len(fields)] ==
            IF j = 0 THEN p ELSE Rest(left[j - 1], NthLast(fields, j).size)
    IN  left

\* Mirrored values come out of operator>>: reading the fields of a packet that
\* has arrived, the last one first as net_packet_tests.cpp:30 does, gives the
\* values the peer wrote and leaves an empty packet with size 0.
FieldsReadBack ==
    \A n \in Wanted :
        Place(n) <= Len(extracted) =>
            LET fields == sent[n].fields
                left   == Left(extracted[Place(n)], fields)
            IN  /\ \A j \in 1 .. Len(fields) :
                      Get(left[j - 1], NthLast(fields, j).size) = NthLast(fields, j).value
                /\ GetHeadSize(left[Len(fields)]) = 0
                /\ left[Len(fields)].body = << >>

\* Every read that is started asks for at least one byte and stays inside its
\* buffer, also when the server is out of step: a read of nothing would complete
\* at once and for ever (packet_handler.hpp:29, 32).
ReadAsksForBytes ==
    Limit \in 1 .. (IF mode = "head" THEN HeadSize ELSE Len(packet.body))

\* Every valid packet sent in step is pushed to the world in the end.
AllPushed == <>[](Len(extracted) >= Cardinality(Wanted))
=============================================================================
