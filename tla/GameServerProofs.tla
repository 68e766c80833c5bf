-------------------------- MODULE GameServerProofs --------------------------
(***************************************************************************)
(* Proofs about GameServer, for every set of sessions and senders and      *)
(* every bound, whatever opcodes the clients send: the types, that no      *)
(* player outlives its session unnoticed, that an input meets no player    *)
(* only after a RemovePlayer of its session, and that what the clients are *)
(* told of the players converges.                                          *)
(***************************************************************************)
EXTENDS GameServer, NumberTheorems, SequenceTheorems, FiniteSetTheorems

-----------------------------------------------------------------------------
(* The inductive invariant.                                                *)

\* The events the game thread has still to process, in that order: what it
\* swapped out of the net queue comes before what is pushed since.
Input == gameIn \o netIn

\* The game thread swaps an empty queue for the full one.
SwapsEmpty == tick = "swap" => gameIn = << >>

\* What can be queued for a session: nothing before PushCreate, and RemovePlayer
\* once the session is closed or its client has sent it.
QueueOrder ==
    \A k \in DOMAIN Input :
        /\ phase[Input[k].id] \in {"open", "closed"}
        /\ Input[k].op = "RemovePlayer" =>
              phase[Input[k].id] = "closed" \/ Input[k].id \in asked

\* The CreatePlayer of session i is queued before everything else of it.
CreateFirst(i) ==
    \E k \in DOMAIN Input :
        /\ Input[k] = Event("CreatePlayer", i)
        /\ \A j \in DOMAIN Input : Input[j].id = i => k <= j

\* What the world has of a session, and what is queued for it, at each phase.
PlayerOfPhase ==
    \A i \in Ids :
        /\ phase[i] \in {"new", "adding"} => players[i] = "absent" /\ ~reading[i]
        /\ phase[i] = "open" =>
              \/ players[i] = "player"
              \/ players[i] = "absent" /\ CreateFirst(i)
              \/ i \in asked
        /\ phase[i] = "closed" =>
              \/ players[i] # "player"
              \/ Queued(Event("RemovePlayer", i))
              \/ RpcPending(i)

\* Server::sessions_ holds the sessions between AddSession and CloseSession.
MapOfSessions == \A i \in Ids : i \in sessions <=> phase[i] \in {"adding", "open"}

\* A sender that handles a packet is among those that popped one.
HandsPopped == \A s \in Senders : hand[s] # NoPacket => s \in ToSet(popped)

\* A session whose player has been removed.
Removed(i) == (phase[i] = "closed" \/ i \in asked) /\ players[i] # "player"

\* A game thread that died of a null player has met such a session.
DeathByNull == crashed = "nullPlayer" => \E i \in Ids : Removed(i)

\* The sessions, the events queued for them and the world agree.
Agreement ==
    /\ SwapsEmpty
    /\ QueueOrder
    /\ PlayerOfPhase
    /\ MapOfSessions
    /\ DeathByNull

Inv == TypeOK /\ HandsPopped /\ Agreement

-----------------------------------------------------------------------------
(* Facts about the sequences the steps make.                               *)

\* The place before the removal of place m of what is at place k after it.
Skip(m, k) == IF k < m THEN k ELSE k + 1

\* Skip leaves out place m only, and keeps the order of the others.
LEMMA SkipFacts ==
    ASSUME NEW n \in Nat, NEW m \in 1 .. n
    PROVE  /\ \A j \in 1 .. n - 1 :
                 /\ Skip(m, j) \in 1 .. n /\ Skip(m, j) # m
                 /\ j < m => Skip(m, j) = j /\ j \in 1 .. m - 1
                 /\ ~(j < m) => /\ Skip(m, j) = m + (j - (m - 1))
                                /\ j - (m - 1) \in 1 .. n - m
           /\ \A l \in 1 .. n : l # m => \E j \in 1 .. n - 1 : Skip(m, j) = l
           /\ \A j, k \in Nat : Skip(m, j) < Skip(m, k) <=> j < k
<1>1. ASSUME NEW l \in 1 .. n, l # m
      PROVE  \E j \in 1 .. n - 1 : Skip(m, j) = l
  <2>1. CASE l < m
    <3>1. l \in 1 .. n - 1
      BY <2>1
    <3> QED  BY <3>1, <2>1 DEF Skip
  <2>2. CASE l > m
    <3>1. l - 1 \in 1 .. n - 1 /\ ~(l - 1 < m) /\ (l - 1) + 1 = l
      BY <2>2
    <3> QED  BY <3>1 DEF Skip
  <2> QED  BY <2>1, <2>2, <1>1
<1>2. \A j \in 1 .. n - 1 : Skip(m, j) \in 1 .. n /\ Skip(m, j) # m
  BY DEF Skip
<1>3. \A j \in 1 .. n - 1 : j < m => Skip(m, j) = j /\ j \in 1 .. m - 1
  BY DEF Skip
<1>4. \A j \in 1 .. n - 1 :
         ~(j < m) => /\ Skip(m, j) = m + (j - (m - 1))
                     /\ j - (m - 1) \in 1 .. n - m
  BY DEF Skip
<1>5. \A j, k \in Nat : Skip(m, j) < Skip(m, k) <=> j < k
  BY DEF Skip
<1> QED  BY <1>1, <1>2, <1>3, <1>4, <1>5

\* RemoveAt at a position of the sequence leaves a sequence of the same kind,
\* with every element that is at another position.
LEMMA RemoveAtFacts ==
    ASSUME NEW S, NEW q \in Seq(S), NEW k \in DOMAIN q
    PROVE  /\ RemoveAt(q, k) \in Seq(S)
           /\ Len(RemoveAt(q, k)) = Len(q) - 1
           /\ \A j \in 1 .. Len(q) - 1 : RemoveAt(q, k)[j] = q[Skip(k, j)]
           /\ \A j \in DOMAIN q : j # k => q[j] \in ToSet(RemoveAt(q, k))
<1> DEFINE n == Len(q)
           a == SubSeq(q, 1, k - 1)
           b == SubSeq(q, k + 1, Len(q))
           c == a \o b
<1>1. n \in Nat /\ DOMAIN q = 1 .. n /\ k \in 1 .. n
  BY LenProperties
<1>2. /\ a \in Seq(S) /\ Len(a) = k - 1
      /\ \A j \in 1 .. k - 1 : a[j] = q[j]
  BY <1>1, SubSeqProperties
<1>3. /\ b \in Seq(S) /\ Len(b) = n - k
      /\ \A j \in 1 .. n - k : b[j] = q[k + j]
  BY <1>1, SubSeqProperties
<1>4. /\ c \in Seq(S) /\ Len(c) = Len(a) + Len(b)
      /\ \A j \in 1 .. Len(a) + Len(b) :
            c[j] = IF j <= Len(a) THEN a[j] ELSE b[j - Len(a)]
  <2> HIDE DEF a, b
  <2> QED  BY <1>2, <1>3, ConcatProperties
<1> HIDE DEF a, b, c, n
<1>5. /\ Len(c) = n - 1
      /\ \A j \in 1 .. n - 1 :
            c[j] = IF j < k THEN a[j] ELSE b[j - (k - 1)]
  <2>1. ASSUME NEW m \in 1 .. n
        PROVE  (m - 1) + (n - m) = n - 1 /\ \A j \in Nat : j <= m - 1 <=> j < m
    BY <1>1
  <2>2. Len(a) + Len(b) = n - 1
    BY <2>1, <1>1, <1>2, <1>3
  <2> QED  BY <2>1, <2>2, <1>1, <1>2, <1>4
<1>6. DOMAIN c = 1 .. n - 1
  BY <1>4, <1>5, LenProperties
<1>7. ASSUME NEW j \in 1 .. n - 1
      PROVE  c[j] = q[Skip(k, j)]
  <2>1. /\ j < k => Skip(k, j) = j /\ j \in 1 .. k - 1
        /\ ~(j < k) => /\ Skip(k, j) = k + (j - (k - 1))
                       /\ j - (k - 1) \in 1 .. n - k
    BY <1>1, SkipFacts
  <2>2. CASE j < k
    BY <2>1, <2>2, <1>2, <1>5
  <2>3. CASE ~(j < k)
    <3>1. c[j] = b[j - (k - 1)]
      BY <2>3, <1>5
    <3>2. b[j - (k - 1)] = q[k + (j - (k - 1))]
      BY <2>1, <2>3, <1>3
    <3> QED  BY <3>1, <3>2, <2>1, <2>3
  <2> QED  BY <2>2, <2>3
<1>8. ASSUME NEW j \in DOMAIN q, j # k
      PROVE  q[j] \in ToSet(c)
  <2>1. \E l \in 1 .. n - 1 : Skip(k, l) = j
    <3>1. j \in 1 .. n
      BY <1>1
    <3>2. \A l \in 1 .. n : l # k => \E i \in 1 .. n - 1 : Skip(k, i) = l
      BY <1>1, SkipFacts
    <3> QED  BY <3>1, <3>2, <1>8
  <2> QED  BY <2>1, <1>6, <1>7 DEF ToSet
<1>9. RemoveAt(q, k) = c
  BY DEF RemoveAt, a, b, c
<1> QED  BY <1>4, <1>5, <1>7, <1>8, <1>9 DEF n

\* A sender that popped has a position in the order of the pops.
LEMMA PositionFacts ==
    ASSUME NEW s \in ToSet(popped)
    PROVE  Position(s) \in DOMAIN popped /\ popped[Position(s)] = s
<1>1. \E k \in DOMAIN popped : popped[k] = s
  BY DEF ToSet
<1> QED  BY <1>1 DEF Position

\* Every order in which the players can be updated is a sequence of ids.
LEMMA OrderOfPlayers ==
    ASSUME NEW order \in SetToSeqs(InGame)
    PROVE  order \in Seq(Ids)
<1>1. IsFiniteSet(InGame) /\ InGame \subseteq Ids
  <2>1. InGame \subseteq Ids
    BY DEF InGame
  <2> QED  BY <2>1, FS_Subset, GameServerAssumption
<1>2. Cardinality(InGame) \in Nat
  BY <1>1, FS_CardinalityType
<1>3. order \in [1 .. Cardinality(InGame) -> InGame]
  BY DEF SetToSeqs
<1> QED  BY <1>1, <1>2, <1>3

\* What a client knows after a packet is a set of players.
LEMMA ToldType ==
    ASSUME NEW v \in SUBSET Ids, NEW p \in Packets
    PROVE  Told(v, p) \in SUBSET Ids
<1>1. p.id \in Ids /\ p.others \in SUBSET Ids
  BY DEF Packets
<1> QED  BY <1>1 DEF Told

-----------------------------------------------------------------------------
(* Types.                                                                  *)

\* A packet that the game thread makes is one.
LEMMA PacketType ==
    ASSUME NEW i \in Ids
    PROVE  /\ \A others \in SUBSET Ids : Packet("Rpc", "spawn", i, others) \in Packets
           /\ Packet("Rpc", "create", i, {}) \in Packets
           /\ Packet("RpcOthers", "add", i, {}) \in Packets
           /\ Packet("Broadcast", "remove", i, {}) \in Packets
           /\ Packet("Broadcast", "move", i, {}) \in Packets
BY DEF Packet, Packets

\* An event that a session pushes is one.
LEMMA EventType ==
    ASSUME NEW i \in Ids
    PROVE  /\ Event("CreatePlayer", i) \in Events
           /\ Event("RemovePlayer", i) \in Events
           /\ \A op \in ClientOpcodes : Event(op, i) \in Events
BY GameServerAssumption DEF Event, Events, Opcodes

\* The types of what the strands change.
StrandType ==
    /\ phase \in [Ids -> {"new", "adding", "open", "closed"}]
    /\ reading \in [Ids -> BOOLEAN]
    /\ inputs \in 0 .. MaxInputs
    /\ asked \subseteq Ids

\* The types of what the game thread changes, the queues apart.
GameType ==
    /\ players \in [Ids -> {"absent", "null", "player"}]
    /\ tick \in {"swap", "input"}
    /\ crashed \in {"no", "nullPlayer", "nullSession", "race"}

QueueType ==
    /\ netIn \in Seq(Events) /\ gameIn \in Seq(Events)
    /\ gameOut \in Seq(Packets) /\ netOut \in Seq(Packets)

\* The types of what the senders change.
SendType ==
    /\ hand \in [Senders -> Packets \cup {NoPacket}]
    /\ popped \in Seq(Senders)
    /\ seen \in [Senders -> SUBSET Ids]
    /\ sent \subseteq Ids
    /\ view \in [Ids -> SUBSET Ids]
    /\ missed \in BOOLEAN
    /\ overtaken \subseteq Ids

\* TypeOK by who changes what.
Types ==
    /\ StrandType /\ GameType /\ QueueType /\ SendType
    /\ sessions \subseteq Ids
    /\ dirty \in [Senders -> BOOLEAN]

\* The parts are TypeOK, before and after a step.
LEMMA TypeParts == (TypeOK <=> Types) /\ (TypeOK' <=> Types')
BY DEF TypeOK, Types, StrandType, GameType, QueueType, SendType

\* Every step of a strand keeps the types.
LEMMA StrandKeepsTypes ==
    ASSUME TypeOK, NEW i \in Ids, StrandStep(i)
    PROVE  TypeOK'
<1> USE DEF Types, strands, gameVars, sendVars
<1>t. Types
  BY TypeParts
<1>d. Disturb => dirty' \in [Senders -> BOOLEAN]
  BY <1>t DEF Disturb
<1>e. /\ Event("CreatePlayer", i) \in Events
      /\ Event("RemovePlayer", i) \in Events
      /\ \A op \in ClientOpcodes : Event(op, i) \in Events
  BY EventType
<1>s. /\ UNCHANGED sendVars => SendType'
      /\ UNCHANGED <<gameVars, crashed>> => GameType'
      /\ UNCHANGED <<gameVars, netIn, netOut>> => QueueType'
      /\ \A e \in Events :
            netIn' = Append(netIn, e) /\ UNCHANGED <<gameVars, netOut>> => QueueType'
  <2>1. \A e \in Events : Append(netIn, e) \in Seq(Events)
    BY <1>t, AppendProperties DEF QueueType
  <2>2. UNCHANGED sendVars => SendType'
    BY <1>t DEF SendType
  <2>3. UNCHANGED <<gameVars, crashed>> => GameType'
    BY <1>t DEF GameType
  <2> QED  BY <1>t, <2>1, <2>2, <2>3 DEF QueueType
<1>1. CASE AddSession(i)
  <2>1. StrandType' /\ sessions' \subseteq Ids
    BY <1>1, <1>t DEF AddSession, StrandType
  <2> QED  BY <1>1, <2>1, <1>d, <1>s, TypeParts DEF AddSession
<1>2. CASE PushCreate(i)
  <2>1. StrandType'
    BY <1>2, <1>t DEF PushCreate, StrandType
  <2> QED  BY <1>2, <2>1, <1>t, <1>e, <1>s, TypeParts DEF PushCreate
<1>3. CASE \E op \in ClientOpcodes : PushInput(i, op)
  <2>1. PICK op \in ClientOpcodes : PushInput(i, op)
    BY <1>3
  <2>2. StrandType'
    BY <2>1, <1>t, GameServerAssumption DEF PushInput, StrandType
  <2> QED  BY <2>1, <2>2, <1>t, <1>e, <1>s, TypeParts DEF PushInput
<1>4. CASE CloseSession(i)
  <2>1. StrandType' /\ sessions' \subseteq Ids
    BY <1>4, <1>t DEF CloseSession, StrandType
  <2>2. netIn' = Append(netIn, Event("RemovePlayer", i))
    BY <1>4, <1>t, <1>e DEF CloseSession, RemoveEvents, QueueType
  <2> QED  BY <1>4, <2>1, <2>2, <1>d, <1>e, <1>s, TypeParts DEF CloseSession
<1>5. CASE CloseAgain(i)
  <2>1. StrandType'
    BY <1>5, <1>t DEF CloseAgain, StrandType
  <2> QED  BY <1>5, <2>1, <1>t, <1>s, TypeParts DEF CloseAgain
<1> QED  BY <1>1, <1>2, <1>3, <1>4, <1>5 DEF StrandStep

\* Every step of the game thread keeps the types.
LEMMA GameKeepsTypes ==
    ASSUME TypeOK, GameStep
    PROVE  TypeOK'
<1> USE DEF strands, gameVars
<1>t. Types
  BY TypeParts
<1>f. UNCHANGED <<strands, sessions, sendVars, dirty>>
  BY DEF GameStep, TickSwap, ProcessCreate, ProcessRemove, ProcessInput, FinishTick
<1>s. StrandType' /\ SendType' /\ sessions' \subseteq Ids
        /\ dirty' \in [Senders -> BOOLEAN]
  BY <1>f, <1>t DEF StrandType, SendType, sendVars, Types
<1>g. GameType /\ QueueType
  BY <1>t DEF Types
<1>c. ASSUME GameCrash("nullPlayer"), UNCHANGED <<netIn, netOut>>
      PROVE  GameType' /\ QueueType'
  BY <1>c, <1>g DEF GameCrash, GameType, QueueType
<1>h. gameIn # << >> => /\ Tail(gameIn) \in Seq(Events)
                        /\ Head(gameIn) \in Events
  BY <1>g, HeadTailProperties DEF QueueType
<1>o. ASSUME NEW q \in Seq(Packets)
      PROVE  gameOut \o q \in Seq(Packets)
  BY <1>g, ConcatProperties DEF QueueType
<1>1. CASE TickSwap
  BY <1>1, <1>g, <1>c, <1>s, TypeParts DEF TickSwap, GameType, QueueType, Types
<1>2. ASSUME NEW i \in Ids, ProcessCreate(i)
      PROVE  TypeOK'
  <2>1. CASE GameCrash("nullPlayer")
    BY <1>2, <2>1, <1>c, <1>s, TypeParts DEF ProcessCreate, Types
  <2>2. CASE ~GameCrash("nullPlayer")
    <3> DEFINE told == <<Packet("Rpc", "create", i, {}),
                         Packet("Rpc", "spawn", i, InGame \ {i}),
                         Packet("RpcOthers", "add", i, {})>>
    <3>1. told \in Seq(Packets)
      <4>1. InGame \ {i} \in SUBSET Ids
        BY DEF InGame
      <4> QED  BY <4>1, PacketType
    <3>2. gameOut' = gameOut \o told
      BY <1>2, <2>2 DEF ProcessCreate
    <3> HIDE DEF told
    <3>3. gameOut' \in Seq(Packets)
      BY <3>1, <3>2, <1>o
    <3>4. /\ gameIn' = Tail(gameIn) /\ gameIn # << >>
          /\ UNCHANGED <<netIn, netOut, tick, crashed>>
          /\ players' = [players EXCEPT ![i] = "player"]
      BY <1>2, <2>2 DEF ProcessCreate
    <3>5. GameType' /\ QueueType'
      BY <3>3, <3>4, <1>h, <1>g DEF GameType, QueueType
    <3> QED  BY <3>5, <1>s, TypeParts DEF Types
  <2> QED  BY <2>1, <2>2
<1>3. ASSUME NEW i \in Ids, ProcessRemove(i)
      PROVE  TypeOK'
  <2>1. RemovePackets(i) \in Seq(Packets)
    BY PacketType DEF RemovePackets
  <2>2. gameOut' \in Seq(Packets)
    BY <2>1, <1>3, <1>o DEF ProcessRemove
  <2>3. GameType' /\ QueueType'
    BY <2>2, <1>3, <1>h, <1>g DEF ProcessRemove, GameType, QueueType
  <2> QED  BY <2>3, <1>s, TypeParts DEF Types
<1>4. ASSUME NEW i \in Ids, NEW op \in InputOpcodes, ProcessInput(i, op)
      PROVE  TypeOK'
  <2>1. CASE GameCrash("nullPlayer")
    BY <1>4, <2>1, <1>c, <1>s, TypeParts DEF ProcessInput, Types
  <2>2. CASE ~GameCrash("nullPlayer")
    <3>1. GameType' /\ QueueType'
      BY <2>2, <1>4, <1>h, <1>g DEF ProcessInput, GameType, QueueType
    <3> QED  BY <3>1, <1>s, TypeParts DEF Types
  <2> QED  BY <2>1, <2>2
<1>5. CASE FinishTick
  <2>1. CASE GameCrash("nullPlayer")
    <3>1. UNCHANGED netOut
      BY <1>5, <2>1 DEF FinishTick, GameCrash, Up
    <3> QED  BY <1>5, <2>1, <3>1, <1>c, <1>s, TypeParts DEF FinishTick, Types
  <2>2. CASE ~GameCrash("nullPlayer")
    <3>1. PICK order \in SetToSeqs(InGame) :
             netOut' = netOut \o gameOut \o
                [k \in DOMAIN order |-> Packet("Broadcast", "move", order[k], {})]
      BY <1>5, <2>2 DEF FinishTick
    <3> DEFINE moves ==
                [k \in DOMAIN order |-> Packet("Broadcast", "move", order[k], {})]
    <3>2. moves \in Seq(Packets)
      <4>1. /\ order \in Seq(Ids) /\ Len(order) \in Nat
            /\ DOMAIN order = 1 .. Len(order)
        BY OrderOfPlayers, LenProperties
      <4>2. \A k \in 1 .. Len(order) : order[k] \in Ids
        BY <4>1, ElementOfSeq
      <4>3. \A k \in 1 .. Len(order) :
                Packet("Broadcast", "move", order[k], {}) \in Packets
        BY <4>2, PacketType
      <4>4. moves \in [1 .. Len(order) -> Packets]
        BY <4>1, <4>3
      <4> QED  BY <4>1, <4>4
    <3>3. netOut \o gameOut \in Seq(Packets)
      BY <1>g, ConcatProperties DEF QueueType
    <3>4. netOut' \in Seq(Packets)
      <4> HIDE DEF moves
      <4>1. (netOut \o gameOut) \o moves \in Seq(Packets)
        BY <3>2, <3>3, ConcatProperties
      <4> QED  BY <4>1, <3>1 DEF moves
    <3>5. /\ tick' = "swap" /\ gameOut' = << >>
          /\ UNCHANGED <<gameIn, players, crashed, netIn>>
      BY <1>5, <2>2 DEF FinishTick
    <3>6. GameType'
      BY <3>5, <1>g DEF GameType
    <3>7. QueueType'
      BY <3>4, <3>5, <1>g DEF QueueType
    <3> QED  BY <3>6, <3>7, <1>s, TypeParts DEF Types
  <2> QED  BY <2>1, <2>2
<1> QED  BY <1>1, <1>2, <1>3, <1>4, <1>5 DEF GameStep

\* Every step of a sender keeps the types, and that a sender with a packet is
\* among those that popped.
LEMMA SenderKeepsTypes ==
    ASSUME TypeOK, HandsPopped, NEW s \in Senders, SenderStep(s)
    PROVE  TypeOK' /\ HandsPopped'
<1> USE DEF strands, gameVars
<1>t. Types
  BY TypeParts
<1>f. UNCHANGED <<strands, sessions, netIn, gameVars>>
  BY DEF SenderStep, SenderPop, SendRpc, SendNext, SendDone, SendRace
<1>u. SendType /\ QueueType /\ dirty \in [Senders -> BOOLEAN]
  BY <1>t DEF Types
<1>s. /\ StrandType' /\ sessions' \subseteq Ids
      /\ players' \in [Ids -> {"absent", "null", "player"}]
      /\ tick' \in {"swap", "input"}
  BY <1>f, <1>t DEF StrandType, GameType, Types
<1>i. netIn' \in Seq(Events) /\ gameIn' \in Seq(Events) /\ gameOut' \in Seq(Packets)
  BY <1>f, <1>u DEF QueueType
<1>h. hand[s] # NoPacket => hand[s] \in Packets /\ s \in ToSet(popped)
  BY <1>u DEF SendType, HandsPopped
<1>r. ASSUME Release(s), hand[s] # NoPacket
      PROVE  /\ hand' \in [Senders -> Packets \cup {NoPacket}]
             /\ popped' \in Seq(Senders)
             /\ seen' \in [Senders -> SUBSET Ids]
             /\ dirty' \in [Senders -> BOOLEAN]
             /\ overtaken' \subseteq Ids
             /\ HandsPopped'
  <2>1. Position(s) \in DOMAIN popped /\ popped[Position(s)] = s
    BY <1>h, <1>r, PositionFacts
  <2>2. /\ popped' \in Seq(Senders)
        /\ \A j \in DOMAIN popped : j # Position(s) => popped[j] \in ToSet(popped')
    BY <2>1, <1>r, <1>u, RemoveAtFacts DEF Release, SendType
  <2>3. \A r \in Senders : r # s /\ r \in ToSet(popped) => r \in ToSet(popped')
    BY <2>1, <2>2 DEF ToSet
  <2>4. hand' = [hand EXCEPT ![s] = NoPacket]
    BY <1>r DEF Release
  <2>5. HandsPopped'
    BY <2>3, <2>4, <1>u DEF HandsPopped, SendType
  <2>6. overtaken' \subseteq Ids
    BY <1>r, <1>u DEF Release, Overtaken, SendType
  <2>7. seen' \in [Senders -> SUBSET Ids] /\ dirty' \in [Senders -> BOOLEAN]
    BY <1>r, <1>u DEF Release, SendType
  <2> QED  BY <2>2, <2>4, <2>5, <2>6, <2>7, <1>u DEF SendType
<1>p. ASSUME NEW i \in Ids, PushToSend(s, i), hand[s] # NoPacket
      PROVE  view' \in [Ids -> SUBSET Ids] /\ sent' \subseteq Ids
  <2>1. Told(view[i], hand[s]) \in SUBSET Ids
    BY <1>p, <1>h, <1>u, ToldType DEF SendType
  <2> QED  BY <2>1, <1>p, <1>u DEF PushToSend, SendType
<1>1. CASE SenderPop(s)
  <2>1. Head(netOut) \in Packets /\ Tail(netOut) \in Seq(Packets)
    BY <1>1, <1>u, HeadTailProperties DEF SenderPop, QueueType
  <2>2. /\ popped' \in Seq(Senders) /\ s \in ToSet(popped')
        /\ \A r \in ToSet(popped) : r \in ToSet(popped')
    <3>1. /\ Len(popped) \in Nat /\ DOMAIN popped = 1 .. Len(popped)
          /\ popped \in Seq(Senders)
      BY <1>u, LenProperties DEF SendType
    <3>2. /\ popped' \in Seq(Senders) /\ Len(popped') = Len(popped) + 1
          /\ popped'[Len(popped) + 1] = s
          /\ \A k \in 1 .. Len(popped) : popped'[k] = popped[k]
      BY <3>1, <1>1, AppendProperties DEF SenderPop
    <3>3. DOMAIN popped' = 1 .. Len(popped) + 1
      BY <3>2, LenProperties
    <3> QED  BY <3>1, <3>2, <3>3 DEF ToSet
  <2>3. hand' = [hand EXCEPT ![s] = Head(netOut)]
    BY <1>1 DEF SenderPop
  <2>4. HandsPopped'
    BY <2>2, <2>3, <1>u DEF HandsPopped, SendType
  <2>5. SendType' /\ QueueType'
    BY <1>1, <2>1, <2>2, <1>u, <1>i DEF SenderPop, SendType, QueueType
  <2>6. crashed' = crashed /\ dirty' = dirty
    BY <1>1 DEF SenderPop
  <2> QED  BY <2>4, <2>5, <2>6, <1>s, <1>t, TypeParts DEF Types, GameType
<1>2. CASE SendRpc(s)
  <2>1. CASE hand[s].id \in sessions
    <3>1. /\ hand[s] # NoPacket /\ hand[s].id \in Ids
          /\ PushToSend(s, hand[s].id) /\ Release(s)
          /\ UNCHANGED <<crashed, missed, netOut>>
      BY <1>2, <2>1, <1>t DEF SendRpc, Types
    <3>2. SendType'
      BY <3>1, <1>r, <1>p, <1>u DEF SendType
    <3>3. QueueType'
      BY <3>1, <1>i, <1>u DEF QueueType
    <3> QED  BY <3>1, <3>2, <3>3, <1>r, <1>s, <1>t, TypeParts DEF Types, GameType
  <2>2. CASE hand[s].id \notin sessions
    <3>1. /\ UNCHANGED <<sendVars, dirty, netOut>> /\ crashed' = "nullSession"
      BY <1>2, <2>2 DEF SendRpc, sendVars
    <3>2. SendType' /\ QueueType'
      BY <3>1, <1>i, <1>u DEF SendType, QueueType, sendVars
    <3>3. HandsPopped'
      BY <3>1 DEF HandsPopped, sendVars
    <3> QED  BY <3>1, <3>2, <3>3, <1>s, <1>t, TypeParts DEF Types, GameType
  <2> QED  BY <2>1, <2>2
<1>3. ASSUME NEW i \in Ids, SendNext(s, i)
      PROVE  TypeOK' /\ HandsPopped'
  <2>1. /\ hand[s] # NoPacket
        /\ UNCHANGED <<hand, popped, dirty, missed, crashed, netOut>>
        /\ seen' = [seen EXCEPT ![s] = @ \cup {i}]
    BY <1>3 DEF SendNext
  <2>2. view' \in [Ids -> SUBSET Ids] /\ sent' \subseteq Ids /\ overtaken' \subseteq Ids
    <3>1. CASE UNCHANGED <<sent, view, overtaken>>
      BY <3>1, <1>u DEF SendType
    <3>2. CASE /\ PushToSend(s, i)
               /\ overtaken' = overtaken \cup ({i} \cap Overtaken(s))
      BY <3>2, <2>1, <1>p, <1>u DEF SendType
    <3> QED  BY <1>3, <3>1, <3>2 DEF SendNext
  <2>3. SendType' /\ QueueType'
    BY <2>1, <2>2, <1>i, <1>u DEF SendType, QueueType
  <2>4. HandsPopped'
    BY <2>1 DEF HandsPopped
  <2> QED  BY <2>1, <2>3, <2>4, <1>s, <1>t, TypeParts DEF Types, GameType
<1>4. CASE SendDone(s)
  <2>1. /\ hand[s] # NoPacket /\ Release(s) /\ UNCHANGED <<netOut, sent, view, crashed>>
        /\ missed' \in BOOLEAN
    BY <1>4 DEF SendDone
  <2>2. SendType' /\ QueueType'
    BY <2>1, <1>r, <1>i, <1>u DEF SendType, QueueType
  <2> QED  BY <2>1, <2>2, <1>r, <1>s, <1>t, TypeParts DEF Types, GameType
<1>5. CASE SendRace(s)
  <2>1. UNCHANGED <<sendVars, dirty, netOut>> /\ crashed' = "race"
    BY <1>5 DEF SendRace
  <2>2. SendType' /\ QueueType'
    BY <2>1, <1>i, <1>u DEF SendType, QueueType, sendVars
  <2>3. HandsPopped'
    BY <2>1 DEF HandsPopped, sendVars
  <2> QED  BY <2>1, <2>2, <2>3, <1>s, <1>t, TypeParts DEF Types, GameType
<1> QED  BY <1>1, <1>2, <1>3, <1>4, <1>5 DEF SenderStep

-----------------------------------------------------------------------------
(* What the steps do to the queued events.                                 *)

\* The queued events are a sequence of events.
LEMMA InputType ==
    ASSUME TypeOK
    PROVE  /\ Input \in Seq(Events) /\ Len(Input) \in Nat
           /\ DOMAIN Input = 1 .. Len(Input)
           /\ \A k \in 1 .. Len(Input) : Input[k] \in Events /\ Input[k].id \in Ids
<1>1. Input \in Seq(Events)
  BY ConcatProperties DEF TypeOK, Input
<1>2. Len(Input) \in Nat /\ DOMAIN Input = 1 .. Len(Input)
  BY <1>1, LenProperties
<1>3. \A k \in 1 .. Len(Input) : Input[k] \in Events
  BY <1>1, ElementOfSeq
<1> QED  BY <1>1, <1>2, <1>3 DEF Events

\* A push adds an event behind all that are queued.
LEMMA InputAppend ==
    ASSUME TypeOK, NEW e \in Events,
           netIn' = Append(netIn, e), gameIn' = gameIn
    PROVE  /\ Len(Input') = Len(Input) + 1
           /\ DOMAIN Input' = 1 .. Len(Input) + 1
           /\ \A k \in 1 .. Len(Input) : Input'[k] = Input[k]
           /\ Input'[Len(Input) + 1] = e
           /\ \A x : Queued(x)' <=> Queued(x) \/ x = e
<1>1. gameIn \in Seq(Events) /\ netIn \in Seq(Events)
  BY DEF TypeOK
<1>2. Input' = Append(Input, e)
  <2>1. <<e>> \in Seq(Events) /\ Append(netIn, e) = netIn \o <<e>>
    BY <1>1, AppendIsConcat
  <2>2. gameIn \o (netIn \o <<e>>) = (gameIn \o netIn) \o <<e>>
    BY <1>1, <2>1, ConcatAssociative
  <2>3. Append(Input, e) = Input \o <<e>>
    BY InputType, AppendIsConcat
  <2> QED  BY <2>1, <2>2, <2>3 DEF Input
<1>3. /\ Input' \in Seq(Events) /\ Len(Input') = Len(Input) + 1
      /\ Input'[Len(Input) + 1] = e
      /\ \A k \in 1 .. Len(Input) : Input'[k] = Input[k]
  BY <1>2, InputType, AppendProperties
<1>4. DOMAIN Input' = 1 .. Len(Input) + 1
  BY <1>3, LenProperties
<1>5. \A x : /\ Queued(x) <=> \E k \in DOMAIN Input : Input[k] = x
             /\ Queued(x)' <=> \E k \in DOMAIN Input' : Input'[k] = x
  BY DEF Queued, Input
<1>6. \A x : Queued(x)' <=> Queued(x) \/ x = e
  BY <1>3, <1>4, <1>5, InputType
<1> QED  BY <1>3, <1>4, <1>6

\* The game thread takes the oldest queued event.
LEMMA InputTail ==
    ASSUME TypeOK, gameIn # << >>, gameIn' = Tail(gameIn), netIn' = netIn
    PROVE  /\ Len(Input) >= 1 /\ Input[1] = Head(gameIn)
           /\ DOMAIN Input' = 1 .. Len(Input) - 1
           /\ \A k \in 1 .. Len(Input) - 1 : Input'[k] = Input[k + 1]
           /\ \A x : Queued(x)' => Queued(x)
           /\ \A x : x # Head(gameIn) /\ Queued(x) => Queued(x)'
<1>1. gameIn \in Seq(Events) /\ netIn \in Seq(Events)
  BY DEF TypeOK
<1>2. /\ Head(gameIn) = gameIn[1] /\ Tail(gameIn) \in Seq(Events)
      /\ Len(gameIn) \in Nat /\ Len(gameIn) >= 1
      /\ Len(Tail(gameIn)) = Len(gameIn) - 1
      /\ \A k \in 1 .. Len(gameIn) - 1 : Tail(gameIn)[k] = gameIn[k + 1]
  BY <1>1, HeadTailProperties, LenProperties
<1>3. /\ Len(Input) = Len(gameIn) + Len(netIn)
      /\ \A k \in 1 .. Len(gameIn) + Len(netIn) :
            Input[k] = IF k <= Len(gameIn) THEN gameIn[k] ELSE netIn[k - Len(gameIn)]
  BY <1>1, ConcatProperties DEF Input
<1>4. /\ Input' \in Seq(Events)
      /\ Len(Input') = Len(gameIn') + Len(netIn)
      /\ \A k \in 1 .. Len(gameIn') + Len(netIn) :
            Input'[k] = IF k <= Len(gameIn') THEN gameIn'[k] ELSE netIn[k - Len(gameIn')]
  BY <1>1, <1>2, ConcatProperties DEF Input
<1>5. Len(netIn) \in Nat
  BY <1>1, LenProperties
<1>6. Len(Input) >= 1 /\ Input[1] = Head(gameIn) /\ Len(Input') = Len(Input) - 1
  BY <1>2, <1>3, <1>4, <1>5
<1>7. DOMAIN Input' = 1 .. Len(Input) - 1
  BY <1>4, <1>6, LenProperties
<1>8. ASSUME NEW k \in 1 .. Len(Input) - 1
      PROVE  Input'[k] = Input[k + 1]
  <2>1. /\ k \in 1 .. Len(gameIn') + Len(netIn)
        /\ k + 1 \in 1 .. Len(gameIn) + Len(netIn)
    BY <1>2, <1>3, <1>5
  <2>2. CASE k <= Len(gameIn) - 1
    BY <2>1, <2>2, <1>2, <1>3, <1>4, <1>5
  <2>3. CASE ~(k <= Len(gameIn) - 1)
    <3>1. Input'[k] = netIn[k - (Len(gameIn) - 1)]
      BY <2>1, <2>3, <1>2, <1>4
    <3>2. Input[k + 1] = netIn[(k + 1) - Len(gameIn)]
      BY <2>1, <2>3, <1>2, <1>3
    <3>3. k - (Len(gameIn) - 1) = (k + 1) - Len(gameIn)
      BY <2>1, <1>2
    <3> QED  BY <3>1, <3>2, <3>3
  <2> QED  BY <2>2, <2>3
<1>9. \A x : /\ Queued(x) <=> \E k \in DOMAIN Input : Input[k] = x
             /\ Queued(x)' <=> \E k \in DOMAIN Input' : Input'[k] = x
  BY DEF Queued, Input
<1>10. ASSUME NEW x, Queued(x)'
       PROVE  Queued(x)
  <2>1. PICK k \in 1 .. Len(Input) - 1 : Input'[k] = x
    BY <1>7, <1>9, <1>10
  <2>2. k + 1 \in DOMAIN Input /\ Input[k + 1] = x
    BY <2>1, <1>8, InputType
  <2> QED  BY <2>2, <1>9
<1>11. ASSUME NEW x, x # Head(gameIn), Queued(x)
       PROVE  Queued(x)'
  <2>1. PICK k \in 1 .. Len(Input) : Input[k] = x
    BY <1>9, <1>11, InputType
  <2>2. k - 1 \in 1 .. Len(Input) - 1
    BY <2>1, <1>6, <1>11, InputType
  <2>3. Input'[k - 1] = Input[(k - 1) + 1] /\ (k - 1) + 1 = k
    BY <2>2, <1>8, InputType
  <2> QED  BY <2>1, <2>2, <2>3, <1>7, <1>9
<1> QED  BY <1>6, <1>7, <1>8, <1>10, <1>11

\* Swapping the full queue for the empty one changes nothing of what is queued.
LEMMA InputSwap ==
    ASSUME TypeOK, gameIn = << >>, gameIn' = netIn, netIn' = gameIn
    PROVE  Input' = Input
BY ConcatEmptySeq DEF TypeOK, Input

\* The opcodes that are neither CreatePlayer nor RemovePlayer.
LEMMA OtherOpcodes ==
    \A op \in InputOpcodes : op # "CreatePlayer" /\ op # "RemovePlayer"
BY DEF InputOpcodes

\* The fields of an event, and that it is nothing more.
LEMMA EventFields ==
    /\ \A op, i : Event(op, i).op = op /\ Event(op, i).id = i
    /\ \A e \in Events : e = Event(e.op, e.id)
BY DEF Event, Events

-----------------------------------------------------------------------------
(* Every step keeps the agreement.                                         *)

\* What is neither a strand nor the game thread at its queue disturbs nothing.
LEMMA AgreementKept ==
    ASSUME Agreement,
           UNCHANGED <<phase, reading, asked, sessions, netIn, gameIn, players>>,
           tick' = "swap" => gameIn = << >>,
           crashed' = "nullPlayer" => \E i \in Ids : Removed(i),
           \A i \in Ids : phase[i] = "closed" /\ RpcPending(i) => RpcPending(i)'
    PROVE  Agreement'
<1>1. /\ Input' = Input /\ \A x : Queued(x)' <=> Queued(x)
      /\ \A i : CreateFirst(i)' <=> CreateFirst(i)
      /\ \A i : Removed(i)' <=> Removed(i)
  BY DEF Input, Queued, CreateFirst, Removed
<1>2. SwapsEmpty' /\ MapOfSessions' /\ DeathByNull'
  BY <1>1 DEF Agreement, SwapsEmpty, MapOfSessions, DeathByNull
<1>3. QueueOrder'
  BY <1>1 DEF Agreement, QueueOrder
<1>4. PlayerOfPhase'
  BY <1>1 DEF Agreement, PlayerOfPhase
<1> QED  BY <1>2, <1>3, <1>4 DEF Agreement

\* A push keeps the order of the queue when the event is one the session may
\* push at its phase; a CreatePlayer that is first stays so, and that of a session
\* with nothing queued is first.
LEMMA PushKeepsOrder ==
    ASSUME TypeOK, QueueOrder, NEW e \in Events,
           netIn' = Append(netIn, e), gameIn' = gameIn, asked \subseteq asked',
           \A i \in Ids : i # e.id => phase'[i] = phase[i],
           phase'[e.id] \in {"open", "closed"},
           phase[e.id] = "closed" => phase'[e.id] = "closed",
           e.op = "RemovePlayer" => phase'[e.id] = "closed" \/ e.id \in asked'
    PROVE  /\ QueueOrder'
           /\ \A i : CreateFirst(i) => CreateFirst(i)'
           /\ \A i : /\ e = Event("CreatePlayer", i)
                     /\ phase[i] \notin {"open", "closed"}
                     => CreateFirst(i)'
<1> DEFINE n == Len(Input)
<1>1. /\ n \in Nat /\ DOMAIN Input = 1 .. n
      /\ \A k \in 1 .. n : Input[k].id \in Ids
  BY InputType
<1>2. /\ DOMAIN Input' = 1 .. n + 1
      /\ \A k \in 1 .. n : Input'[k] = Input[k]
      /\ Input'[n + 1] = e
  BY InputAppend
<1> HIDE DEF n
<1>3. \A k \in 1 .. n + 1 : k \in 1 .. n \/ k = n + 1
  BY <1>1
<1>4. \A k \in 1 .. n : /\ phase[Input[k].id] \in {"open", "closed"}
                        /\ Input[k].op = "RemovePlayer" =>
                              phase[Input[k].id] = "closed" \/ Input[k].id \in asked
  BY <1>1 DEF QueueOrder
<1>5. QueueOrder'
  <2>1. SUFFICES ASSUME NEW k \in 1 .. n + 1
        PROVE  /\ phase'[Input'[k].id] \in {"open", "closed"}
               /\ Input'[k].op = "RemovePlayer" =>
                     phase'[Input'[k].id] = "closed" \/ Input'[k].id \in asked'
    BY <1>2 DEF QueueOrder
  <2>2. CASE k \in 1 .. n
    BY <2>2, <1>1, <1>2, <1>4
  <2>3. CASE k = n + 1
    BY <2>3, <1>2
  <2> QED  BY <2>2, <2>3, <1>3
<1>6. ASSUME NEW i, CreateFirst(i)
      PROVE  CreateFirst(i)'
  <2>1. PICK k \in 1 .. n : /\ Input[k] = Event("CreatePlayer", i)
                            /\ \A j \in 1 .. n : Input[j].id = i => k <= j
    BY <1>1, <1>6 DEF CreateFirst
  <2>2. k \in 1 .. n + 1 /\ k <= n + 1 /\ Input'[k] = Event("CreatePlayer", i)
    BY <2>1, <1>1, <1>2
  <2>3. \A j \in 1 .. n + 1 : Input'[j].id = i => k <= j
    BY <2>1, <2>2, <1>2, <1>3
  <2> QED  BY <2>2, <2>3, <1>2 DEF CreateFirst
<1>7. ASSUME NEW i, e = Event("CreatePlayer", i), phase[i] \notin {"open", "closed"}
      PROVE  CreateFirst(i)'
  <2>1. n + 1 \in 1 .. n + 1 /\ n + 1 <= n + 1
    BY <1>1
  <2>2. \A j \in 1 .. n + 1 : Input'[j].id = i => n + 1 <= j
    BY <2>1, <1>2, <1>3, <1>4, <1>7
  <2> QED  BY <2>1, <2>2, <1>2, <1>7 DEF CreateFirst
<1> QED  BY <1>5, <1>6, <1>7

\* Every step of a strand keeps the agreement.
LEMMA StrandKeepsAgreement ==
    ASSUME TypeOK, Agreement, NEW i \in Ids, StrandStep(i)
    PROVE  Agreement'
<1>t. /\ phase \in [Ids -> {"new", "adding", "open", "closed"}]
      /\ reading \in [Ids -> BOOLEAN] /\ sessions \subseteq Ids
  BY DEF TypeOK
<1>a. SwapsEmpty /\ QueueOrder /\ PlayerOfPhase /\ MapOfSessions /\ DeathByNull
  BY DEF Agreement
<1>u. /\ Up /\ UNCHANGED <<gameIn, players, tick, crashed>>
      /\ UNCHANGED <<hand, netOut, gameOut>>
  BY DEF StrandStep, AddSession, PushCreate, PushInput, CloseSession, CloseAgain,
         gameVars, sendVars
<1>r. \A j : RpcPending(j)' <=> RpcPending(j)
  BY <1>u DEF RpcPending
<1>b. SwapsEmpty' /\ DeathByNull'
  BY <1>a, <1>u DEF SwapsEmpty, DeathByNull, Up
\* What a push of a session that is open or closed afterwards leaves to show.
<1>p. ASSUME NEW e \in Events, e.id = i, netIn' = Append(netIn, e),
             asked \subseteq asked',
             \A j \in Ids : j # i => phase'[j] = phase[j] /\ reading'[j] = reading[j],
             phase'[i] \in {"open", "closed"},
             phase[i] = "closed" => phase'[i] = "closed",
             e.op = "RemovePlayer" => phase'[i] = "closed" \/ i \in asked',
             phase'[i] = "open" =>
                phase[i] = "open" \/ (players[i] = "absent" /\ CreateFirst(i)'),
             phase'[i] = "closed" =>
                phase[i] = "closed" \/ Queued(Event("RemovePlayer", i))'
      PROVE  QueueOrder' /\ PlayerOfPhase'
  <2>1. QueueOrder' /\ \A j : CreateFirst(j) => CreateFirst(j)'
    BY <1>p, <1>a, <1>u, PushKeepsOrder
  <2>2. \A x : Queued(x) => Queued(x)'
    BY <1>p, <1>u, InputAppend
  <2>3. ASSUME NEW j \in Ids
        PROVE  /\ phase'[j] \in {"new", "adding"} => players[j] = "absent" /\ ~reading'[j]
               /\ phase'[j] = "open" =>
                     \/ players[j] = "player"
                     \/ players[j] = "absent" /\ CreateFirst(j)'
                     \/ j \in asked'
               /\ phase'[j] = "closed" =>
                     \/ players[j] # "player"
                     \/ Queued(Event("RemovePlayer", j))'
                     \/ RpcPending(j)
    <3>1. CASE j = i
      BY <3>1, <2>1, <2>2, <1>p, <1>a DEF PlayerOfPhase
    <3>2. CASE j # i
      BY <3>2, <2>1, <2>2, <1>p, <1>a DEF PlayerOfPhase
    <3> QED  BY <3>1, <3>2
  <2> QED  BY <2>1, <2>3, <1>r, <1>u DEF PlayerOfPhase
<1>1. CASE AddSession(i)
  <2>1. /\ phase[i] = "new" /\ UNCHANGED <<netIn, reading, asked>>
        /\ phase' = [phase EXCEPT ![i] = "adding"] /\ sessions' = sessions \cup {i}
    BY <1>1 DEF AddSession
  <2>2. /\ Input' = Input /\ \A x : Queued(x)' <=> Queued(x)
        /\ \A j : CreateFirst(j)' <=> CreateFirst(j)
    BY <2>1, <1>u DEF Input, Queued, CreateFirst
  <2>3. \A k \in DOMAIN Input : Input[k].id \in Ids /\ Input[k].id # i
    BY <2>1, <1>a, InputType DEF QueueOrder
  <2>4. \A j \in Ids : j # i => phase'[j] = phase[j]
    BY <2>1, <1>t
  <2>5. QueueOrder'
    BY <2>1, <2>2, <2>3, <2>4, <1>a, <1>u DEF QueueOrder
  <2>6. PlayerOfPhase'
    BY <2>1, <2>2, <1>a, <1>r, <1>t, <1>u DEF PlayerOfPhase
  <2>7. MapOfSessions'
    BY <2>1, <1>a, <1>t DEF MapOfSessions
  <2> QED  BY <2>5, <2>6, <2>7, <1>b DEF Agreement
<1>2. CASE PushCreate(i)
  <2> DEFINE e == Event("CreatePlayer", i)
  <2>1. /\ phase[i] = "adding" /\ UNCHANGED <<sessions, asked>>
        /\ phase' = [phase EXCEPT ![i] = "open"]
        /\ reading' = [reading EXCEPT ![i] = TRUE]
        /\ netIn' = Append(netIn, e)
    BY <1>2 DEF PushCreate
  <2>2. e \in Events /\ e.id = i /\ e.op = "CreatePlayer"
    BY EventType, EventFields
  <2>3. /\ \A j \in Ids : j # i => phase'[j] = phase[j] /\ reading'[j] = reading[j]
        /\ phase'[i] = "open" /\ phase[i] \notin {"open", "closed"}
    BY <2>1, <1>t
  <2>4. CreateFirst(i)'
    BY <2>1, <2>2, <2>3, <1>a, <1>u, PushKeepsOrder
  <2> HIDE DEF e
  <2>5. players[i] = "absent"
    BY <2>1, <1>a DEF PlayerOfPhase
  <2>6. QueueOrder' /\ PlayerOfPhase'
    BY <2>1, <2>2, <2>3, <2>4, <2>5, <1>p
  <2>7. MapOfSessions'
    BY <2>1, <1>a, <1>t DEF MapOfSessions
  <2> QED  BY <2>6, <2>7, <1>b, <2>1 DEF Agreement
<1>3. CASE \E op \in ClientOpcodes : PushInput(i, op)
  <2>1. PICK op \in ClientOpcodes : PushInput(i, op)
    BY <1>3
  <2> DEFINE e == Event(op, i)
  <2>2. /\ reading[i] /\ UNCHANGED <<phase, reading, sessions>>
        /\ netIn' = Append(netIn, e)
        /\ asked \subseteq asked'
        /\ op = "RemovePlayer" => i \in asked'
    BY <2>1 DEF PushInput, Reading
  <2>3. e \in Events /\ e.id = i /\ e.op = op
    BY EventType, EventFields
  <2> HIDE DEF e
  <2>4. phase[i] \in {"open", "closed"}
    BY <2>2, <1>a, <1>t DEF PlayerOfPhase
  <2>5. QueueOrder' /\ PlayerOfPhase'
    BY <2>2, <2>3, <2>4, <1>p
  <2>6. MapOfSessions'
    BY <2>2, <1>a DEF MapOfSessions
  <2> QED  BY <2>5, <2>6, <1>b DEF Agreement
<1>4. CASE CloseSession(i)
  <2> DEFINE e == Event("RemovePlayer", i)
  <2>1. /\ phase[i] = "open" /\ sessions' = sessions \ {i} /\ UNCHANGED asked
        /\ phase' = [phase EXCEPT ![i] = "closed"]
        /\ reading' = [reading EXCEPT ![i] = FALSE] \/ reading' = reading
        /\ netIn' = netIn \o <<e>>
    BY <1>4 DEF CloseSession, RemoveEvents
  <2>2. e \in Events /\ e.id = i /\ e.op = "RemovePlayer"
    BY EventType, EventFields
  <2> HIDE DEF e
  <2>3. netIn' = Append(netIn, e)
    BY <2>1, <2>2, AppendIsConcat DEF TypeOK
  <2>4. Queued(Event("RemovePlayer", i))'
    BY <2>2, <2>3, <1>u, InputAppend DEF e
  <2>5. /\ \A j \in Ids : j # i => phase'[j] = phase[j] /\ reading'[j] = reading[j]
        /\ phase'[i] = "closed"
    BY <2>1, <1>t
  <2>6. QueueOrder' /\ PlayerOfPhase'
    BY <2>1, <2>2, <2>3, <2>4, <2>5, <1>p
  <2>7. MapOfSessions'
    BY <2>1, <1>a, <1>t DEF MapOfSessions
  <2> QED  BY <2>6, <2>7, <1>b DEF Agreement
<1>5. CASE CloseAgain(i)
  <2>1. /\ phase[i] = "closed" /\ UNCHANGED <<phase, asked, sessions, netIn>>
        /\ reading' = [reading EXCEPT ![i] = FALSE]
    BY <1>5 DEF CloseAgain
  <2>2. /\ Input' = Input /\ \A x : Queued(x)' <=> Queued(x)
        /\ \A j : CreateFirst(j)' <=> CreateFirst(j)
    BY <2>1, <1>u DEF Input, Queued, CreateFirst
  <2>3. QueueOrder'
    BY <2>1, <2>2, <1>a, <1>u DEF QueueOrder
  <2>4. \A j \in Ids : j # i => reading'[j] = reading[j]
    BY <2>1, <1>t
  <2>5. PlayerOfPhase'
    BY <2>1, <2>2, <2>4, <1>a, <1>r, <1>u DEF PlayerOfPhase
  <2>6. MapOfSessions'
    BY <2>1, <1>a DEF MapOfSessions
  <2> QED  BY <2>3, <2>5, <2>6, <1>b DEF Agreement
<1> QED  BY <1>1, <1>2, <1>3, <1>4, <1>5 DEF StrandStep

\* Processing the oldest event keeps the order of the queue.  A CreatePlayer that
\* is first of its session stays so, or is the one that is processed.
LEMMA TailKeepsOrder ==
    ASSUME TypeOK, QueueOrder, gameIn # << >>,
           gameIn' = Tail(gameIn), netIn' = netIn, UNCHANGED <<phase, asked>>
    PROVE  /\ QueueOrder'
           /\ \A i : CreateFirst(i) =>
                 \/ CreateFirst(i)' /\ Head(gameIn).id # i
                 \/ Head(gameIn) = Event("CreatePlayer", i)
           /\ Queued(Head(gameIn)) /\ phase[Head(gameIn).id] \in {"open", "closed"}
           /\ Head(gameIn).op = "RemovePlayer" =>
                 phase[Head(gameIn).id] = "closed" \/ Head(gameIn).id \in asked
<1> DEFINE n == Len(Input)
<1>1. n \in Nat /\ DOMAIN Input = 1 .. n
  BY InputType
<1>2. /\ n >= 1 /\ Input[1] = Head(gameIn) /\ DOMAIN Input' = 1 .. n - 1
      /\ \A k \in 1 .. n - 1 : Input'[k] = Input[k + 1]
  BY InputTail
<1> HIDE DEF n
<1>3. 1 \in 1 .. n /\ \A k \in 1 .. n - 1 : k + 1 \in 1 .. n
  BY <1>1, <1>2
<1>4. QueueOrder'
  <2>1. \A k \in 1 .. n - 1 :
           /\ phase[Input[k + 1].id] \in {"open", "closed"}
           /\ Input[k + 1].op = "RemovePlayer" =>
                 phase[Input[k + 1].id] = "closed" \/ Input[k + 1].id \in asked
    BY <1>1, <1>3 DEF QueueOrder
  <2> QED  BY <2>1, <1>2 DEF QueueOrder
<1>5. ASSUME NEW i, CreateFirst(i), Head(gameIn) # Event("CreatePlayer", i)
      PROVE  CreateFirst(i)' /\ Head(gameIn).id # i
  <2>1. PICK k \in 1 .. n : /\ Input[k] = Event("CreatePlayer", i)
                            /\ \A j \in 1 .. n : Input[j].id = i => k <= j
    BY <1>1, <1>5 DEF CreateFirst
  <2>2. k # 1 /\ k - 1 \in 1 .. n - 1 /\ (k - 1) + 1 = k /\ ~(k <= 1)
    <3>1. k # 1
      BY <2>1, <1>2, <1>5
    <3> QED  BY <3>1, <1>1
  <2>3. Input'[k - 1] = Event("CreatePlayer", i)
    BY <2>1, <2>2, <1>2
  <2>4. ASSUME NEW j \in 1 .. n - 1, Input'[j].id = i
        PROVE  k - 1 <= j
    <3>1. k <= j + 1
      BY <2>1, <2>4, <1>2, <1>3
    <3> QED  BY <3>1, <1>1
  <2>5. Head(gameIn).id # i
    BY <2>1, <2>2, <1>2, <1>3
  <2> QED  BY <2>2, <2>3, <2>4, <2>5, <1>2 DEF CreateFirst
<1>6. Queued(Head(gameIn))
  BY <1>1, <1>2, <1>3 DEF Queued, Input
<1>7. /\ phase[Head(gameIn).id] \in {"open", "closed"}
      /\ Head(gameIn).op = "RemovePlayer" =>
            phase[Head(gameIn).id] = "closed" \/ Head(gameIn).id \in asked
  BY <1>1, <1>2, <1>3 DEF QueueOrder
<1> QED  BY <1>4, <1>5, <1>6, <1>7

\* An Rpc packet in one of two sequences is in their concatenation.
LEMMA RpcInConcat ==
    ASSUME NEW a \in Seq(Packets), NEW b \in Seq(Packets), NEW i,
           RpcIn(a, i) \/ RpcIn(b, i)
    PROVE  RpcIn(a \o b, i)
<1> DEFINE c == a \o b
<1>1. /\ Len(a) \in Nat /\ DOMAIN a = 1 .. Len(a)
      /\ Len(b) \in Nat /\ DOMAIN b = 1 .. Len(b)
  BY LenProperties
<1>2. /\ c \in Seq(Packets) /\ Len(c) = Len(a) + Len(b)
      /\ \A k \in 1 .. Len(a) + Len(b) :
            c[k] = IF k <= Len(a) THEN a[k] ELSE b[k - Len(a)]
  BY ConcatProperties
<1>3. DOMAIN c = 1 .. Len(a) + Len(b)
  BY <1>2, LenProperties
<1> HIDE DEF c
<1>4. CASE RpcIn(a, i)
  <2>1. PICK k \in 1 .. Len(a) : a[k].type = "Rpc" /\ a[k].id = i
    BY <1>1, <1>4 DEF RpcIn
  <2>2. k \in 1 .. Len(a) + Len(b) /\ k <= Len(a)
    BY <2>1, <1>1
  <2> QED  BY <2>1, <2>2, <1>2, <1>3 DEF RpcIn, c
<1>5. CASE RpcIn(b, i)
  <2>1. PICK k \in 1 .. Len(b) : b[k].type = "Rpc" /\ b[k].id = i
    BY <1>1, <1>5 DEF RpcIn
  <2>2. /\ Len(a) + k \in 1 .. Len(a) + Len(b) /\ ~(Len(a) + k <= Len(a))
        /\ (Len(a) + k) - Len(a) = k
    BY <2>1, <1>1
  <2> QED  BY <2>1, <2>2, <1>2, <1>3 DEF RpcIn, c
<1> QED  BY <1>4, <1>5

\* The game thread takes no packet away, and what it pushes is on its way.
LEMMA RpcPushed ==
    ASSUME TypeOK, NEW q \in Seq(Packets), hand' = hand,
           \/ netOut' = netOut /\ gameOut' = gameOut \o q
           \/ netOut' = netOut \o gameOut \o q /\ gameOut' = << >>,
           NEW i, RpcPending(i) \/ RpcIn(q, i)
    PROVE  RpcPending(i)'
<1>1. netOut \in Seq(Packets) /\ gameOut \in Seq(Packets)
  BY DEF TypeOK
<1>2. netOut \o gameOut \in Seq(Packets)
  BY <1>1, ConcatProperties
<1>3. RpcIn(netOut, i) \/ RpcIn(gameOut, i) => RpcIn(netOut \o gameOut, i)
  BY <1>1, RpcInConcat
<1>4. /\ RpcIn(netOut \o gameOut, i) \/ RpcIn(q, i) =>
            RpcIn(netOut \o gameOut \o q, i)
      /\ RpcIn(gameOut, i) \/ RpcIn(q, i) => RpcIn(gameOut \o q, i)
  BY <1>1, <1>2, RpcInConcat
<1>5. CASE netOut' = netOut /\ gameOut' = gameOut \o q
  BY <1>4, <1>5 DEF RpcPending
<1>6. CASE netOut' = netOut \o gameOut \o q /\ gameOut' = << >>
  BY <1>3, <1>4, <1>6 DEF RpcPending
<1> QED  BY <1>5, <1>6

\* Every step of the game thread keeps the agreement.
LEMMA GameKeepsAgreement ==
    ASSUME TypeOK, Agreement, GameStep
    PROVE  Agreement'
<1> USE DEF gameVars, strands
<1>t. players \in [Ids -> {"absent", "null", "player"}]
  BY DEF TypeOK
<1>a. SwapsEmpty /\ QueueOrder /\ PlayerOfPhase /\ MapOfSessions /\ DeathByNull
  BY DEF Agreement
<1>f. UNCHANGED <<phase, reading, asked, sessions, hand>> /\ Up
  BY DEF GameStep, TickSwap, ProcessCreate, ProcessRemove, ProcessInput, FinishTick,
         sendVars
<1>m. MapOfSessions'
  BY <1>a, <1>f DEF MapOfSessions
<1>n. \A i \in Ids : players[i] = "null" => Removed(i)
  <2>1. phase \in [Ids -> {"new", "adding", "open", "closed"}]
    BY DEF TypeOK
  <2> QED  BY <2>1, <1>a DEF PlayerOfPhase, Removed
\* A crash is one of the game thread that met a session without a player.
<1>c. ASSUME GameCrash("nullPlayer"), UNCHANGED <<netIn, netOut>>,
             \E i \in Ids : Removed(i)
      PROVE  Agreement'
  <2>1. \A i : RpcPending(i)' <=> RpcPending(i)
    BY <1>c, <1>f DEF GameCrash, RpcPending
  <2> QED  BY <2>1, <1>c, <1>f, <1>a, AgreementKept DEF GameCrash, SwapsEmpty
\* What is left to show for the processing of an event of session i.
<1>p. ASSUME NEW i \in Ids, gameIn # << >>, Head(gameIn).id = i, tick = "input",
             gameIn' = Tail(gameIn), UNCHANGED <<netIn, tick, crashed>>,
             \A j \in Ids : j # i => players'[j] = players[j],
             \A j : RpcPending(j) => RpcPending(j)',
             phase[i] = "open" => players'[i] = "player" \/ i \in asked,
             phase[i] = "closed" => \/ players'[i] # "player"
                                    \/ Queued(Event("RemovePlayer", i))'
                                    \/ RpcPending(i)'
      PROVE  Agreement'
  <2>1. /\ QueueOrder' /\ phase[i] \in {"open", "closed"}
        /\ \A j : j # i /\ CreateFirst(j) => CreateFirst(j)'
    <3>1. /\ QueueOrder' /\ phase[i] \in {"open", "closed"}
          /\ \A j : CreateFirst(j) =>
                CreateFirst(j)' \/ Head(gameIn) = Event("CreatePlayer", j)
      BY <1>p, <1>a, <1>f, TailKeepsOrder
    <3>2. \A j : Head(gameIn) = Event("CreatePlayer", j) => j = i
      BY <1>p, EventFields
    <3> QED  BY <3>1, <3>2
  <2>2. ASSUME NEW j \in Ids, j # i
        PROVE  Queued(Event("RemovePlayer", j)) => Queued(Event("RemovePlayer", j))'
    <3>1. Event("RemovePlayer", j) # Head(gameIn)
      BY <2>2, <1>p, EventFields
    <3> QED  BY <3>1, <1>p, InputTail
  <2>3. PlayerOfPhase'
    <3>1. SUFFICES ASSUME NEW j \in Ids
          PROVE  /\ phase[j] \in {"new", "adding"} =>
                       players'[j] = "absent" /\ ~reading[j]
                 /\ phase[j] = "open" =>
                       \/ players'[j] = "player"
                       \/ players'[j] = "absent" /\ CreateFirst(j)'
                       \/ j \in asked
                 /\ phase[j] = "closed" =>
                       \/ players'[j] # "player"
                       \/ Queued(Event("RemovePlayer", j))'
                       \/ RpcPending(j)'
      BY <1>f DEF PlayerOfPhase
    <3>2. CASE j = i
      BY <3>2, <2>1, <1>p
    <3>3. CASE j # i
      BY <3>3, <2>1, <2>2, <1>p, <1>a DEF PlayerOfPhase
    <3> QED  BY <3>2, <3>3
  <2>4. SwapsEmpty' /\ DeathByNull'
    BY <1>p, <1>f DEF SwapsEmpty, DeathByNull, Up
  <2> QED  BY <2>1, <2>3, <2>4, <1>m DEF Agreement
<1>1. CASE TickSwap
  <2>1. CASE GameCrash("nullPlayer")
    <3>1. HasNull /\ UNCHANGED <<netIn, netOut>>
      BY <1>1, <2>1 DEF TickSwap, GameCrash, Up
    <3> QED  BY <3>1, <2>1, <1>c, <1>n DEF HasNull
  <2>2. CASE ~GameCrash("nullPlayer")
    <3>1. /\ tick = "swap" /\ tick' = "input" /\ gameIn' = netIn /\ netIn' = gameIn
          /\ UNCHANGED <<players, crashed, netOut, gameOut>>
      BY <1>1, <2>2 DEF TickSwap
    <3>2. Input' = Input
      BY <3>1, <1>a, InputSwap DEF SwapsEmpty
    <3>3. /\ \A x : Queued(x)' <=> Queued(x)
          /\ \A i : CreateFirst(i)' <=> CreateFirst(i)
          /\ \A i : RpcPending(i)' <=> RpcPending(i)
      BY <3>1, <3>2, <1>f DEF Queued, Input, CreateFirst, RpcPending
    <3>4. QueueOrder'
      BY <3>1, <3>2, <1>a, <1>f DEF QueueOrder
    <3>5. PlayerOfPhase'
      BY <3>1, <3>3, <1>a, <1>f DEF PlayerOfPhase
    <3>6. SwapsEmpty' /\ DeathByNull'
      BY <3>1, <1>f DEF SwapsEmpty, DeathByNull, Up
    <3> QED  BY <3>4, <3>5, <3>6, <1>m DEF Agreement
  <2> QED  BY <2>1, <2>2
<1>2. ASSUME NEW i \in Ids, ProcessCreate(i)
      PROVE  Agreement'
  <2>1. CASE GameCrash("nullPlayer")
    <3>1. (\E j \in Ids : players[j] = "null") /\ UNCHANGED <<netIn, netOut>>
      BY <1>2, <2>1 DEF ProcessCreate, GameCrash, Up
    <3> QED  BY <3>1, <2>1, <1>c, <1>n
  <2>2. CASE ~GameCrash("nullPlayer")
    <3> DEFINE p1 == Packet("Rpc", "create", i, {})
               p2 == Packet("Rpc", "spawn", i, InGame \ {i})
               p3 == Packet("RpcOthers", "add", i, {})
               q == <<p1, p2, p3>>
    <3>1. /\ tick = "input" /\ gameIn # << >>
          /\ Head(gameIn) = Event("CreatePlayer", i)
          /\ gameIn' = Tail(gameIn) /\ UNCHANGED <<netIn, netOut, tick, crashed>>
          /\ players' = [players EXCEPT ![i] = "player"]
          /\ gameOut' = gameOut \o q
      BY <1>2, <2>2 DEF ProcessCreate
    <3>2. p1 \in Packets /\ p2 \in Packets /\ p3 \in Packets
      <4>1. InGame \ {i} \in SUBSET Ids
        BY DEF InGame
      <4> QED  BY <4>1, PacketType
    <3>3. p1.type = "Rpc" /\ p1.id = i
      BY DEF Packet
    <3> HIDE DEF p1, p2, p3
    <3>4. q \in Seq(Packets) /\ 1 \in DOMAIN q /\ q[1] = p1
      BY <3>2
    <3> HIDE DEF q
    <3>5. RpcIn(q, i)
      BY <3>3, <3>4 DEF RpcIn
    <3>6. RpcPending(i)' /\ \A j : RpcPending(j) => RpcPending(j)'
      BY <3>1, <3>4, <3>5, <1>f, RpcPushed
    <3>7. Head(gameIn).id = i
      BY <3>1, EventFields
    <3>8. players'[i] = "player" /\ \A j \in Ids : j # i => players'[j] = players[j]
      BY <3>1, <1>t
    <3> QED  BY <3>1, <3>6, <3>7, <3>8, <1>p
  <2> QED  BY <2>1, <2>2
<1>3. ASSUME NEW i \in Ids, ProcessRemove(i)
      PROVE  Agreement'
  <2> DEFINE q == <<Packet("Broadcast", "remove", i, {})>>
  <2>1. /\ tick = "input" /\ gameIn # << >>
        /\ Head(gameIn) = Event("RemovePlayer", i)
        /\ gameIn' = Tail(gameIn) /\ UNCHANGED <<netIn, netOut, tick, crashed>>
        /\ players' = [players EXCEPT ![i] = "absent"]
        /\ gameOut' = gameOut \o q
    BY <1>3 DEF ProcessRemove, RemovePackets
  <2>2. q \in Seq(Packets)
    BY PacketType
  <2> HIDE DEF q
  <2>3. \A j : RpcPending(j) => RpcPending(j)'
    BY <2>1, <2>2, <1>f, RpcPushed
  <2>4. Head(gameIn).id = i /\ Head(gameIn).op = "RemovePlayer"
    BY <2>1, EventFields
  <2>5. phase[i] = "closed" \/ i \in asked
    BY <2>1, <2>4, <1>a, <1>f, TailKeepsOrder
  <2>6. players'[i] = "absent" /\ \A j \in Ids : j # i => players'[j] = players[j]
    BY <2>1, <1>t
  <2> QED  BY <2>1, <2>3, <2>4, <2>5, <2>6, <1>p
<1>4. ASSUME NEW i \in Ids, NEW op \in InputOpcodes, ProcessInput(i, op)
      PROVE  Agreement'
  <2>1. tick = "input" /\ gameIn # << >> /\ Head(gameIn) = Event(op, i)
    BY <1>4 DEF ProcessInput
  <2>2. /\ Head(gameIn).id = i /\ Event("RemovePlayer", i) # Head(gameIn)
        /\ Event("CreatePlayer", i) # Head(gameIn)
    BY <2>1, OtherOpcodes, EventFields
  <2>3. ~CreateFirst(i) /\ phase[i] \in {"open", "closed"}
    <3>1. Len(Input) \in Nat /\ DOMAIN Input = 1 .. Len(Input)
      BY InputType
    <3>2. 1 \in DOMAIN Input /\ Input[1] = Head(gameIn)
      <4>1. /\ gameIn \in Seq(Events) /\ netIn \in Seq(Events)
            /\ Len(gameIn) \in Nat /\ Len(gameIn) >= 1 /\ Len(netIn) \in Nat
            /\ Head(gameIn) = gameIn[1]
        BY <2>1, LenProperties, HeadTailProperties DEF TypeOK
      <4>2. Len(Input) = Len(gameIn) + Len(netIn) /\ Input[1] = gameIn[1]
        BY <4>1, ConcatProperties DEF Input
      <4> QED  BY <4>1, <4>2, <3>1
    <3>3. phase[i] \in {"open", "closed"}
      BY <2>2, <3>2, <1>a DEF QueueOrder
    <3>4. ASSUME NEW k \in DOMAIN Input, Input[k] = Event("CreatePlayer", i), k <= 1
          PROVE  FALSE
      <4>1. k = 1
        BY <3>1, <3>4
      <4> QED  BY <4>1, <3>2, <3>4, <2>2
    <3> QED  BY <3>2, <3>3, <3>4, <2>2 DEF CreateFirst
  <2>4. phase[i] = "open" => players[i] = "player" \/ i \in asked
    BY <2>3, <1>a DEF PlayerOfPhase
  <2>5. CASE GameCrash("nullPlayer")
    <3>1. players[i] # "player" /\ UNCHANGED <<netIn, netOut>>
      BY <1>4, <2>5 DEF ProcessInput, GameCrash, Up
    <3>2. Removed(i)
      BY <3>1, <2>3, <2>4 DEF Removed
    <3> QED  BY <3>1, <3>2, <2>5, <1>c
  <2>6. CASE ~GameCrash("nullPlayer")
    <3>1. /\ gameIn' = Tail(gameIn)
          /\ UNCHANGED <<netIn, netOut, gameOut, tick, crashed>>
          /\ players' = [players EXCEPT ![i] = IF @ = "absent" THEN "null" ELSE @]
      BY <1>4, <2>6 DEF ProcessInput
    <3>2. Queued(Event("RemovePlayer", i)) => Queued(Event("RemovePlayer", i))'
      BY <2>1, <2>2, <3>1, InputTail
    <3>3. /\ players'[i] = "player" <=> players[i] = "player"
          /\ \A j \in Ids : j # i => players'[j] = players[j]
      BY <3>1, <1>t
    <3>4. \A j : RpcPending(j) => RpcPending(j)'
      BY <3>1, <1>f DEF RpcPending
    <3>5. phase[i] = "closed" => \/ players'[i] # "player"
                                 \/ Queued(Event("RemovePlayer", i))'
                                 \/ RpcPending(i)'
      BY <3>2, <3>3, <3>4, <1>a DEF PlayerOfPhase
    <3> QED  BY <2>1, <2>2, <2>4, <3>1, <3>3, <3>4, <3>5, <1>p
  <2> QED  BY <2>5, <2>6
<1>5. CASE FinishTick
  <2>1. CASE GameCrash("nullPlayer")
    <3>1. HasNull /\ UNCHANGED <<netIn, netOut>>
      BY <1>5, <2>1 DEF FinishTick, GameCrash, Up
    <3> QED  BY <3>1, <2>1, <1>c, <1>n DEF HasNull
  <2>2. CASE ~GameCrash("nullPlayer")
    <3>1. /\ gameIn = << >> /\ UNCHANGED <<gameIn, netIn, players, crashed>>
          /\ gameOut' = << >>
      BY <1>5, <2>2 DEF FinishTick
    <3>2. PICK order \in SetToSeqs(InGame) :
             netOut' = netOut \o gameOut \o
                [k \in DOMAIN order |-> Packet("Broadcast", "move", order[k], {})]
      BY <1>5, <2>2 DEF FinishTick
    <3> DEFINE q == [k \in DOMAIN order |-> Packet("Broadcast", "move", order[k], {})]
    <3>3. order \in Seq(Ids) /\ Len(order) \in Nat /\ DOMAIN order = 1 .. Len(order)
          /\ \A k \in 1 .. Len(order) : order[k] \in Ids
      BY OrderOfPlayers, LenProperties
    <3>4. \A k \in 1 .. Len(order) : Packet("Broadcast", "move", order[k], {}) \in Packets
      BY <3>3, PacketType
    <3>5. q \in [1 .. Len(order) -> Packets]
      BY <3>3, <3>4
    <3>6. q \in Seq(Packets)
      BY <3>3, <3>5
    <3> HIDE DEF q
    <3>7. \A i : RpcPending(i) => RpcPending(i)'
      BY <3>1, <3>2, <3>6, <1>f, RpcPushed DEF q
    <3> QED  BY <3>1, <3>7, <1>f, AgreementKept DEF Up
  <2> QED  BY <2>1, <2>2
<1> QED  BY <1>1, <1>2, <1>3, <1>4, <1>5 DEF GameStep

\* The senders touch nothing of it, and push no Rpc packet for a closed session.
LEMMA SenderKeepsAgreement ==
    ASSUME TypeOK, Agreement, NEW s \in Senders, SenderStep(s)
    PROVE  Agreement'
<1>1. /\ UNCHANGED <<phase, reading, asked, sessions, netIn, gameIn, gameOut>>
      /\ UNCHANGED <<players, tick>> /\ Up /\ crashed' # "nullPlayer"
  BY DEF SenderStep, SenderPop, SendRpc, SendNext, SendDone, SendRace, strands,
         gameVars, Up
<1>t. hand \in [Senders -> Packets \cup {NoPacket}] /\ netOut \in Seq(Packets)
  BY DEF TypeOK
<1>2. ASSUME NEW i \in Ids, phase[i] = "closed", RpcPending(i)
      PROVE  RpcPending(i)'
  <2>1. i \notin sessions
    BY <1>2 DEF Agreement, MapOfSessions
  <2>2. CASE UNCHANGED <<hand, netOut>>
    BY <2>2, <1>1, <1>2 DEF RpcPending
  \* Sender s drops a packet that is not an Rpc packet for i.
  <2>3. ASSUME netOut' = netOut, hand' = [hand EXCEPT ![s] = NoPacket],
               hand[s].type # "Rpc" \/ hand[s].id # i
        PROVE  RpcPending(i)'
    <3>1. \A r \in Senders : r # s => hand'[r] = hand[r]
      BY <2>3, <1>t
    <3> QED  BY <2>3, <3>1, <1>1, <1>2 DEF RpcPending
  <2>4. CASE SenderPop(s)
    <3>1. /\ hand[s] = NoPacket /\ netOut # << >> /\ netOut' = Tail(netOut)
          /\ hand' = [hand EXCEPT ![s] = Head(netOut)]
      BY <2>4 DEF SenderPop
    <3>2. /\ Head(netOut) = netOut[1] /\ Head(netOut) \in Packets
          /\ Len(netOut) \in Nat /\ DOMAIN netOut = 1 .. Len(netOut)
          /\ Tail(netOut) \in Seq(Packets) /\ Len(Tail(netOut)) = Len(netOut) - 1
          /\ \A k \in 1 .. Len(netOut) - 1 : Tail(netOut)[k] = netOut[k + 1]
      BY <3>1, <1>t, HeadTailProperties, LenProperties
    <3>3. DOMAIN Tail(netOut) = 1 .. Len(netOut) - 1
      BY <3>2, LenProperties
    <3>4. hand'[s] = Head(netOut) /\ \A r \in Senders : r # s => hand'[r] = hand[r]
      BY <3>1, <1>t
    <3>5. CASE RpcIn(netOut, i)
      <4>1. PICK k \in 1 .. Len(netOut) : netOut[k].type = "Rpc" /\ netOut[k].id = i
        BY <3>2, <3>5 DEF RpcIn
      <4>2. CASE k = 1
        <5>1. hand'[s].type = "Rpc" /\ hand'[s].id = i /\ hand'[s] # NoPacket
          BY <4>1, <4>2, <3>2, <3>4, NoPacketIsNone
        <5> QED  BY <5>1 DEF RpcPending
      <4>3. CASE k # 1
        <5>1. k - 1 \in 1 .. Len(netOut) - 1 /\ (k - 1) + 1 = k
          BY <4>3, <3>2
        <5>2. RpcIn(Tail(netOut), i)
          BY <4>1, <5>1, <3>2, <3>3 DEF RpcIn
        <5> QED  BY <5>2, <3>1 DEF RpcPending
      <4> QED  BY <4>2, <4>3
    <3>6. CASE ~RpcIn(netOut, i)
      BY <3>1, <3>4, <3>6, <1>1, <1>2 DEF RpcPending
    <3> QED  BY <3>5, <3>6
  <2>5. CASE SendRpc(s)
    <3>1. \/ UNCHANGED <<hand, netOut>>
          \/ /\ netOut' = netOut /\ hand' = [hand EXCEPT ![s] = NoPacket]
             /\ hand[s].id # i
      BY <2>5, <2>1 DEF SendRpc, Release
    <3> QED  BY <3>1, <2>2, <2>3
  <2>6. CASE SendDone(s)
    <3>1. /\ netOut' = netOut /\ hand' = [hand EXCEPT ![s] = NoPacket]
          /\ hand[s].type # "Rpc"
      BY <2>6 DEF SendDone, Release
    <3> QED  BY <3>1, <2>3
  <2>7. CASE (\E j \in Ids : SendNext(s, j)) \/ SendRace(s)
    <3>1. UNCHANGED <<hand, netOut>>
      BY <2>7 DEF SendNext, SendRace, sendVars
    <3> QED  BY <3>1, <2>2
  <2> QED  BY <2>4, <2>5, <2>6, <2>7 DEF SenderStep
<1> QED  BY <1>1, <1>2, AgreementKept DEF Agreement, SwapsEmpty

-----------------------------------------------------------------------------
(* The theorems.                                                           *)

\* The invariant is inductive.
LEMMA InvStep == Inv /\ [Next]_vars => Inv'
<1> SUFFICES ASSUME Inv, [Next]_vars
             PROVE  Inv'
  OBVIOUS
<1>1. TypeOK /\ HandsPopped /\ Agreement
  BY DEF Inv
<1>2. ASSUME NEW i \in Ids, StrandStep(i)
      PROVE  Inv'
  <2>1. UNCHANGED <<hand, popped>>
    BY <1>2 DEF StrandStep, AddSession, PushCreate, PushInput, CloseSession,
                CloseAgain, sendVars
  <2>2. HandsPopped'
    BY <2>1, <1>1 DEF HandsPopped
  <2> QED  BY <2>2, <1>1, <1>2, StrandKeepsTypes, StrandKeepsAgreement DEF Inv
<1>3. CASE GameStep
  <2>1. UNCHANGED <<hand, popped>>
    BY <1>3 DEF GameStep, TickSwap, ProcessCreate, ProcessRemove, ProcessInput,
                FinishTick, sendVars
  <2>2. HandsPopped'
    BY <2>1, <1>1 DEF HandsPopped
  <2> QED  BY <2>2, <1>1, <1>3, GameKeepsTypes, GameKeepsAgreement DEF Inv
<1>4. ASSUME NEW s \in Senders, SenderStep(s)
      PROVE  Inv'
  BY <1>1, <1>4, SenderKeepsTypes, SenderKeepsAgreement DEF Inv
<1>5. CASE UNCHANGED vars
  <2>1. TypeOK'
    BY <1>1, <1>5 DEF TypeOK, vars
  <2>2. HandsPopped'
    BY <1>1, <1>5 DEF HandsPopped, vars
  <2>3. /\ UNCHANGED <<phase, reading, asked, sessions, netIn, gameIn, players>>
        /\ UNCHANGED <<tick, crashed, hand, netOut, gameOut>>
    BY <1>5 DEF vars
  <2>4. \A i : RpcPending(i)' <=> RpcPending(i)
    BY <2>3 DEF RpcPending
  <2>5. Agreement'
    BY <2>3, <2>4, <1>1, AgreementKept DEF Agreement, SwapsEmpty, DeathByNull
  <2> QED  BY <2>1, <2>2, <2>5 DEF Inv
<1> QED  BY <1>2, <1>3, <1>4, <1>5 DEF Next

\* The invariant holds when the server starts.
LEMMA InvInit == Init => Inv
<1> SUFFICES ASSUME Init
             PROVE  Inv
  OBVIOUS
<1>1. TypeOK
  <2>1. StrandType /\ GameType
    BY GameServerAssumption DEF Init, StrandType, GameType
  <2>2. QueueType
    BY DEF Init, QueueType
  <2>3. SendType /\ sessions \subseteq Ids /\ dirty \in [Senders -> BOOLEAN]
    <3>1. popped \in Seq(Senders)
      <4>1. popped = << >>
        BY DEF Init
      <4> QED  BY <4>1
    <3>6. missed \in BOOLEAN
      BY DEF Init
    <3>2. hand \in [Senders -> Packets \cup {NoPacket}]
      BY DEF Init
    <3>3. seen \in [Senders -> SUBSET Ids] /\ view \in [Ids -> SUBSET Ids]
      BY DEF Init
    <3>4. sent \subseteq Ids /\ overtaken \subseteq Ids /\ sessions \subseteq Ids
      BY DEF Init
    <3>5. dirty \in [Senders -> BOOLEAN]
      BY DEF Init
    <3> QED  BY <3>1, <3>2, <3>3, <3>4, <3>5, <3>6 DEF SendType
  <2> QED  BY <2>1, <2>2, <2>3, TypeParts DEF Types
<1>2. HandsPopped
  BY DEF Init, HandsPopped
<1>3. SwapsEmpty /\ MapOfSessions /\ DeathByNull /\ PlayerOfPhase
  BY DEF Init, SwapsEmpty, MapOfSessions, DeathByNull, PlayerOfPhase
<1>4. QueueOrder
  <2>1. Len(gameIn) = 0 /\ Len(netIn) = 0
    BY DEF Init
  <2>2. Len(Input) = 0
    BY <2>1, <1>1, ConcatProperties DEF TypeOK, Input
  <2> QED  BY <2>2, <1>1, InputType DEF QueueOrder
<1> QED  BY <1>1, <1>2, <1>3, <1>4 DEF Inv, Agreement

\* The inductive invariant is one of the specification.
THEOREM Invariance == Spec => []Inv
BY InvInit, InvStep, PTL DEF Spec

\* Every variable keeps its type, for any number of sessions and senders.
THEOREM TypeCorrect == Spec => []TypeOK
<1>1. Inv => TypeOK
  BY DEF Inv
<1> QED  BY <1>1, Invariance, PTL

\* The invariant says what the properties about players say.
LEMMA InvImplies == Inv => NoGhostPlayer /\ NullPlayerOnlyAfterRemoval
<1> SUFFICES ASSUME Inv
             PROVE  NoGhostPlayer /\ NullPlayerOnlyAfterRemoval
  OBVIOUS
<1>1. /\ phase \in [Ids -> {"new", "adding", "open", "closed"}]
      /\ players \in [Ids -> {"absent", "null", "player"}]
  BY DEF Inv, TypeOK
<1>2. NoGhostPlayer
  <2>1. \A i \in Ids : CreateFirst(i) => Queued(Event("CreatePlayer", i))
    BY DEF CreateFirst, Queued, Input
  <2> QED
    BY <1>1, <2>1 DEF Inv, Agreement, PlayerOfPhase, MapOfSessions, NoGhostPlayer
<1>3. NullPlayerOnlyAfterRemoval
  BY <1>1 DEF Inv, Agreement, PlayerOfPhase, DeathByNull, HasNull, Removed,
              NullPlayerOnlyAfterRemoval
<1> QED  BY <1>2, <1>3

\* However many sessions come and go, whatever their clients send, and wherever
\* the swap of the queues cuts their events apart: a player without a session has
\* its RemovePlayer queued, or the answer to a late CreatePlayer is on its way to
\* it, and a session without a player has its CreatePlayer queued or was asked for
\* the removal (world.cpp:69, 79, server.cpp:110).
THEOREM NoGhosts == Spec => []NoGhostPlayer
BY InvImplies, Invariance, PTL

\* The game thread makes or meets a null player only for a session whose
\* RemovePlayer was pushed, by CloseSession or by its client (world.cpp:101).
THEOREM NullPlayersWereRemoved == Spec => []NullPlayerOnlyAfterRemoval
BY InvImplies, Invariance, PTL

-----------------------------------------------------------------------------
(* What a client will know.  A player is known when a packet adds it, or it  *)
(* is known before, and no later packet drops it.                            *)

Adds(p, j) ==
    \/ p.op = "spawn" /\ j \in p.others
    \/ p.op = "add" /\ p.id = j
Drops(p, j) == p.op = "remove" /\ p.id = j

\* The places in due at which w drops j, and whether a client knows j after the
\* packets of w at the places in due.
DroppedAfter(w, due, k, j) == \E l \in due : l > k /\ Drops(w[l], j)
Knows(v, w, due, j) ==
    \/ j \in v /\ ~DroppedAfter(w, due, 0, j)
    \/ \E k \in due : Adds(w[k], j) /\ ~DroppedAfter(w, due, k, j)

\* One packet.
LEMMA ToldFacts ==
    ASSUME NEW p \in Packets, NEW v
    PROVE  /\ \A j : j \in Told(v, p) <=> (j \in v /\ ~Drops(p, j)) \/ Adds(p, j)
           /\ \A j : ~(Adds(p, j) /\ Drops(p, j))
<1>1. p.op \in {"create", "spawn", "add", "remove", "move"}
  BY DEF Packets
<1>2. CASE p.op = "spawn"
  <2>1. Told(v, p) = v \cup p.others
    BY <1>2 DEF Told
  <2> QED  BY <2>1, <1>2 DEF Adds, Drops
<1>3. CASE p.op = "add"
  BY <1>3 DEF Told, Adds, Drops
<1>4. CASE p.op = "remove"
  BY <1>4 DEF Told, Adds, Drops
<1>5. CASE p.op \in {"create", "move"}
  BY <1>5 DEF Told, Adds, Drops
<1> QED  BY <1>1, <1>2, <1>3, <1>4, <1>5

\* Packets that commute do not say opposite things of a player.
LEMMA CommuteFacts ==
    ASSUME NEW p \in Packets, NEW q \in Packets, Commute(p, q), NEW j
    PROVE  ~(Adds(p, j) /\ Drops(q, j)) /\ ~(Drops(p, j) /\ Adds(q, j))
<1>1. Told(Told({}, p), q) = Told(Told({}, q), p)
  BY DEF Commute
<1>2. j \in Told(Told({}, p), q) <=>
         (j \in Told({}, p) /\ ~Drops(q, j)) \/ Adds(q, j)
  BY ToldFacts
<1>3. j \in Told(Told({}, q), p) <=>
         (j \in Told({}, q) /\ ~Drops(p, j)) \/ Adds(p, j)
  BY ToldFacts
<1>4. (j \in Told({}, p) <=> Adds(p, j)) /\ (j \in Told({}, q) <=> Adds(q, j))
  BY ToldFacts
<1>5. ~(Adds(p, j) /\ Drops(p, j)) /\ ~(Adds(q, j) /\ Drops(q, j))
  BY ToldFacts
<1> QED  BY <1>1, <1>2, <1>3, <1>4, <1>5

\* The last of the packets.
LEMMA KnowsNext ==
    ASSUME NEW v, NEW w, NEW due, NEW k \in Nat \ {0}, due \subseteq 1 .. k - 1,
           w[k] \in Packets, NEW j
    PROVE  Knows(v, w, due \cup {k}, j) <=>
              (Knows(v, w, due, j) /\ ~Drops(w[k], j)) \/ Adds(w[k], j)
<1> DEFINE D == due \cup {k}
<1>1. ~(Adds(w[k], j) /\ Drops(w[k], j))
  BY ToldFacts
<1>2. ~DroppedAfter(w, D, k, j)
  BY DEF DroppedAfter
<1>3. \A l \in due \cup {0} :
         DroppedAfter(w, D, l, j) <=> DroppedAfter(w, due, l, j) \/ Drops(w[k], j)
  <2>1. \A l \in due \cup {0} : k > l
    OBVIOUS
  <2> QED  BY <2>1 DEF DroppedAfter
<1> HIDE DEF D
<1>4. k \in D /\ due \subseteq D /\ \A l \in D : l \in due \/ l = k
  BY DEF D
<1>5. CASE Adds(w[k], j)
  <2>1. Knows(v, w, D, j)
    BY <1>2, <1>4, <1>5 DEF Knows
  <2> QED  BY <2>1, <1>5 DEF D
<1>6. CASE ~Adds(w[k], j)
  <2>1. Knows(v, w, D, j) => Knows(v, w, due, j) /\ ~Drops(w[k], j)
    BY <1>3, <1>4, <1>6 DEF Knows
  <2>2. Knows(v, w, due, j) /\ ~Drops(w[k], j) => Knows(v, w, D, j)
    BY <1>3, <1>4 DEF Knows
  <2> QED  BY <2>1, <2>2, <1>6 DEF D
<1> QED  BY <1>5, <1>6

\* Heard is what Knows says of each player.
LEMMA HeardFacts ==
    ASSUME NEW v \in SUBSET Ids, NEW w \in Seq(Packets),
           NEW due, due \subseteq 1 .. Len(w)
    PROVE  Heard(v, w, due) = {j \in Ids : Knows(v, w, due, j)}
<1> DEFINE n == Len(w)
           IsHeard(h) == h = [k \in 0 .. n |->
                                CASE k = 0     -> v
                                  [] k \in due -> Told(h[k - 1], w[k])
                                  [] OTHER     -> h[k - 1]]
           upto(k) == due \cap (1 .. k)
           g == [k \in 0 .. n |-> {j \in Ids : Knows(v, w, upto(k), j)}]
<1>1. n \in Nat /\ \A k \in 1 .. n : w[k] \in Packets
  OBVIOUS
<1> HIDE DEF n
<1>2. {j \in Ids : Knows(v, w, upto(0), j)} = v
  <2>1. upto(0) = {}
    OBVIOUS
  <2>2. \A j : Knows(v, w, {}, j) <=> j \in v
    BY DEF Knows, DroppedAfter
  <2> HIDE DEF upto
  <2> QED  BY <2>1, <2>2
<1>3. ASSUME NEW k \in 1 .. n, NEW x,
             x = {j \in Ids : Knows(v, w, upto(k - 1), j)}
      PROVE  {j \in Ids : Knows(v, w, upto(k), j)} =
                IF k \in due THEN Told(x, w[k]) ELSE x
  <2>1. k \in Nat \ {0} /\ w[k] \in Packets
    BY <1>1
  <2>2. CASE k \in due
    <3>1. upto(k) = upto(k - 1) \cup {k} /\ upto(k - 1) \subseteq 1 .. k - 1
      BY <2>1, <2>2
    <3> HIDE DEF upto
    <3>2. \A j : Knows(v, w, upto(k), j) <=>
                   (Knows(v, w, upto(k - 1), j) /\ ~Drops(w[k], j)) \/ Adds(w[k], j)
      BY <3>1, <2>1, KnowsNext
    <3>3. \A j : j \in Told(x, w[k]) <=> (j \in x /\ ~Drops(w[k], j)) \/ Adds(w[k], j)
      BY <2>1, ToldFacts
    <3>4. \A j : Adds(w[k], j) => j \in Ids
      BY <2>1 DEF Adds, Packets
    <3> QED  BY <3>2, <3>3, <3>4, <2>2, <1>3
  <2>3. CASE k \notin due
    <3>1. upto(k) = upto(k - 1)
      BY <2>1, <2>3
    <3> HIDE DEF upto
    <3> QED  BY <3>1, <2>3, <1>3
  <2> QED  BY <2>2, <2>3
<1> HIDE DEF upto
<1>4. \A k \in 1 .. n : k - 1 \in 0 .. n /\ k \in 0 .. n /\ k # 0
  BY <1>1
<1>5. IsHeard(g)
  <2>1. ASSUME NEW k \in 0 .. n
        PROVE  g[k] = CASE k = 0     -> v
                        [] k \in due -> Told(g[k - 1], w[k])
                        [] OTHER     -> g[k - 1]
    <3>1. CASE k = 0
      BY <3>1, <1>2, <1>1
    <3>2. CASE k # 0
      <4>1. k \in 1 .. n
        BY <3>2, <1>1
      <4>2. g[k] = {j \in Ids : Knows(v, w, upto(k), j)}
            /\ g[k - 1] = {j \in Ids : Knows(v, w, upto(k - 1), j)}
        BY <4>1, <1>4
      <4> HIDE DEF g
      <4>3. g[k] = IF k \in due THEN Told(g[k - 1], w[k]) ELSE g[k - 1]
        BY <4>1, <4>2, <1>3
      <4> QED  BY <4>3, <3>2
    <3> QED  BY <3>1, <3>2
  <2> QED  BY <2>1
<1>6. IsHeard(CHOOSE h : IsHeard(h))
  <2>1. \E h : IsHeard(h)
    BY <1>5
  <2> HIDE DEF IsHeard
  <2> QED  BY <2>1
<1> DEFINE heard == CHOOSE h : IsHeard(h)
<1>7. Heard(v, w, due) = heard[n]
  BY Zenon DEF Heard, n
<1>8. IsHeard(heard)
  <2> HIDE DEF IsHeard
  <2> QED  BY <1>6
<1> HIDE DEF heard
<1>9. \A k \in 0 .. n : heard[k] = CASE k = 0     -> v
                                     [] k \in due -> Told(heard[k - 1], w[k])
                                     [] OTHER     -> heard[k - 1]
  BY <1>8
<1> HIDE DEF IsHeard
<1>10. /\ heard[0] = v
       /\ \A k \in 1 .. n :
             heard[k] = IF k \in due THEN Told(heard[k - 1], w[k]) ELSE heard[k - 1]
  BY <1>1, <1>4, <1>9
<1> DEFINE T == {k \in Nat : k <= n /\ heard[k] # {j \in Ids : Knows(v, w, upto(k), j)}}
<1>11. T = {}
  <2>1. SUFFICES ASSUME T # {}
        PROVE  FALSE
    OBVIOUS
  <2>2. PICK k \in T : \A l \in T : k <= l
    BY <2>1, Least
  <2>3. k # 0
    BY <2>2, <1>2, <1>10
  <2>4. k \in 1 .. n /\ k - 1 \in Nat /\ k - 1 <= n /\ ~(k <= k - 1)
    BY <2>2, <2>3, <1>1
  <2>5. heard[k - 1] = {j \in Ids : Knows(v, w, upto(k - 1), j)}
    BY <2>2, <2>4
  <2>6. heard[k] # {j \in Ids : Knows(v, w, upto(k), j)}
    BY <2>2
  <2> QED  BY <2>4, <2>5, <2>6, <1>3, <1>10
<1>12. heard[n] = {j \in Ids : Knows(v, w, upto(n), j)}
  BY <1>1, <1>11
<1>13. upto(n) = due
  BY DEF upto, n
<1> QED  BY <1>7, <1>12, <1>13

-----------------------------------------------------------------------------
(* How the steps change what a client will know.                             *)

\* The places in due before m hold packets that say nothing opposite to p.
Ordered(w, due, m, p) == \A k \in due : k < m => Commute(w[k], p)

\* A packet that may be pushed early is not opposite to one it overtakes.
LEMMA OrderedFacts ==
    ASSUME NEW w, NEW due, NEW m \in Nat, NEW p \in Packets,
           \A k \in due : w[k] \in Packets, Ordered(w, due, m, p), NEW j,
           NEW k \in due, k < m
    PROVE  ~(Adds(w[k], j) /\ Drops(p, j)) /\ ~(Drops(w[k], j) /\ Adds(p, j))
BY CommuteFacts DEF Ordered

\* A packet that overtakes only packets it commutes with changes nothing in what
\* the client knows in the end.
LEMMA PushNow ==
    ASSUME NEW v, NEW w, NEW due, due \subseteq Nat \ {0}, NEW m \in due,
           \A k \in due : w[k] \in Packets, Ordered(w, due, m, w[m]), NEW j
    PROVE  Knows(Told(v, w[m]), w, due \ {m}, j) <=> Knows(v, w, due, j)
<1> DEFINE p == w[m]
           D == due \ {m}
<1>1. p \in Packets
  OBVIOUS
<1>2. /\ j \in Told(v, p) <=> (j \in v /\ ~Drops(p, j)) \/ Adds(p, j)
      /\ ~(Adds(p, j) /\ Drops(p, j))
  BY <1>1, ToldFacts
<1>3. \A k \in due : k < m =>
         ~(Adds(w[k], j) /\ Drops(p, j)) /\ ~(Drops(w[k], j) /\ Adds(p, j))
  BY <1>1, OrderedFacts
<1>4. /\ m \in due /\ m > 0
      /\ \A k \in due : k # m => k \in D /\ (k < m \/ k > m)
      /\ \A k \in D : k \in due /\ k # m
  OBVIOUS
<1>5. \A k \in due \cup {0} : DroppedAfter(w, due, k, j) <=>
         DroppedAfter(w, D, k, j) \/ (m > k /\ Drops(p, j))
  <2> HIDE DEF D
  <2> QED  BY <1>4 DEF DroppedAfter
<1>6. DroppedAfter(w, D, m, j) <=> DroppedAfter(w, due, m, j)
  <2>1. ~(m > m)
    OBVIOUS
  <2> HIDE DEF D
  <2> QED  BY <1>5, <2>1
<1> SUFFICES Knows(Told(v, p), w, D, j) <=> Knows(v, w, due, j)
  OBVIOUS
<1> HIDE DEF p, D
<1>7. CASE Adds(p, j)
  <2>1. ~DroppedAfter(w, due, m, j) => ~DroppedAfter(w, D, 0, j)
    BY <1>3, <1>4, <1>7 DEF DroppedAfter
  <2>2. \A k \in due \cup {0} : DroppedAfter(w, due, k, j) <=> DroppedAfter(w, D, k, j)
    BY <1>2, <1>5, <1>7
  <2>3. j \in Told(v, p) /\ Adds(w[m], j)
    BY <1>2, <1>7 DEF p
  <2>4. ~DroppedAfter(w, due, 0, j) => ~DroppedAfter(w, due, m, j)
    BY <1>4 DEF DroppedAfter
  <2>5. Knows(v, w, due, j) => Knows(Told(v, p), w, D, j)
    BY <2>1, <2>2, <2>3, <1>4 DEF Knows
  <2>6. Knows(Told(v, p), w, D, j) => Knows(v, w, due, j)
    BY <2>2, <2>3, <2>4, <1>4 DEF Knows
  <2> QED  BY <2>5, <2>6
<1>8. CASE Drops(p, j)
  <2>1. \A k \in due : k < m \/ k = m \/ k > m
    BY <1>4
  <2>2. ~(j \in Told(v, p)) /\ DroppedAfter(w, due, 0, j)
    BY <1>2, <1>4, <1>5, <1>8
  <2>3. \A k \in due : Adds(w[k], j) => k > m
    BY <2>1, <1>2, <1>3, <1>8 DEF p
  <2>4. \A k \in due : k > m =>
           k \in D /\ (DroppedAfter(w, due, k, j) <=> DroppedAfter(w, D, k, j))
    BY <1>4, <1>5
  <2> QED  BY <2>2, <2>3, <2>4, <1>4 DEF Knows
<1>9. CASE ~Adds(p, j) /\ ~Drops(p, j)
  <2>1. \A k \in due \cup {0} : DroppedAfter(w, due, k, j) <=> DroppedAfter(w, D, k, j)
    BY <1>5, <1>9
  <2>2. \A k \in due : Adds(w[k], j) => k \in D
    BY <1>4, <1>9 DEF p
  <2> QED  BY <2>1, <2>2, <1>2, <1>4, <1>9 DEF Knows
<1> QED  BY <1>7, <1>8, <1>9

\* A client that knows nobody comes to know nobody more by missing a packet.
LEMMA SkipEmpty ==
    ASSUME NEW w, NEW due, due \subseteq Nat \ {0}, NEW m \in due,
           \A k \in due : w[k] \in Packets, Ordered(w, due, m, w[m]), NEW j,
           Knows({}, w, due \ {m}, j)
    PROVE  Knows({}, w, due, j)
<1>1. PICK k \in due \ {m} :
         Adds(w[k], j) /\ ~DroppedAfter(w, due \ {m}, k, j)
  BY DEF Knows
<1>2. w[m] \in Packets /\ m \in Nat
  OBVIOUS
<1>3. ~(m > k /\ Drops(w[m], j))
  BY <1>1, <1>2, OrderedFacts
<1>4. ~DroppedAfter(w, due, k, j)
  BY <1>1, <1>3 DEF DroppedAfter
<1> QED  BY <1>1, <1>4 DEF Knows

\* x at the places in rest is w at those in due, without place m.
Reindexed(n, m, w, due, x, rest) ==
    /\ due \subseteq 1 .. n /\ m \notin due
    /\ rest \subseteq 1 .. n - 1
    /\ \A k \in 1 .. n - 1 : k \in rest <=> Skip(m, k) \in due
    /\ \A k \in rest : x[k] = w[Skip(m, k)]

\* Only the order of the packets counts.
LEMMA Reindex ==
    ASSUME NEW v, NEW w, NEW x, NEW n \in Nat, NEW m \in 1 .. n, NEW due, NEW rest,
           Reindexed(n, m, w, due, x, rest), NEW j
    PROVE  Knows(v, x, rest, j) <=> Knows(v, w, due, j)
<1>0. /\ due \subseteq 1 .. n /\ m \notin due
      /\ rest \subseteq 1 .. n - 1
      /\ \A k \in 1 .. n - 1 : k \in rest <=> Skip(m, k) \in due
      /\ \A k \in rest : x[k] = w[Skip(m, k)]
  BY DEF Reindexed
<1>1. \A l \in due : \E k \in rest : Skip(m, k) = l
  <2>1. \A l \in 1 .. n : l # m => \E k \in 1 .. n - 1 : Skip(m, k) = l
    BY SkipFacts
  <2> QED  BY <2>1, <1>0
<1>2. \A k \in rest : Skip(m, k) \in due
  BY <1>0
<1>3. \A k, l \in rest : Skip(m, k) < Skip(m, l) <=> k < l
  <2>1. \A k, l \in Nat : Skip(m, k) < Skip(m, l) <=> k < l
    BY SkipFacts
  <2>2. \A k \in rest : k \in Nat
    BY <1>0
  <2> QED  BY <2>1, <2>2
<1>4. \A k \in rest : k \in Nat /\ k > 0 /\ Skip(m, k) \in Nat /\ Skip(m, k) > 0
  BY <1>0 DEF Skip
<1>5. \A k \in rest : DroppedAfter(x, rest, k, j) <=> DroppedAfter(w, due, Skip(m, k), j)
  <2> SUFFICES ASSUME NEW k \in rest
      PROVE  DroppedAfter(x, rest, k, j) <=> DroppedAfter(w, due, Skip(m, k), j)
    OBVIOUS
  <2>1. \A l \in rest : l > k <=> Skip(m, l) > Skip(m, k)
    BY <1>3, <1>4
  <2> QED  BY <2>1, <1>0, <1>1, <1>2 DEF DroppedAfter
<1>6. DroppedAfter(x, rest, 0, j) <=> DroppedAfter(w, due, 0, j)
  BY <1>0, <1>1, <1>2, <1>4 DEF DroppedAfter
<1>7. Knows(v, x, rest, j) => Knows(v, w, due, j)
  BY <1>0, <1>2, <1>5, <1>6 DEF Knows
<1>8. Knows(v, w, due, j) => Knows(v, x, rest, j)
  <2>1. CASE j \in v /\ ~DroppedAfter(w, due, 0, j)
    BY <2>1, <1>6 DEF Knows
  <2>2. CASE \E l \in due : Adds(w[l], j) /\ ~DroppedAfter(w, due, l, j)
    <3>1. PICK l \in due : Adds(w[l], j) /\ ~DroppedAfter(w, due, l, j)
      BY <2>2
    <3>2. PICK k \in rest : Skip(m, k) = l
      BY <1>1
    <3>3. Adds(x[k], j) /\ ~DroppedAfter(x, rest, k, j)
      BY <3>1, <3>2, <1>0, <1>5
    <3> QED  BY <3>3 DEF Knows
  <2> QED  BY <2>1, <2>2 DEF Knows
<1> QED  BY <1>7, <1>8

\* New packets at the end: x is w with more packets, due2 the places in it.
Longer(w, due, x, due2, n) ==
    /\ due \subseteq 1 .. n
    /\ due \subseteq due2
    /\ \A k \in due2 : k \in due \/ (k \in Nat /\ k > n)
    /\ \A k \in due : x[k] = w[k]

\* They leave what the client knows of j, or tell it of j, or to drop j.
Outcome(v, w, due, x, due2, j) ==
    /\ (\A k \in due2 \ due : ~Adds(x[k], j) /\ ~Drops(x[k], j)) =>
          (Knows(v, x, due2, j) <=> Knows(v, w, due, j))
    /\ (\A k \in due2 \ due : ~Drops(x[k], j)) /\
       (\E k \in due2 \ due : Adds(x[k], j)) => Knows(v, x, due2, j)
    /\ (\A k \in due2 \ due : ~Adds(x[k], j)) /\
       (\E k \in due2 \ due : Drops(x[k], j)) => ~Knows(v, x, due2, j)

\* Packets at the end decide what the client knows of the players they name.
LEMMA Later ==
    ASSUME NEW n \in Nat, NEW v, NEW w, NEW due, NEW x, NEW due2,
           Longer(w, due, x, due2, n), NEW j
    PROVE  Outcome(v, w, due, x, due2, j)
<1>1. /\ \A k \in due : k \in 1 .. n /\ k \in due2 /\ x[k] = w[k]
      /\ \A k \in due2 : k \notin due => k \in Nat /\ k > n
  BY DEF Longer
<1>2. \A k \in due \cup {0} : \A l \in due2 \ due : l > k /\ ~(k > l)
  BY <1>1
<1>3. ASSUME \A k \in due2 \ due : ~Adds(x[k], j) /\ ~Drops(x[k], j)
      PROVE  Knows(v, x, due2, j) <=> Knows(v, w, due, j)
  <2>1. \A k \in due \cup {0} : DroppedAfter(x, due2, k, j) <=> DroppedAfter(w, due, k, j)
    BY <1>1, <1>3 DEF DroppedAfter
  <2>2. \A k \in due2 : Adds(x[k], j) <=> k \in due /\ Adds(w[k], j)
    BY <1>1, <1>3
  <2> QED  BY <2>1, <2>2, <1>1 DEF Knows
<1>4. ASSUME \A k \in due2 \ due : ~Drops(x[k], j),
             NEW k \in due2 \ due, Adds(x[k], j)
      PROVE  Knows(v, x, due2, j)
  <2>1. ~DroppedAfter(x, due2, k, j)
    BY <1>2, <1>4 DEF DroppedAfter
  <2> QED  BY <2>1, <1>4 DEF Knows
<1>5. ASSUME \A k \in due2 \ due : ~Adds(x[k], j),
             NEW k \in due2 \ due, Drops(x[k], j)
      PROVE  ~Knows(v, x, due2, j)
  <2>1. \A l \in due \cup {0} : DroppedAfter(x, due2, l, j)
    BY <1>2, <1>5 DEF DroppedAfter
  <2> QED  BY <2>1, <1>1, <1>5 DEF Knows
<1> QED  BY <1>3, <1>4, <1>5 DEF Outcome

-----------------------------------------------------------------------------
(* The packets on their way.                                                 *)

Way(h, p, a, b) == [k \in DOMAIN p |-> h[p[k]]] \o a \o b

\* Every sender that popped has a packet in its hand.
Holding(h, p) == \A k \in 1 .. Len(p) : h[p[k]] # NoPacket

\* What x has at each place.
IsWay(x, h, p, a, b) ==
    /\ x \in Seq(Packets)
    /\ Len(x) = Len(p) + Len(a) + Len(b)
    /\ \A k \in 1 .. Len(p) : x[k] = h[p[k]]
    /\ \A k \in 1 .. Len(a) : x[Len(p) + k] = a[k]
    /\ \A k \in 1 .. Len(b) : x[Len(p) + Len(a) + k] = b[k]

\* The places of the packets that senders handle, of those in the net queue and
\* of those in the game's queue.
LEMMA WayFacts ==
    ASSUME NEW h \in [Senders -> Packets \cup {NoPacket}], NEW p \in Seq(Senders),
           NEW a \in Seq(Packets), NEW b \in Seq(Packets),
           Holding(h, p)
    PROVE  /\ IsWay(Way(h, p, a, b), h, p, a, b)
           /\ [k \in DOMAIN p |-> h[p[k]]] \in Seq(Packets)
<1> DEFINE f == [k \in DOMAIN p |-> h[p[k]]]
           fa == f \o a
           w == fa \o b
           np == Len(p)
           na == Len(a)
           nb == Len(b)
<1>1. np \in Nat /\ na \in Nat /\ nb \in Nat /\ DOMAIN p = 1 .. np
      /\ \A k \in 1 .. np : p[k] \in Senders
  BY LenProperties
<1>2. f \in Seq(Packets) /\ Len(f) = np /\ \A k \in 1 .. np : f[k] = h[p[k]]
  <2>1. f \in [1 .. np -> Packets]
    BY <1>1 DEF Holding
  <2> QED  BY <2>1, <1>1
<1> HIDE DEF f
<1>3. /\ fa \in Seq(Packets) /\ Len(fa) = np + na
      /\ \A k \in 1 .. np + na : fa[k] = IF k <= np THEN f[k] ELSE a[k - np]
  <2>1. /\ fa \in Seq(Packets) /\ Len(fa) = Len(f) + Len(a)
        /\ \A k \in 1 .. Len(f) + Len(a) :
              fa[k] = IF k <= Len(f) THEN f[k] ELSE a[k - Len(f)]
    BY <1>2, ConcatProperties
  <2> HIDE DEF fa
  <2> QED  BY <2>1, <1>2
<1> HIDE DEF fa
<1>4. /\ w \in Seq(Packets) /\ Len(w) = np + na + nb
      /\ \A k \in 1 .. np + na + nb :
            w[k] = IF k <= np + na THEN fa[k] ELSE b[k - (np + na)]
  <2>1. /\ w \in Seq(Packets) /\ Len(w) = Len(fa) + Len(b)
        /\ \A k \in 1 .. Len(fa) + Len(b) :
              w[k] = IF k <= Len(fa) THEN fa[k] ELSE b[k - Len(fa)]
    <3>1. fa \in Seq(Packets)
      BY <1>3
    <3> QED  BY <3>1, ConcatProperties
  <2> HIDE DEF w
  <2> QED  BY <2>1, <1>3
<1> HIDE DEF w, np, na, nb
<1>5. ASSUME NEW k \in 1 .. np
      PROVE  w[k] = h[p[k]]
  <2>1. k \in 1 .. np + na /\ k \in 1 .. np + na + nb /\ k <= np + na /\ k <= np
    BY <1>1
  <2> QED  BY <2>1, <1>2, <1>3, <1>4
<1>6. ASSUME NEW k \in 1 .. na
      PROVE  w[np + k] = a[k]
  <2>1. /\ np + k \in 1 .. np + na /\ np + k \in 1 .. np + na + nb
        /\ np + k <= np + na /\ ~(np + k <= np) /\ (np + k) - np = k
    BY <1>1
  <2> QED  BY <2>1, <1>3, <1>4
<1>7. ASSUME NEW k \in 1 .. nb
      PROVE  w[np + na + k] = b[k]
  <2>1. /\ np + na + k \in 1 .. np + na + nb
        /\ ~(np + na + k <= np + na) /\ (np + na + k) - (np + na) = k
    BY <1>1
  <2> QED  BY <2>1, <1>4
<1>8. Way(h, p, a, b) = w
  BY DEF Way, w, fa, f
<1>9. [k \in DOMAIN p |-> h[p[k]]] \in Seq(Packets)
  BY <1>2 DEF f
<1> QED  BY <1>4, <1>5, <1>6, <1>7, <1>8, <1>9 DEF np, na, nb, IsWay

\* A pop moves a packet from the queue to a hand and not to another place.
LEMMA WayOfPop ==
    ASSUME NEW h \in [Senders -> Packets \cup {NoPacket}], NEW p \in Seq(Senders),
           NEW a \in Seq(Packets), NEW b \in Seq(Packets),
           Holding(h, p),
           NEW s \in Senders, h[s] = NoPacket, a # << >>
    PROVE  /\ Way([h EXCEPT ![s] = Head(a)], Append(p, s), Tail(a), b) = Way(h, p, a, b)
           /\ Holding([h EXCEPT ![s] = Head(a)], Append(p, s))
<1> DEFINE g == [h EXCEPT ![s] = Head(a)]
           q == Append(p, s)
           t == Tail(a)
           np == Len(p)
           na == Len(a)
           nb == Len(b)
           w == Way(h, p, a, b)
           x == Way(g, q, t, b)
<1>1. np \in Nat /\ na \in Nat /\ nb \in Nat /\ na # 0
      /\ \A k \in 1 .. np : p[k] \in Senders
  BY LenProperties
<1>2. /\ Head(a) \in Packets /\ Head(a) = a[1] /\ t \in Seq(Packets)
      /\ Len(t) = na - 1
      /\ \A k \in 1 .. na - 1 : t[k] = a[k + 1]
  BY HeadTailProperties
<1>3. /\ q \in Seq(Senders) /\ Len(q) = np + 1 /\ q[np + 1] = s
      /\ \A k \in 1 .. np : q[k] = p[k]
  BY AppendProperties
<1>4. g \in [Senders -> Packets \cup {NoPacket}] /\ g[s] = Head(a)
      /\ \A r \in Senders : r # s => g[r] = h[r]
  BY <1>2
<1> HIDE DEF np, na, nb, g, q, t
<1>5. \A k \in 1 .. np : g[q[k]] = h[p[k]]
  BY <1>1, <1>3, <1>4 DEF np, Holding
<1>6. Holding(g, q)
  <2> SUFFICES ASSUME NEW k \in 1 .. Len(q)
               PROVE  g[q[k]] # NoPacket
    BY DEF Holding
  <2>1. k \in 1 .. np \/ k = np + 1
    BY <1>1, <1>3
  <2>2. Head(a) # NoPacket
    BY <1>2, NoPacketIsNone
  <2> QED  BY <2>1, <2>2, <1>3, <1>4, <1>5 DEF np, Holding
<1>7. /\ w \in Seq(Packets) /\ Len(w) = np + na + nb
      /\ \A k \in 1 .. np : w[k] = h[p[k]]
      /\ \A k \in 1 .. na : w[np + k] = a[k]
      /\ \A k \in 1 .. nb : w[np + na + k] = b[k]
  <2>1. IsWay(w, h, p, a, b)
    BY WayFacts
  <2> HIDE DEF w
  <2> QED  BY <2>1 DEF IsWay, np, na, nb
<1>8. /\ x \in Seq(Packets) /\ Len(x) = (np + 1) + (na - 1) + nb
      /\ \A k \in 1 .. np + 1 : x[k] = g[q[k]]
      /\ \A k \in 1 .. na - 1 : x[(np + 1) + k] = t[k]
      /\ \A k \in 1 .. nb : x[(np + 1) + (na - 1) + k] = b[k]
  <2>1. IsWay(x, g, q, t, b)
    BY <1>2, <1>3, <1>4, <1>6, WayFacts
  <2> HIDE DEF x
  <2> QED  BY <2>1, <1>2, <1>3 DEF nb, IsWay
<1> HIDE DEF w, x
<1>9. Len(x) = Len(w) /\ Len(w) = np + na + nb
  BY <1>1, <1>7, <1>8
<1>10. ASSUME NEW k \in 1 .. np + na + nb
       PROVE  x[k] = w[k]
  <2>1. CASE k \in 1 .. np
    <3>1. k \in 1 .. np + 1
      BY <2>1, <1>1
    <3> QED  BY <3>1, <2>1, <1>5, <1>7, <1>8
  <2>2. CASE k = np + 1
    <3>1. 1 \in 1 .. na /\ np + 1 \in 1 .. np + 1
      BY <1>1
    <3>2. w[np + 1] = a[1] /\ x[np + 1] = g[q[np + 1]]
      BY <3>1, <1>7, <1>8
    <3> QED  BY <3>2, <2>2, <1>2, <1>3, <1>4
  <2>3. CASE ~(k <= np + 1) /\ k <= np + na
    <3> DEFINE l == k - (np + 1)
    <3>1. /\ l \in 1 .. na - 1 /\ l + 1 \in 1 .. na
          /\ (np + 1) + l = k /\ np + (l + 1) = k
      BY <2>3, <1>1
    <3> HIDE DEF l
    <3>2. x[(np + 1) + l] = t[l] /\ w[np + (l + 1)] = a[l + 1] /\ t[l] = a[l + 1]
      BY <3>1, <1>2, <1>7, <1>8
    <3> QED  BY <3>1, <3>2
  <2>4. CASE ~(k <= np + na)
    <3> DEFINE l == k - (np + na)
    <3>1. /\ l \in 1 .. nb /\ (np + 1) + (na - 1) + l = k /\ np + na + l = k
      BY <2>4, <1>1
    <3> HIDE DEF l
    <3>2. x[(np + 1) + (na - 1) + l] = b[l] /\ w[np + na + l] = b[l]
      BY <3>1, <1>7, <1>8
    <3> QED  BY <3>1, <3>2
  <2> QED  BY <2>1, <2>2, <2>3, <2>4, <1>1
<1>11. x = w
  BY <1>7, <1>8, <1>9, <1>10, SeqEqual
<1> QED  BY <1>6, <1>11 DEF x, w, g, q, t

\* x and q are w and p without place m, and the senders of q hold their packets.
Released(x, w, g, q, p, m) ==
    /\ x \in Seq(Packets) /\ Len(x) = Len(w) - 1
    /\ \A k \in 1 .. Len(w) - 1 : x[k] = w[Skip(m, k)]
    /\ q \in Seq(Senders) /\ Len(q) = Len(p) - 1
    /\ \A k \in 1 .. Len(q) :
          q[k] = p[Skip(m, k)] /\ q[k] # p[m] /\ g[q[k]] # NoPacket

\* A sender that is done takes its packet away and moves no other past another.
LEMMA WayOfRelease ==
    ASSUME NEW h \in [Senders -> Packets \cup {NoPacket}], NEW p \in Seq(Senders),
           NEW a \in Seq(Packets), NEW b \in Seq(Packets),
           Holding(h, p),
           \A k, l \in 1 .. Len(p) : p[k] = p[l] => k = l,
           NEW m \in 1 .. Len(p)
    PROVE  Released(Way([h EXCEPT ![p[m]] = NoPacket], RemoveAt(p, m), a, b),
                    Way(h, p, a, b),
                    [h EXCEPT ![p[m]] = NoPacket], RemoveAt(p, m), p, m)
<1> DEFINE g == [h EXCEPT ![p[m]] = NoPacket]
           q == RemoveAt(p, m)
           x == Way(g, q, a, b)
           w == Way(h, p, a, b)
           np == Len(p)
           na == Len(a)
           nb == Len(b)
<1>1. np \in Nat /\ na \in Nat /\ nb \in Nat /\ DOMAIN p = 1 .. np
      /\ \A k \in 1 .. np : p[k] \in Senders
  BY LenProperties
<1>2. /\ q \in Seq(Senders) /\ Len(q) = np - 1
      /\ \A k \in 1 .. np - 1 : q[k] = p[Skip(m, k)]
  <2>1. m \in DOMAIN p
    BY <1>1
  <2>2. q \in Seq(Senders)
    BY <2>1, RemoveAtFacts
  <2>3. Len(q) = Len(p) - 1
    BY <2>1, RemoveAtFacts
  <2>4. \A k \in 1 .. Len(p) - 1 : q[k] = p[Skip(m, k)]
    BY <2>1, RemoveAtFacts
  <2> QED  BY <2>2, <2>3, <2>4
<1>3. g \in [Senders -> Packets \cup {NoPacket}]
      /\ \A r \in Senders : r # p[m] => g[r] = h[r]
  BY <1>1
<1>4. m \in 1 .. np
  OBVIOUS
<1> HIDE DEF np, na, nb, g, q
<1>5. \A k \in 1 .. np - 1 : Skip(m, k) \in 1 .. np /\ Skip(m, k) # m
  BY <1>1, <1>4, SkipFacts
<1>6. \A k \in 1 .. np - 1 : q[k] # p[m] /\ q[k] \in Senders /\ g[q[k]] = h[p[Skip(m, k)]]
  BY <1>1, <1>2, <1>3, <1>4, <1>5 DEF np
<1>7. Holding(g, q)
  <2>1. \A k \in 1 .. np : h[p[k]] # NoPacket
    BY DEF Holding, np
  <2> QED  BY <2>1, <1>2, <1>5, <1>6 DEF Holding
<1>8. /\ w \in Seq(Packets) /\ Len(w) = np + na + nb
      /\ \A k \in 1 .. np : w[k] = h[p[k]]
      /\ \A k \in 1 .. na : w[np + k] = a[k]
      /\ \A k \in 1 .. nb : w[np + na + k] = b[k]
  <2>1. IsWay(w, h, p, a, b)
    BY WayFacts
  <2> HIDE DEF w
  <2> QED  BY <2>1 DEF IsWay, np, na, nb
<1>9. /\ x \in Seq(Packets) /\ Len(x) = (np - 1) + na + nb
      /\ \A k \in 1 .. np - 1 : x[k] = g[q[k]]
      /\ \A k \in 1 .. na : x[(np - 1) + k] = a[k]
      /\ \A k \in 1 .. nb : x[(np - 1) + na + k] = b[k]
  <2>1. IsWay(x, g, q, a, b)
    BY <1>2, <1>3, <1>7, WayFacts
  <2> HIDE DEF x
  <2> QED  BY <2>1, <1>2 DEF na, nb, IsWay
<1> HIDE DEF w, x
<1>10. Len(x) = Len(w) - 1 /\ Len(x) = (np - 1) + na + nb
  BY <1>1, <1>4, <1>8, <1>9
<1>11. ASSUME NEW k \in 1 .. (np - 1) + na + nb
       PROVE  x[k] = w[Skip(m, k)]
  <2>1. CASE k \in 1 .. np - 1
    BY <2>1, <1>5, <1>6, <1>8, <1>9
  <2>2. CASE ~(k <= np - 1) /\ k <= (np - 1) + na
    <3> DEFINE l == k - (np - 1)
    <3>1. /\ l \in 1 .. na /\ (np - 1) + l = k /\ np + l = k + 1 /\ ~(k < m)
      BY <2>2, <1>1, <1>4
    <3> HIDE DEF l
    <3>2. x[(np - 1) + l] = a[l] /\ w[np + l] = a[l]
      BY <3>1, <1>8, <1>9
    <3> QED  BY <3>1, <3>2 DEF Skip
  <2>3. CASE ~(k <= (np - 1) + na)
    <3> DEFINE l == k - ((np - 1) + na)
    <3>1. /\ l \in 1 .. nb /\ (np - 1) + na + l = k /\ np + na + l = k + 1 /\ ~(k < m)
      BY <2>3, <1>1, <1>4
    <3> HIDE DEF l
    <3>2. x[(np - 1) + na + l] = b[l] /\ w[np + na + l] = b[l]
      BY <3>1, <1>8, <1>9
    <3> QED  BY <3>1, <3>2 DEF Skip
  <2> QED  BY <2>1, <2>2, <2>3, <1>1, <1>4
<1>12. \A k \in 1 .. Len(w) - 1 : x[k] = w[Skip(m, k)]
  BY <1>10, <1>11
<1>13. \A k \in 1 .. Len(q) :
          q[k] = p[Skip(m, k)] /\ q[k] # p[m] /\ g[q[k]] # NoPacket
  BY <1>2, <1>6, <1>7 DEF Holding
<1>14. x \in Seq(Packets) /\ Len(x) = Len(w) - 1 /\ Len(q) = Len(p) - 1
  BY <1>2, <1>9, <1>10 DEF np
<1>15. Released(x, w, g, q, p, m)
  BY <1>2, <1>12, <1>13, <1>14 DEF Released
<1> QED  BY <1>15 DEF x, w, g, q

-----------------------------------------------------------------------------
(* What the clients will know, as an inductive invariant.                    *)

\* A sender that popped holds its packet, and popped once; one that holds none,
\* or one for a single session, has visited nobody.
Loops ==
    /\ Holding(hand, popped)
    /\ \A k, l \in 1 .. Len(popped) : popped[k] = popped[l] => k = l
    /\ \A s \in Senders : hand[s] = NoPacket \/ hand[s].type = "Rpc" => seen[s] = {}

\* Nothing is pushed to a session before it is in the map.
Fresh == \A i \in Ids : phase[i] = "new" => view[i] = {}

\* Client i will know player j.
Known(i, j) == Knows(view[i], OnTheWay, Due(i), j)

\* Client i will know no more than the other players, and all of them when it is
\* in the game itself.
Pictured(i) ==
    /\ \A j \in Ids : Known(i, j) => players[j] = "player" /\ j # i
    /\ players[i] = "player" =>
          \A j \in Ids : players[j] = "player" /\ j # i => Known(i, j)

Spoiled(i) == missed \/ ~Up \/ i \in overtaken \/ phase[i] = "closed"

Pictures == \A i \in Ids : Spoiled(i) \/ Pictured(i)

ViewInv == Inv /\ Loops /\ Fresh /\ Pictures

DueOf(w, p, looped, i) ==
    {k \in DOMAIN w :
        /\ Addressed(w[k], i)
        /\ k <= Len(p) => i \notin looped[p[k]]}

\* OnTheWay and Due as operators of the state, before and after a step.
LEMMA WayAndDue ==
    /\ OnTheWay = Way(hand, popped, netOut, gameOut)
    /\ OnTheWay' = Way(hand', popped', netOut', gameOut')
    /\ \A i : Due(i) = DueOf(OnTheWay, popped, seen, i)
    /\ \A i : (Due(i))' = DueOf(OnTheWay', popped', seen', i)
BY DEF OnTheWay, Way, Due, DueOf

\* The packets on their way, in a reachable state.
LEMMA WayType ==
    ASSUME TypeOK, Loops
    PROVE  /\ IsWay(OnTheWay, hand, popped, netOut, gameOut)
           /\ OnTheWay \in Seq(Packets) /\ Len(OnTheWay) \in Nat
           /\ DOMAIN OnTheWay = 1 .. Len(OnTheWay)
           /\ \A k \in 1 .. Len(OnTheWay) : OnTheWay[k] \in Packets
           /\ Len(popped) \in Nat /\ Len(popped) <= Len(OnTheWay)
           /\ \A i : Due(i) \subseteq 1 .. Len(OnTheWay)
<1>1. /\ hand \in [Senders -> Packets \cup {NoPacket}] /\ popped \in Seq(Senders)
      /\ netOut \in Seq(Packets) /\ gameOut \in Seq(Packets)
      /\ Holding(hand, popped)
  BY DEF TypeOK, Loops
<1>2. IsWay(OnTheWay, hand, popped, netOut, gameOut)
  BY <1>1, WayFacts, WayAndDue
<1>3. OnTheWay \in Seq(Packets)
      /\ Len(OnTheWay) = Len(popped) + Len(netOut) + Len(gameOut)
  BY <1>2 DEF IsWay
<1>4. Len(popped) \in Nat /\ Len(netOut) \in Nat /\ Len(gameOut) \in Nat
  BY <1>1, LenProperties
<1>5. DOMAIN OnTheWay = 1 .. Len(OnTheWay)
      /\ \A k \in 1 .. Len(OnTheWay) : OnTheWay[k] \in Packets
  BY <1>3, LenProperties
<1>6. Len(OnTheWay) \in Nat /\ Len(popped) <= Len(OnTheWay)
  BY <1>3, <1>4
<1>7. \A i : Due(i) \subseteq 1 .. Len(OnTheWay)
  BY <1>5 DEF Due
<1> QED  BY <1>2, <1>3, <1>4, <1>5, <1>6, <1>7

\* A step that changes neither what a client will know nor who plays.
LEMMA PictureKept ==
    ASSUME NEW i \in Ids, Pictured(i),
           \A j \in Ids : (Known(i, j))' <=> Known(i, j),
           \A j \in Ids : players'[j] = "player" <=> players[j] = "player"
    PROVE  (Pictured(i))'
BY DEF Pictured

\* A step that pushes and pops nothing leaves what every client will know.
LEMMA SameWay ==
    ASSUME UNCHANGED <<hand, popped, netOut, gameOut, seen, view>>
    PROVE  \A i, j : (Known(i, j))' <=> Known(i, j)
<1>1. OnTheWay' = OnTheWay
  BY DEF OnTheWay
<1>2. \A i : (Due(i))' = Due(i)
  BY <1>1, WayAndDue
<1> QED  BY <1>1, <1>2 DEF Known

\* New packets that tell a client of a player, or to drop it.
SomeAdd(q, i, j) == \E l \in 1 .. Len(q) : Addressed(q[l], i) /\ Adds(q[l], j)
SomeDrop(q, i, j) == \E l \in 1 .. Len(q) : Addressed(q[l], i) /\ Drops(q[l], j)

\* What client i will know of j after the game thread has pushed packets q.
LEMMA Appended ==
    ASSUME TypeOK, Loops, NEW q \in Seq(Packets), OnTheWay' = OnTheWay \o q,
           UNCHANGED <<popped, seen, view>>, NEW i \in Ids, NEW j
    PROVE  /\ ~SomeAdd(q, i, j) /\ ~SomeDrop(q, i, j) =>
                 ((Known(i, j))' <=> Known(i, j))
           /\ SomeAdd(q, i, j) /\ ~SomeDrop(q, i, j) => (Known(i, j))'
           /\ SomeDrop(q, i, j) /\ ~SomeAdd(q, i, j) => ~(Known(i, j))'
<1> DEFINE w == OnTheWay
           x == OnTheWay'
           n == Len(w)
           lq == Len(q)
           D == Due(i)
           E == (Due(i))'
<1>1. /\ w \in Seq(Packets) /\ n \in Nat /\ DOMAIN w = 1 .. n /\ D \subseteq 1 .. n
      /\ Len(popped) \in Nat /\ Len(popped) <= n
  BY WayType
<1>2. lq \in Nat
  BY LenProperties
<1>3. /\ x \in Seq(Packets) /\ Len(x) = n + lq
      /\ \A k \in 1 .. n + lq : x[k] = IF k <= n THEN w[k] ELSE q[k - n]
  BY <1>1, ConcatProperties
<1>4. DOMAIN x = 1 .. n + lq
  BY <1>3, LenProperties
<1>5. D = DueOf(w, popped, seen, i) /\ E = DueOf(x, popped, seen, i)
  BY WayAndDue
<1> HIDE DEF w, x, n, lq, D, E
<1>6. \A k \in 1 .. n : x[k] = w[k] /\ (k \in E <=> k \in D)
  <2>1. \A k \in 1 .. n : k \in 1 .. n + lq /\ k <= n
    BY <1>1, <1>2
  <2>2. \A k \in 1 .. n : x[k] = w[k]
    BY <2>1, <1>3
  <2> QED  BY <2>1, <2>2, <1>1, <1>4, <1>5 DEF DueOf
<1>7. \A k \in E : k \in D \/
         (k - n \in 1 .. lq /\ k > n /\ k \in Nat /\ x[k] = q[k - n]
            /\ Addressed(q[k - n], i))
  <2> SUFFICES ASSUME NEW k \in E, k \notin D
               PROVE  k - n \in 1 .. lq /\ k > n /\ k \in Nat /\ x[k] = q[k - n]
                      /\ Addressed(q[k - n], i)
    OBVIOUS
  <2>1. k \in 1 .. n + lq /\ Addressed(x[k], i)
    BY <1>4, <1>5 DEF DueOf
  <2>2. ~(k \in 1 .. n)
    BY <1>6
  <2>3. k - n \in 1 .. lq /\ k > n /\ k \in Nat /\ ~(k <= n)
    BY <2>1, <2>2, <1>1, <1>2
  <2> QED  BY <2>1, <2>3, <1>3
<1>8. \A l \in 1 .. lq : Addressed(q[l], i) => n + l \in E \ D /\ x[n + l] = q[l]
  <2> SUFFICES ASSUME NEW l \in 1 .. lq, Addressed(q[l], i)
               PROVE  n + l \in E \ D /\ x[n + l] = q[l]
    OBVIOUS
  <2>1. /\ n + l \in 1 .. n + lq /\ ~(n + l <= n) /\ (n + l) - n = l
        /\ ~(n + l <= Len(popped)) /\ n + l \notin 1 .. n
    BY <1>1, <1>2
  <2>2. x[n + l] = q[l]
    BY <2>1, <1>3
  <2> QED  BY <2>1, <2>2, <1>1, <1>4, <1>5 DEF DueOf
<1>9. Longer(w, D, x, E, n)
  BY <1>1, <1>6, <1>7 DEF Longer
<1>10. /\ ~SomeAdd(q, i, j) => \A k \in E \ D : ~Adds(x[k], j)
       /\ ~SomeDrop(q, i, j) => \A k \in E \ D : ~Drops(x[k], j)
  BY <1>7 DEF SomeAdd, SomeDrop, lq
<1>11. /\ SomeAdd(q, i, j) => \E k \in E \ D : Adds(x[k], j)
       /\ SomeDrop(q, i, j) => \E k \in E \ D : Drops(x[k], j)
  BY <1>8 DEF SomeAdd, SomeDrop, lq
<1>12. Known(i, j) <=> Knows(view[i], w, D, j)
  BY DEF Known, w, D
<1>13. (Known(i, j))' <=> Knows(view[i], x, E, j)
  BY DEF Known, x, E
<1>14. Outcome(view[i], w, D, x, E, j)
  BY <1>1, <1>9, Later
<1> QED  BY <1>10, <1>11, <1>12, <1>13, <1>14 DEF Outcome

-----------------------------------------------------------------------------
(* The strands and the game thread.                                          *)

\* No step of a session's strand pushes a packet.
LEMMA StrandKeepsViews ==
    ASSUME ViewInv, NEW i \in Ids, StrandStep(i)
    PROVE  Loops' /\ Fresh' /\ Pictures'
<1>1. /\ UNCHANGED <<hand, popped, seen, view, missed, overtaken>>
      /\ UNCHANGED <<netOut, gameOut, players, crashed>>
  BY DEF StrandStep, AddSession, PushCreate, PushInput, CloseSession, CloseAgain,
         sendVars, gameVars
<1>2. \A k \in Ids : /\ phase'[k] = "new" => phase[k] = "new"
                     /\ phase'[k] # "closed" => phase[k] # "closed"
  <2>1. phase \in [Ids -> {"new", "adding", "open", "closed"}]
    BY DEF ViewInv, Inv, TypeOK
  <2> QED
    BY <2>1 DEF StrandStep, AddSession, PushCreate, PushInput, CloseSession, CloseAgain
<1>3. Loops'
  BY <1>1 DEF ViewInv, Loops, Holding
<1>4. Fresh'
  BY <1>1, <1>2 DEF ViewInv, Fresh
<1>5. ASSUME NEW k \in Ids, ~(Spoiled(k))'
      PROVE  (Pictured(k))'
  <2>1. ~Spoiled(k)
    BY <1>1, <1>2, <1>5 DEF Spoiled, Up
  <2>2. Pictured(k)
    BY <2>1 DEF ViewInv, Pictures
  <2> QED  BY <2>2, <1>1, SameWay, PictureKept
<1> QED  BY <1>3, <1>4, <1>5 DEF Pictures

\* Concatenation of packets is associative.
LEMMA Associative ==
    ASSUME NEW a \in Seq(Packets), NEW b \in Seq(Packets), NEW c \in Seq(Packets)
    PROVE  (a \o b) \o c = a \o (b \o c)
BY ConcatAssociative

\* What the game thread pushes comes last.
LEMMA WayAppend ==
    ASSUME TypeOK, Loops, NEW q \in Seq(Packets), UNCHANGED <<hand, popped>>,
           \/ netOut' = netOut /\ gameOut' = gameOut \o q
           \/ netOut' = netOut \o gameOut \o q /\ gameOut' = << >>
    PROVE  OnTheWay' = OnTheWay \o q
<1> DEFINE f == [k \in DOMAIN popped |-> hand[popped[k]]]
           fn == f \o netOut
           ng == netOut \o gameOut
           w == fn \o gameOut
<1>1. f \in Seq(Packets) /\ netOut \in Seq(Packets) /\ gameOut \in Seq(Packets)
  BY WayFacts DEF TypeOK, Loops
<1>2. OnTheWay = w /\ OnTheWay' = (f \o netOut') \o gameOut'
  BY DEF OnTheWay
<1> HIDE DEF f
<1>3. fn \in Seq(Packets) /\ ng \in Seq(Packets)
  BY <1>1, ConcatProperties
<1>4. f \o ng = w
  BY <1>1, Associative
<1> HIDE DEF fn, ng
<1>5. w \in Seq(Packets)
  BY <1>1, <1>3, ConcatProperties
<1>6. CASE netOut' = netOut /\ gameOut' = gameOut \o q
  <2>1. fn \in Seq(Packets) /\ gameOut \in Seq(Packets)
    BY <1>1, <1>3
  <2>2. (fn \o gameOut) \o q = fn \o (gameOut \o q)
    BY <2>1, Associative, Zenon
  <2> QED  BY <2>2, <1>2, <1>6 DEF fn
<1>7. CASE netOut' = netOut \o gameOut \o q /\ gameOut' = << >>
  <2>1. (f \o ng) \o q = f \o (ng \o q)
    BY <1>1, <1>3, Associative
  <2>2. netOut' = ng \o q
    BY <1>7 DEF ng
  <2> HIDE DEF w
  <2>3. w \o q \in Seq(Packets)
    BY <1>5, ConcatProperties
  <2>4. (w \o q) \o << >> = w \o q
    BY <2>3, ConcatEmptySeq
  <2> QED  BY <2>1, <2>2, <2>4, <1>2, <1>4, <1>7
<1> QED  BY <1>6, <1>7

\* AddPlayer tells the new player of the others and the others of it.
LEMMA CreateKeepsPictures ==
    ASSUME TypeOK, Loops, NEW c \in Ids, ProcessCreate(c), crashed' = crashed,
           NEW i \in Ids, Pictured(i)
    PROVE  (Pictured(i))'
<1> DEFINE p1 == Packet("Rpc", "create", c, {})
           p2 == Packet("Rpc", "spawn", c, InGame \ {c})
           p3 == Packet("RpcOthers", "add", c, {})
           q == <<p1, p2, p3>>
<1>1. /\ UNCHANGED <<hand, popped, seen, view, netOut>>
      /\ gameOut' = gameOut \o q
      /\ players' = [players EXCEPT ![c] = "player"]
  BY DEF ProcessCreate, GameCrash, Up, sendVars
<1>2. p1 \in Packets /\ p2 \in Packets /\ p3 \in Packets
  <2>1. InGame \ {c} \in SUBSET Ids
    BY DEF InGame
  <2> QED  BY <2>1, PacketType
<1>3. /\ \A j : ~Adds(p1, j) /\ ~Drops(p1, j) /\ ~Drops(p2, j) /\ ~Drops(p3, j)
      /\ \A j : Adds(p2, j) <=> j \in InGame \ {c}
      /\ \A j : Adds(p3, j) <=> j = c
      /\ Addressed(p2, i) <=> i = c
      /\ Addressed(p3, i) <=> i # c
  BY DEF Adds, Drops, Addressed, Packet
<1> HIDE DEF p1, p2, p3
<1>4. q \in Seq(Packets) /\ Len(q) = 3 /\ q[1] = p1 /\ q[2] = p2 /\ q[3] = p3
  BY <1>2
<1> HIDE DEF q
<1>5. OnTheWay' = OnTheWay \o q
  BY <1>1, <1>4, WayAppend
<1>6. \A l : l \in 1 .. Len(q) <=> l = 1 \/ l = 2 \/ l = 3
  BY <1>4
<1>7. \A j : /\ ~SomeDrop(q, i, j)
             /\ SomeAdd(q, i, j) <=> (i = c /\ j \in InGame \ {c}) \/ (i # c /\ j = c)
  BY <1>3, <1>4, <1>6 DEF SomeAdd, SomeDrop
<1>8. \A j : /\ SomeAdd(q, i, j) => (Known(i, j))'
             /\ ~SomeAdd(q, i, j) => ((Known(i, j))' <=> Known(i, j))
  BY <1>1, <1>4, <1>5, <1>7, Appended
<1>9. \A j \in Ids : players'[j] = "player" <=> players[j] = "player" \/ j = c
  BY <1>1 DEF TypeOK
<1>10. \A j \in Ids : j \in InGame <=> players[j] = "player"
  BY DEF InGame
<1>11. CASE i = c
  BY <1>7, <1>8, <1>9, <1>10, <1>11 DEF Pictured
<1>12. CASE i # c
  BY <1>7, <1>8, <1>9, <1>10, <1>12 DEF Pictured
<1> QED  BY <1>11, <1>12

\* RemovePlayer tells everybody to drop the player.
LEMMA RemoveKeepsPictures ==
    ASSUME TypeOK, Loops, NEW c \in Ids, ProcessRemove(c), NEW i \in Ids, Pictured(i)
    PROVE  (Pictured(i))'
<1> DEFINE p == Packet("Broadcast", "remove", c, {})
           q == <<p>>
<1>1. /\ UNCHANGED <<hand, popped, seen, view, netOut>>
      /\ gameOut' = gameOut \o q
      /\ players' = [players EXCEPT ![c] = "absent"]
  BY DEF ProcessRemove, RemovePackets, sendVars
<1>2. p \in Packets
  BY PacketType
<1>3. (\A j : ~Adds(p, j) /\ (Drops(p, j) <=> j = c)) /\ Addressed(p, i)
  BY DEF Adds, Drops, Addressed, Packet
<1> HIDE DEF p
<1>4. q \in Seq(Packets) /\ Len(q) = 1 /\ q[1] = p
  BY <1>2
<1> HIDE DEF q
<1>5. OnTheWay' = OnTheWay \o q
  BY <1>1, <1>4, WayAppend
<1>6. \A l : l \in 1 .. Len(q) <=> l = 1
  BY <1>4
<1>7. \A j : ~SomeAdd(q, i, j) /\ (SomeDrop(q, i, j) <=> j = c)
  BY <1>3, <1>4, <1>6 DEF SomeAdd, SomeDrop
<1>8. \A j : /\ SomeDrop(q, i, j) => ~(Known(i, j))'
             /\ ~SomeDrop(q, i, j) => ((Known(i, j))' <=> Known(i, j))
  BY <1>1, <1>4, <1>5, <1>7, Appended
<1>9. \A j \in Ids : players'[j] = "player" <=> players[j] = "player" /\ j # c
  BY <1>1 DEF TypeOK
<1> QED  BY <1>7, <1>8, <1>9 DEF Pictured

\* The moves broadcast at the end of a tick tell of nobody new.
LEMMA FinishKeepsPictures ==
    ASSUME TypeOK, Loops, FinishTick, crashed' = crashed, NEW i \in Ids, Pictured(i)
    PROVE  (Pictured(i))'
<1>1. PICK order \in SetToSeqs(InGame) :
         netOut' = netOut \o gameOut \o
            [k \in DOMAIN order |-> Packet("Broadcast", "move", order[k], {})]
  BY DEF FinishTick, GameCrash, Up
<1>2. UNCHANGED <<hand, popped, seen, view, players>> /\ gameOut' = << >>
  BY DEF FinishTick, GameCrash, Up, sendVars
<1> DEFINE q == [k \in DOMAIN order |-> Packet("Broadcast", "move", order[k], {})]
<1>3. order \in Seq(Ids) /\ Len(order) \in Nat /\ DOMAIN order = 1 .. Len(order)
      /\ \A k \in 1 .. Len(order) : order[k] \in Ids
  BY OrderOfPlayers, LenProperties
<1>4. \A k \in 1 .. Len(order) : Packet("Broadcast", "move", order[k], {}) \in Packets
  BY <1>3, PacketType
<1>5. q \in [1 .. Len(order) -> Packets]
  BY <1>3, <1>4
<1>6. q \in Seq(Packets) /\ Len(q) = Len(order)
  BY <1>3, <1>5
<1>7. \A k \in 1 .. Len(q) : \A j : ~Adds(q[k], j) /\ ~Drops(q[k], j)
  <2>1. \A k \in 1 .. Len(order) : q[k].op = "move"
    BY <1>3 DEF Packet
  <2> HIDE DEF q
  <2> QED  BY <2>1, <1>6 DEF Adds, Drops
<1> HIDE DEF q
<1>8. OnTheWay' = OnTheWay \o q
  BY <1>1, <1>2, <1>6, WayAppend DEF q
<1>9. \A j : ~SomeAdd(q, i, j) /\ ~SomeDrop(q, i, j)
  BY <1>7 DEF SomeAdd, SomeDrop
<1>10. \A j : (Known(i, j))' <=> Known(i, j)
  BY <1>2, <1>6, <1>8, <1>9, Appended
<1> QED  BY <1>2, <1>10, PictureKept

\* Each step of World::Tick tells the clients what it changes.
LEMMA GameKeepsViews ==
    ASSUME ViewInv, GameStep
    PROVE  Loops' /\ Fresh' /\ Pictures'
<1>1. UNCHANGED <<hand, popped, seen, view, missed, overtaken, phase>> /\ Up
  BY DEF GameStep, TickSwap, ProcessCreate, ProcessRemove, ProcessInput, FinishTick,
         sendVars, strands
<1>2. Loops'
  BY <1>1 DEF ViewInv, Loops, Holding
<1>3. Fresh'
  BY <1>1 DEF ViewInv, Fresh
<1>t. TypeOK /\ Loops
  BY DEF ViewInv, Inv
<1>4. ASSUME NEW i \in Ids, ~(Spoiled(i))'
      PROVE  (Pictured(i))'
  <2>1. crashed' = crashed
    BY <1>1, <1>4 DEF Spoiled, Up
  <2>2. ~Spoiled(i)
    BY <2>1, <1>1, <1>4 DEF Spoiled, Up
  <2>3. Pictured(i)
    BY <2>2 DEF ViewInv, Pictures
  <2>4. CASE TickSwap
    <3>1. UNCHANGED <<netOut, gameOut, players>>
      BY <2>4 DEF TickSwap, GameCrash, gameVars
    <3> QED  BY <3>1, <2>3, <1>1, SameWay, PictureKept
  <2>5. ASSUME NEW c \in Ids, ProcessCreate(c)
        PROVE  (Pictured(i))'
    BY <2>1, <2>3, <2>5, <1>t, CreateKeepsPictures
  <2>6. ASSUME NEW c \in Ids, ProcessRemove(c)
        PROVE  (Pictured(i))'
    BY <2>3, <2>6, <1>t, RemoveKeepsPictures
  <2>7. ASSUME NEW c \in Ids, NEW op \in InputOpcodes, ProcessInput(c, op)
        PROVE  (Pictured(i))'
    <3>1. /\ UNCHANGED <<netOut, gameOut>>
          /\ players' = [players EXCEPT ![c] = IF @ = "absent" THEN "null" ELSE @]
      BY <2>1, <2>7 DEF ProcessInput, GameCrash, Up
    <3>2. \A j \in Ids : players'[j] = "player" <=> players[j] = "player"
      BY <3>1, <1>t DEF TypeOK
    <3> QED  BY <3>1, <3>2, <2>3, <1>1, SameWay, PictureKept
  <2>8. CASE FinishTick
    BY <2>1, <2>3, <2>8, <1>t, FinishKeepsPictures
  <2> QED  BY <2>4, <2>5, <2>6, <2>7, <2>8 DEF GameStep
<1> QED  BY <1>2, <1>3, <1>4 DEF Pictures

-----------------------------------------------------------------------------
(* The senders.                                                              *)

\* The place of a sender's packet, and whom it is still to be sent.
LEMMA HeldPacket ==
    ASSUME TypeOK, HandsPopped, Loops, NEW s \in Senders, hand[s] # NoPacket
    PROVE  /\ Position(s) \in 1 .. Len(popped) /\ popped[Position(s)] = s
           /\ Position(s) \in 1 .. Len(OnTheWay) /\ Position(s) \in Nat
           /\ OnTheWay[Position(s)] = hand[s] /\ hand[s] \in Packets
           /\ \A i : Position(s) \in Due(i) <=> Addressed(hand[s], i) /\ i \notin seen[s]
           /\ \A i \in Ids : i \notin Overtaken(s) =>
                 Ordered(OnTheWay, Due(i), Position(s), hand[s])
<1> DEFINE m == Position(s)
           np == Len(popped)
           n == Len(OnTheWay)
<1>1. /\ IsWay(OnTheWay, hand, popped, netOut, gameOut)
      /\ np \in Nat /\ n \in Nat /\ np <= n /\ DOMAIN OnTheWay = 1 .. n
  BY WayType
<1>2. m \in DOMAIN popped /\ popped[m] = s
  BY PositionFacts DEF HandsPopped
<1>3. DOMAIN popped = 1 .. np
  BY LenProperties DEF TypeOK
<1>4. hand[s] \in Packets
  BY DEF TypeOK
<1> HIDE DEF m
<1>5. m \in 1 .. np /\ m \in 1 .. n /\ m \in Nat /\ m <= np
  <2> HIDE DEF np, n
  <2>1. m \in 1 .. np
    BY <1>2, <1>3
  <2> QED  BY <2>1, <1>1
<1>6. OnTheWay[m] = hand[s]
  BY <1>1, <1>2, <1>5 DEF IsWay
<1>7. \A i : m \in Due(i) <=> Addressed(hand[s], i) /\ i \notin seen[s]
  BY <1>1, <1>2, <1>5, <1>6 DEF Due
<1>8. \A i \in Ids : i \notin Overtaken(s) => Ordered(OnTheWay, Due(i), m, hand[s])
  <2>1. \A i : \A k \in Due(i) : k < m => k \in 1 .. m - 1
    <3>1. \A i : Due(i) \subseteq 1 .. n
      BY WayType
    <3> QED  BY <3>1, <1>1, <1>5
  <2> QED  BY <2>1 DEF Overtaken, Ordered, m
<1> QED  BY <1>2, <1>4, <1>5, <1>6, <1>7, <1>8 DEF m

\* A packet that a sender pops stays where it is among those on their way.
LEMMA PopKeepsViews ==
    ASSUME TypeOK, Loops, NEW s \in Senders, SenderPop(s)
    PROVE  Loops' /\ \A i, j : (Known(i, j))' <=> Known(i, j)
<1>1. /\ hand[s] = NoPacket /\ netOut # << >>
      /\ hand' = [hand EXCEPT ![s] = Head(netOut)]
      /\ popped' = Append(popped, s) /\ netOut' = Tail(netOut)
      /\ UNCHANGED <<gameOut, seen, view>>
  BY DEF SenderPop, gameVars
<1>2. /\ hand \in [Senders -> Packets \cup {NoPacket}] /\ popped \in Seq(Senders)
      /\ netOut \in Seq(Packets) /\ gameOut \in Seq(Packets)
      /\ Holding(hand, popped) /\ seen[s] = {}
  BY <1>1 DEF TypeOK, Loops
<1>3. Way(hand', popped', netOut', gameOut') = Way(hand, popped, netOut, gameOut)
      /\ Holding(hand', popped')
  <2>1. /\ Way([hand EXCEPT ![s] = Head(netOut)], Append(popped, s),
               Tail(netOut), gameOut)
              = Way(hand, popped, netOut, gameOut)
        /\ Holding([hand EXCEPT ![s] = Head(netOut)], Append(popped, s))
    BY <1>1, <1>2, WayOfPop
  <2> QED  BY <2>1, <1>1
<1>4. OnTheWay' = OnTheWay
  BY <1>3, WayAndDue
<1> DEFINE np == Len(popped)
           w == OnTheWay
           n == Len(w)
<1>5. np \in Nat /\ n \in Nat /\ DOMAIN w = 1 .. n
  BY WayType
<1>6. /\ Len(popped') = np + 1 /\ popped'[np + 1] = s
      /\ \A k \in 1 .. np : popped'[k] = popped[k]
  BY <1>1, <1>2, AppendProperties
<1>7. \A k \in 1 .. np : popped[k] # s /\ popped[k] \in Senders
  BY <1>1, <1>2, LenProperties DEF Holding
<1>d. \A k, l \in 1 .. np : popped[k] = popped[l] => k = l
  BY DEF Loops
<1> HIDE DEF np, w, n
<1>8. \A i : DueOf(w, popped', seen, i) = DueOf(w, popped, seen, i)
  <2> SUFFICES ASSUME NEW i, NEW k \in 1 .. n
               PROVE  (k <= Len(popped') => i \notin seen[popped'[k]]) <=>
                      (k <= np => i \notin seen[popped[k]])
    BY <1>5 DEF DueOf, np
  <2>1. CASE k <= np
    <3>1. k \in 1 .. np /\ k <= np + 1
      BY <2>1, <1>5
    <3> QED  BY <3>1, <2>1, <1>6
  <2>2. CASE k = np + 1
    <3>1. ~(k <= np)
      BY <2>2, <1>5
    <3> QED  BY <3>1, <2>2, <1>2, <1>6
  <2>3. CASE ~(k <= np) /\ k # np + 1
    <3>1. ~(k <= np + 1)
      BY <2>3, <1>5
    <3> QED  BY <3>1, <2>3, <1>6
  <2> QED  BY <2>1, <2>2, <2>3
<1>9. \A i : (Due(i))' = Due(i)
  BY <1>1, <1>4, <1>8, WayAndDue DEF w
<1>10. \A i, j : (Known(i, j))' <=> Known(i, j)
  BY <1>1, <1>4, <1>9 DEF Known
<1>11. \A k, l \in 1 .. Len(popped') : popped'[k] = popped'[l] => k = l
  <2> SUFFICES ASSUME NEW k \in 1 .. np + 1, NEW l \in 1 .. np + 1,
                      popped'[k] = popped'[l]
               PROVE  k = l
    BY <1>6
  <2>1. (k \in 1 .. np \/ k = np + 1) /\ (l \in 1 .. np \/ l = np + 1)
    BY <1>5
  <2> QED  BY <2>1, <1>6, <1>7, <1>d
<1>12. \A r \in Senders :
          hand'[r] = NoPacket \/ hand'[r].type = "Rpc" => seen'[r] = {}
  <2>1. \A r \in Senders : r # s => hand'[r] = hand[r]
    BY <1>1, <1>2
  <2> QED  BY <2>1, <1>1, <1>2 DEF Loops
<1> QED  BY <1>3, <1>10, <1>11, <1>12 DEF Loops

\* A sender that is done leaves the clients what the others have for them.
LEMMA ReleaseViews ==
    ASSUME TypeOK, HandsPopped, Loops, NEW s \in Senders, hand[s] # NoPacket,
           Release(s), UNCHANGED <<netOut, gameOut>>
    PROVE  /\ Loops'
           /\ \A i, j, v : Knows(v, OnTheWay', (Due(i))', j) <=>
                              Knows(v, OnTheWay, Due(i) \ {Position(s)}, j)
<1> DEFINE m == Position(s)
           np == Len(popped)
           w == OnTheWay
           x == OnTheWay'
           n == Len(w)
<1>1. /\ m \in 1 .. np /\ m \in 1 .. n /\ popped[m] = s
      /\ \A k, l \in 1 .. np : popped[k] = popped[l] => k = l
  BY HeldPacket DEF Loops
<1>2. /\ np \in Nat /\ n \in Nat /\ np <= n /\ DOMAIN w = 1 .. n
      /\ \A i : Due(i) \subseteq 1 .. n
  BY WayType
<1>3. /\ hand \in [Senders -> Packets \cup {NoPacket}] /\ popped \in Seq(Senders)
      /\ netOut \in Seq(Packets) /\ gameOut \in Seq(Packets)
      /\ Holding(hand, popped) /\ seen \in [Senders -> SUBSET Ids]
  BY DEF TypeOK, Loops
<1>4. /\ hand' = [hand EXCEPT ![popped[m]] = NoPacket]
      /\ popped' = RemoveAt(popped, m)
      /\ seen' = [seen EXCEPT ![s] = {}]
  BY <1>1 DEF Release
<1>5. /\ x \in Seq(Packets) /\ Len(x) = n - 1
      /\ \A k \in 1 .. n - 1 : x[k] = w[Skip(m, k)]
      /\ popped' \in Seq(Senders) /\ Len(popped') = np - 1
      /\ \A k \in 1 .. Len(popped') :
            /\ popped'[k] = popped[Skip(m, k)] /\ popped'[k] # s
            /\ hand'[popped'[k]] # NoPacket
  <2>1. Released(Way([hand EXCEPT ![popped[m]] = NoPacket], RemoveAt(popped, m),
                     netOut, gameOut),
                 Way(hand, popped, netOut, gameOut),
                 [hand EXCEPT ![popped[m]] = NoPacket], RemoveAt(popped, m), popped, m)
    <3> HIDE DEF m
    <3> QED  BY <1>1, <1>3, WayOfRelease
  <2>2. Released(x, w, hand', popped', popped, m)
    BY <2>1, <1>4, WayAndDue
  <2> HIDE DEF x, w
  <2> QED  BY <2>2, <1>1 DEF Released
<1>6. DOMAIN x = 1 .. n - 1
  BY <1>5, LenProperties
<1> HIDE DEF m, np, w, x, n
<1>7. \A k \in 1 .. n - 1 : Skip(m, k) \in 1 .. n /\ Skip(m, k) # m
  BY <1>1, <1>2, SkipFacts
<1>8. \A k \in 1 .. n - 1 : k <= np - 1 <=> Skip(m, k) <= np
  BY <1>1, <1>2 DEF Skip
<1>9. \A k \in 1 .. np - 1 :
         popped'[k] \in Senders /\ seen'[popped'[k]] = seen[popped[Skip(m, k)]]
  <2>1. \A k \in 1 .. np - 1 : popped'[k] \in Senders
    BY <1>5, LenProperties
  <2> QED  BY <2>1, <1>3, <1>4, <1>5
<1>10. ASSUME NEW i
       PROVE  /\ (Due(i))' \in SUBSET (1 .. n - 1)
              /\ \A k \in 1 .. n - 1 : k \in (Due(i))' <=> Skip(m, k) \in Due(i) \ {m}
  <2>1. /\ (Due(i))' = DueOf(x, popped', seen', i)
        /\ Due(i) = DueOf(w, popped, seen, i)
    BY WayAndDue DEF x, w
  <2>2. (Due(i))' \in SUBSET (1 .. n - 1)
    BY <2>1, <1>6 DEF DueOf
  <2>3. ASSUME NEW k \in 1 .. n - 1
        PROVE  k \in (Due(i))' <=> Skip(m, k) \in Due(i) \ {m}
    <3>1. x[k] = w[Skip(m, k)] /\ Skip(m, k) \in 1 .. n /\ Skip(m, k) # m
      BY <1>5, <1>7
    <3>2. k \in (Due(i))' <=> /\ Addressed(w[Skip(m, k)], i)
                              /\ k <= np - 1 => i \notin seen'[popped'[k]]
      BY <3>1, <2>1, <1>5, <1>6 DEF DueOf
    <3>3. Skip(m, k) \in Due(i) <=>
             /\ Addressed(w[Skip(m, k)], i)
             /\ Skip(m, k) <= np => i \notin seen[popped[Skip(m, k)]]
      BY <3>1, <2>1, <1>2 DEF DueOf, np
    <3>4. k <= np - 1 => k \in 1 .. np - 1
      BY <1>2
    <3> QED  BY <3>1, <3>2, <3>3, <3>4, <1>8, <1>9
  <2> QED  BY <2>2, <2>3
<1>11. ASSUME NEW i, NEW j, NEW v
       PROVE  Knows(v, x, (Due(i))', j) <=> Knows(v, w, Due(i) \ {m}, j)
  <2> DEFINE D == Due(i) \ {m}
             E == (Due(i))'
  <2>1. D \in SUBSET (1 .. n) /\ m \notin D
    BY <1>2
  <2>2. E \in SUBSET (1 .. n - 1) /\ \A k \in 1 .. n - 1 : k \in E <=> Skip(m, k) \in D
    BY <1>10
  <2> HIDE DEF D, E
  <2>3. \A k \in E : x[k] = w[Skip(m, k)]
    BY <2>2, <1>5
  <2>4. Knows(v, x, E, j) <=> Knows(v, w, D, j)
    <3>1. Reindexed(n, m, w, D, x, E)
      BY <2>1, <2>2, <2>3 DEF Reindexed
    <3> QED  BY <3>1, <1>1, <1>2, Reindex
  <2> QED  BY <2>4 DEF D, E
<1>12. Loops'
  <2>1. Holding(hand', popped')
    BY <1>5 DEF Holding
  <2>2. \A k, l \in 1 .. Len(popped') : popped'[k] = popped'[l] => k = l
    <3> SUFFICES ASSUME NEW k \in 1 .. np - 1, NEW l \in 1 .. np - 1,
                        popped'[k] = popped'[l]
                 PROVE  k = l
      BY <1>5
    <3>1. Skip(m, k) \in 1 .. np /\ Skip(m, l) \in 1 .. np
      BY <1>1, <1>2, SkipFacts
    <3>2. Skip(m, k) = Skip(m, l)
      BY <3>1, <1>1, <1>5
    <3> QED  BY <3>2, <1>1, <1>2 DEF Skip
  <2>3. \A r \in Senders :
          hand'[r] = NoPacket \/ hand'[r].type = "Rpc" => seen'[r] = {}
    <3>1. \A r \in Senders : r # s => hand'[r] = hand[r] /\ seen'[r] = seen[r]
      BY <1>1, <1>3, <1>4
    <3>2. seen'[s] = {}
      BY <1>3, <1>4
    <3> QED  BY <3>1, <3>2 DEF Loops
  <2> QED  BY <2>1, <2>2, <2>3 DEF Loops
<1> QED  BY <1>11, <1>12 DEF x, w, m

\* What a sender tells the client that its packet is for, or skips.
LEMMA SentNow ==
    ASSUME TypeOK, HandsPopped, Loops, NEW s \in Senders, hand[s] # NoPacket,
           NEW i \in Ids, i \notin Overtaken(s), Position(s) \in Due(i), NEW j
    PROVE  /\ Knows(Told(view[i], hand[s]), OnTheWay, Due(i) \ {Position(s)}, j) <=>
                 Known(i, j)
           /\ view[i] = {} /\ Knows(view[i], OnTheWay, Due(i) \ {Position(s)}, j) =>
                 Known(i, j)
<1> DEFINE m == Position(s)
           w == OnTheWay
           D == Due(i)
<1>1. w[m] = hand[s] /\ Ordered(w, D, m, w[m]) /\ m \in D
  BY HeldPacket
<1>2. D \subseteq 1 .. Len(w) /\ Len(w) \in Nat /\ \A k \in 1 .. Len(w) : w[k] \in Packets
  BY WayType
<1> HIDE DEF m, w, D
<1>3. D \subseteq Nat \ {0} /\ \A k \in D : w[k] \in Packets
  BY <1>2
<1>4. Knows(Told(view[i], w[m]), w, D \ {m}, j) <=> Knows(view[i], w, D, j)
  BY <1>1, <1>3, PushNow
<1>5. Knows({}, w, D \ {m}, j) => Knows({}, w, D, j)
  BY <1>1, <1>3, SkipEmpty
<1> QED  BY <1>1, <1>4, <1>5 DEF Known, m, w, D

\* A packet for one session is pushed to that session.
LEMMA RpcKeepsPictures ==
    ASSUME TypeOK, HandsPopped, Loops, NEW s \in Senders, SendRpc(s),
           crashed' = crashed, NEW i \in Ids, i \notin overtaken'
    PROVE  \A j : (Known(i, j))' <=> Known(i, j)
<1> DEFINE m == Position(s)
           p == hand[s]
<1>1. /\ p # NoPacket /\ p.type = "Rpc" /\ PushToSend(s, p.id) /\ Release(s)
      /\ UNCHANGED <<netOut, gameOut>>
  BY DEF SendRpc, Up, gameVars
<1>2. i \notin Overtaken(s)
  BY <1>1 DEF Release
<1>3. \A j : Knows(view'[i], OnTheWay', (Due(i))', j) <=>
                Knows(view'[i], OnTheWay, Due(i) \ {m}, j)
  BY <1>1, ReleaseViews
<1>4. m \in Due(i) <=> i = p.id
  <2>1. m \in Due(i) <=> Addressed(p, i) /\ i \notin seen[s]
    BY <1>1, HeldPacket
  <2>2. seen[s] = {}
    BY <1>1 DEF Loops
  <2>3. Addressed(p, i) <=> i = p.id
    BY <1>1 DEF Addressed
  <2> QED  BY <2>1, <2>2, <2>3
<1>5. view' = [view EXCEPT ![p.id] = Told(view[p.id], p)] /\ view \in [Ids -> SUBSET Ids]
  BY <1>1 DEF PushToSend, TypeOK
<1> HIDE DEF p, m
<1>6. CASE i = p.id
  <2>1. view'[i] = Told(view[i], p)
    BY <1>5, <1>6
  <2>2. \A j : Knows(Told(view[i], p), OnTheWay, Due(i) \ {m}, j) <=> Known(i, j)
    BY <1>1, <1>2, <1>4, <1>6, SentNow DEF p, m
  <2> QED  BY <2>1, <2>2, <1>3 DEF Known
<1>7. CASE i # p.id
  <2>1. view'[i] = view[i]
    BY <1>5, <1>7
  <2>2. Due(i) \ {m} = Due(i)
    BY <1>4, <1>7
  <2> QED  BY <2>1, <2>2, <1>3 DEF Known
<1> QED  BY <1>6, <1>7

\* One turn of a loop.
LEMMA NextKeepsPictures ==
    ASSUME TypeOK, HandsPopped, Loops, NEW s \in Senders, NEW c \in Ids,
           SendNext(s, c), NEW i \in Ids, i \notin overtaken'
    PROVE  \A j : (Known(i, j))' <=> Known(i, j)
<1> DEFINE m == Position(s)
           p == hand[s]
<1>1. /\ p # NoPacket /\ p.type # "Rpc" /\ c \notin seen[s]
      /\ UNCHANGED <<hand, popped, netOut, gameOut>>
      /\ seen' = [seen EXCEPT ![s] = seen[s] \cup {c}]
  BY DEF SendNext, gameVars
<1>2. /\ m \in 1 .. Len(popped) /\ popped[m] = s /\ p \in Packets
      /\ m \in Due(i) <=> Addressed(p, i) /\ i \notin seen[s]
  BY <1>1, HeldPacket
<1>3. OnTheWay' = OnTheWay
  BY <1>1 DEF OnTheWay
<1>4. /\ seen \in [Senders -> SUBSET Ids] /\ view \in [Ids -> SUBSET Ids]
      /\ \A k \in 1 .. Len(popped) : popped[k] \in Senders
      /\ \A k, l \in 1 .. Len(popped) : popped[k] = popped[l] => k = l
      /\ DOMAIN OnTheWay = 1 .. Len(OnTheWay)
      /\ Len(popped) \in Nat /\ Len(OnTheWay) \in Nat
  <2>1. popped \in Seq(Senders)
    BY DEF TypeOK
  <2>2. \A k \in 1 .. Len(popped) : popped[k] \in Senders
    BY <2>1, LenProperties
  <2>3. /\ DOMAIN OnTheWay = 1 .. Len(OnTheWay)
        /\ Len(popped) \in Nat /\ Len(OnTheWay) \in Nat
    BY WayType
  <2> QED  BY <2>2, <2>3 DEF TypeOK, Loops
<1>5. (Due(i))' = IF i = c THEN Due(i) \ {m} ELSE Due(i)
  <2>1. /\ (Due(i))' = DueOf(OnTheWay, popped, seen', i)
        /\ Due(i) = DueOf(OnTheWay, popped, seen, i)
    BY <1>1, <1>3, WayAndDue
  <2>2. \A k \in 1 .. Len(popped) :
           i \in seen'[popped[k]] <=> i \in seen[popped[k]] \/ (k = m /\ i = c)
    BY <1>1, <1>2, <1>4
  <2>3. \A k \in 1 .. Len(OnTheWay) : k <= Len(popped) => k \in 1 .. Len(popped)
    BY <1>4
  <2>4. m <= Len(popped)
    BY <1>2, <1>4
  <2>5. \A k : k \in (Due(i))' <=> k \in Due(i) /\ ~(k = m /\ i = c)
    BY <2>1, <2>2, <2>3, <2>4, <1>4 DEF DueOf
  <2> QED  BY <2>5
<1>6. p.type \in {"Broadcast", "RpcOthers"}
  BY <1>1, <1>2 DEF Packets
<1> HIDE DEF p, m
<1>7. CASE p.type = "RpcOthers" /\ p.id = c
  <2>1. view' = view
    BY <1>7 DEF SendNext, p
  <2>2. i = c => m \notin Due(i)
    BY <1>2, <1>7 DEF Addressed
  <2>3. (Due(i))' = Due(i)
    BY <2>2, <1>5
  <2> QED  BY <2>1, <2>3, <1>3 DEF Known
<1>8. CASE ~(p.type = "RpcOthers" /\ p.id = c)
  <2>1. PushToSend(s, c) /\ overtaken' = overtaken \cup ({c} \cap Overtaken(s))
    BY <1>8 DEF SendNext, p
  <2>2. view' = [view EXCEPT ![c] = Told(view[c], p)]
    BY <2>1 DEF PushToSend, p
  <2>3. CASE i = c
    <3>1. i \notin Overtaken(s)
      BY <2>1, <2>3
    <3>2. m \in Due(i)
      BY <2>3, <1>1, <1>2, <1>6, <1>8 DEF Addressed
    <3>3. view'[i] = Told(view[i], p)
      BY <2>2, <2>3, <1>4
    <3>4. \A j : Knows(Told(view[i], p), OnTheWay, Due(i) \ {m}, j) <=> Known(i, j)
      BY <3>1, <3>2, <1>1, SentNow DEF p, m
    <3> QED  BY <2>3, <3>3, <3>4, <1>3, <1>5 DEF Known
  <2>4. CASE i # c
    <3>1. view'[i] = view[i] /\ (Due(i))' = Due(i)
      BY <2>2, <2>4, <1>4, <1>5
    <3> QED  BY <3>1, <1>3 DEF Known
  <2> QED  BY <2>3, <2>4
<1> QED  BY <1>7, <1>8

\* A loop ends.  Whoever it has not told was not to be told, or is not in the
\* game and knows nobody.
LEMMA DoneKeepsPictures ==
    ASSUME TypeOK, HandsPopped, Loops, Fresh, MapOfSessions, PlayerOfPhase,
           NEW s \in Senders, SendDone(s), NEW i \in Ids, ~(Spoiled(i))', Pictured(i)
    PROVE  (Pictured(i))'
<1> DEFINE m == Position(s)
           p == hand[s]
<1>1. /\ p # NoPacket /\ Release(s)
      /\ UNCHANGED <<netOut, gameOut, view, players, phase, sessions>>
      /\ missed' = (missed \/ \E k \in sessions \ seen[s] : k \in InGame \/ view[k] # {})
  BY DEF SendDone, gameVars, strands
<1>2. /\ i \notin Overtaken(s) /\ phase[i] # "closed"
      /\ i \in sessions /\ i \notin seen[s] => i \notin InGame /\ view[i] = {}
  BY <1>1 DEF Spoiled, Release
<1>3. \A j : (Known(i, j))' <=> Knows(view[i], OnTheWay, Due(i) \ {m}, j)
  BY <1>1, ReleaseViews DEF Known
<1>4. m \in Due(i) <=> Addressed(p, i) /\ i \notin seen[s]
  BY <1>1, HeldPacket
<1> HIDE DEF m, p
<1>5. CASE m \notin Due(i)
  <2>1. Due(i) \ {m} = Due(i)
    BY <1>5
  <2>2. \A j : (Known(i, j))' <=> Known(i, j)
    BY <2>1, <1>3 DEF Known
  <2> QED  BY <2>2, <1>1, PictureKept
<1>6. CASE m \in Due(i)
  <2>1. view[i] = {} /\ players[i] # "player"
    <3>1. CASE i \in sessions
      BY <3>1, <1>2, <1>4, <1>6 DEF InGame
    <3>2. CASE i \notin sessions
      <4>1. phase[i] = "new"
        BY <3>2, <1>2 DEF MapOfSessions, TypeOK
      <4> QED  BY <4>1 DEF Fresh, PlayerOfPhase
    <3> QED  BY <3>1, <3>2
  <2>2. \A j : Knows(view[i], OnTheWay, Due(i) \ {m}, j) => Known(i, j)
    BY <2>1, <1>1, <1>2, <1>6, SentNow DEF m, p
  <2>3. \A j : (Known(i, j))' => Known(i, j)
    BY <2>2, <1>3
  <2> QED  BY <2>1, <2>3, <1>1 DEF Pictured
<1> QED  BY <1>5, <1>6

\* The steps of Server::Sender keep the pictures.
LEMMA SenderKeepsViews ==
    ASSUME ViewInv, NEW s \in Senders, SenderStep(s)
    PROVE  Loops' /\ Fresh' /\ Pictures'
<1>t. /\ TypeOK /\ HandsPopped /\ Loops /\ Fresh /\ Pictures
      /\ MapOfSessions /\ PlayerOfPhase
  BY DEF ViewInv, Inv, Agreement
<1>f. /\ UNCHANGED <<phase, players, gameOut>> /\ Up
      /\ missed' = FALSE => missed = FALSE
      /\ overtaken \subseteq overtaken'
  <2>1. UNCHANGED <<phase, players, gameOut>> /\ Up
    BY DEF SenderStep, SenderPop, SendRpc, SendNext, SendDone, SendRace, strands, gameVars
  <2>2. missed' = missed \/ SendDone(s)
    BY DEF SenderStep, SenderPop, SendRpc, SendNext, SendRace, sendVars
  <2>3. missed' = FALSE => missed = FALSE
    BY <2>2, <1>t DEF SendDone, TypeOK
  <2>4. overtaken \subseteq overtaken'
    BY DEF SenderStep, SenderPop, SendRpc, SendNext, SendDone, SendRace, Release, sendVars
  <2> QED  BY <2>1, <2>3, <2>4
<1>v. ASSUME NEW c \in sessions, PushToSend(s, c)
      PROVE  Fresh'
  <2>1. phase[c] # "new" /\ view \in [Ids -> SUBSET Ids] /\ c \in Ids
    BY <1>t DEF MapOfSessions, TypeOK
  <2>2. \A k \in Ids : k # c => view'[k] = view[k]
    BY <2>1, <1>v DEF PushToSend
  <2> QED  BY <2>1, <2>2, <1>t, <1>f DEF Fresh
<1>w. ASSUME view' = view
      PROVE  Fresh'
  BY <1>w, <1>t, <1>f DEF Fresh
<1>p. ASSUME NEW i \in Ids, ~(Spoiled(i))'
      PROVE  /\ Pictured(i) /\ crashed' = crashed /\ i \notin overtaken'
             /\ (\A j : (Known(i, j))' <=> Known(i, j)) => (Pictured(i))'
  <2>1. crashed' = crashed /\ i \notin overtaken'
    BY <1>f, <1>p DEF Spoiled, Up
  <2>2. missed' = FALSE
    <3>1. missed' \in BOOLEAN
      BY <1>t, SenderKeepsTypes DEF TypeOK
    <3> QED  BY <3>1, <1>p DEF Spoiled
  <2>3. ~Spoiled(i)
    BY <2>1, <2>2, <1>f, <1>p DEF Spoiled, Up
  <2>4. Pictured(i)
    BY <2>3, <1>t DEF Pictures
  <2> QED  BY <2>1, <2>4, <1>f, PictureKept
<1>1. CASE SenderPop(s)
  <2>1. Fresh'
    BY <1>1, <1>w DEF SenderPop
  <2> QED  BY <2>1, <1>1, <1>t, <1>p, PopKeepsViews DEF Pictures
<1>2. CASE SendRpc(s)
  <2>1. CASE hand[s].id \in sessions
    <3>1. /\ hand[s] # NoPacket /\ PushToSend(s, hand[s].id) /\ Release(s)
          /\ UNCHANGED <<netOut, gameOut>>
      BY <1>2, <2>1, <1>f DEF SendRpc
    <3>2. Fresh'
      BY <2>1, <3>1, <1>v
    <3>3. Loops'
      BY <3>1, <1>t, ReleaseViews
    <3>4. Pictures'
      BY <1>2, <1>t, <1>p, RpcKeepsPictures DEF Pictures
    <3> QED  BY <3>2, <3>3, <3>4
  <2>2. CASE hand[s].id \notin sessions
    <3>1. UNCHANGED <<hand, popped, seen, view>> /\ crashed' = "nullSession"
      BY <1>2, <2>2 DEF SendRpc
    <3>2. Loops'
      BY <3>1, <1>t DEF Loops, Holding
    <3>3. Pictures'
      BY <3>1 DEF Pictures, Spoiled, Up
    <3> QED  BY <3>1, <3>2, <3>3, <1>w
  <2> QED  BY <2>1, <2>2
<1>3. ASSUME NEW c \in Ids, SendNext(s, c)
      PROVE  Loops' /\ Fresh' /\ Pictures'
  <2>1. /\ hand[s] # NoPacket /\ hand[s].type # "Rpc" /\ c \in sessions
        /\ UNCHANGED <<hand, popped>>
        /\ seen' = [seen EXCEPT ![s] = seen[s] \cup {c}]
        /\ view' = view \/ PushToSend(s, c)
    BY <1>3 DEF SendNext
  <2>2. Fresh'
    BY <2>1, <1>v, <1>w
  <2>3. Loops'
    <3>1. \A r \in Senders : r # s => seen'[r] = seen[r]
      BY <2>1, <1>t DEF TypeOK
    <3> QED  BY <2>1, <3>1, <1>t DEF Loops, Holding
  <2>4. Pictures'
    BY <1>3, <1>t, <1>p, NextKeepsPictures DEF Pictures
  <2> QED  BY <2>2, <2>3, <2>4
<1>4. CASE SendDone(s)
  <2>1. /\ hand[s] # NoPacket /\ Release(s) /\ UNCHANGED <<netOut, gameOut, view>>
    BY <1>4, <1>f DEF SendDone
  <2>2. Loops'
    BY <2>1, <1>t, ReleaseViews
  <2>3. Pictures'
    BY <1>4, <1>t, <1>p, DoneKeepsPictures DEF Pictures
  <2> QED  BY <2>1, <2>2, <2>3, <1>w
<1>5. CASE SendRace(s)
  <2>1. UNCHANGED <<hand, popped, seen, view>> /\ crashed' = "race"
    BY <1>5 DEF SendRace, sendVars
  <2>2. Loops'
    BY <2>1, <1>t DEF Loops, Holding
  <2>3. Pictures'
    BY <2>1 DEF Pictures, Spoiled, Up
  <2> QED  BY <2>1, <2>2, <2>3, <1>w
<1> QED  BY <1>1, <1>2, <1>3, <1>4, <1>5 DEF SenderStep

\* Every step keeps the invariant.
LEMMA ViewInvStep == ViewInv /\ [Next]_vars => ViewInv'
<1> SUFFICES ASSUME ViewInv, [Next]_vars
             PROVE  ViewInv'
  OBVIOUS
<1>1. Inv'
  BY InvStep DEF ViewInv
<1>2. ASSUME NEW i \in Ids, StrandStep(i)
      PROVE  ViewInv'
  BY <1>1, <1>2, StrandKeepsViews DEF ViewInv
<1>3. CASE GameStep
  BY <1>1, <1>3, GameKeepsViews DEF ViewInv
<1>4. ASSUME NEW s \in Senders, SenderStep(s)
      PROVE  ViewInv'
  BY <1>1, <1>4, SenderKeepsViews DEF ViewInv
<1>5. CASE UNCHANGED vars
  <2>1. /\ UNCHANGED <<hand, popped, seen, view, netOut, gameOut>>
        /\ UNCHANGED <<missed, crashed, overtaken, phase, players>>
    BY <1>5 DEF vars
  <2>2. Loops' /\ Fresh'
    BY <2>1 DEF ViewInv, Loops, Holding, Fresh
  <2>3. ASSUME NEW i \in Ids
        PROVE  (Spoiled(i))' \/ (Pictured(i))'
    <3>1. (Spoiled(i))' <=> Spoiled(i)
      BY <2>1 DEF Spoiled, Up
    <3>2. Pictured(i) => (Pictured(i))'
      BY <2>1, SameWay, PictureKept
    <3> QED  BY <3>1, <3>2 DEF ViewInv, Pictures
  <2> QED  BY <2>2, <2>3, <1>1 DEF ViewInv, Pictures
<1> QED  BY <1>2, <1>3, <1>4, <1>5 DEF Next

\* It holds when the server starts.
LEMMA ViewInvInit == Init => ViewInv
<1> SUFFICES ASSUME Init
             PROVE  ViewInv
  OBVIOUS
<1>1. Inv
  BY InvInit
<1>2. Len(popped) = 0 /\ Len(netOut) = 0 /\ Len(gameOut) = 0
  BY DEF Init
<1>3. Loops
  BY <1>2 DEF Init, Loops, Holding
<1>4. Fresh
  BY DEF Init, Fresh
<1>5. ASSUME NEW i \in Ids
      PROVE  Pictured(i)
  <2>1. Len(OnTheWay) = 0
    BY <1>1, <1>2, <1>3, WayType DEF Inv, IsWay
  <2>2. Due(i) = {}
    BY <2>1, <1>1, <1>3, WayType DEF Inv
  <2>3. view[i] = {} /\ players[i] = "absent"
    BY DEF Init
  <2>4. \A j : ~Known(i, j)
    BY <2>2, <2>3 DEF Known, Knows
  <2> QED  BY <2>3, <2>4 DEF Pictured
<1> QED  BY <1>1, <1>3, <1>4, <1>5 DEF ViewInv, Pictures

\* Every connected player's picture of the game is right once the packets on
\* their way have reached it, for any number of sessions and senders and however
\* they interleave with AddPlayer, RemovePlayer and the changes of sessions_
\* (world.cpp:214-284, server.cpp:103-118): only a session that a loop lost to a
\* change of the map, or a client that got opposite news of a player in the wrong
\* order, can end with a wrong one.
THEOREM ViewsConverge == Spec => []ViewConverges
<1>1. ViewInv => ViewConverges
  <2> SUFFICES ASSUME ViewInv, ~missed, Up,
                      NEW i \in (sessions \cap InGame) \ overtaken
               PROVE  Heard(view[i], OnTheWay, Due(i)) = InGame \ {i}
    BY DEF ViewConverges
  <2>1. TypeOK /\ Loops /\ MapOfSessions /\ i \in Ids /\ players[i] = "player"
    BY DEF ViewInv, Inv, Agreement, InGame
  <2>2. phase[i] # "closed"
    BY <2>1 DEF MapOfSessions
  <2>3. Pictured(i)
    BY <2>1, <2>2 DEF ViewInv, Pictures, Spoiled
  <2>4. /\ view[i] \in SUBSET Ids /\ OnTheWay \in Seq(Packets)
        /\ Due(i) \subseteq 1 .. Len(OnTheWay)
    BY <2>1, WayType DEF TypeOK
  <2>5. Heard(view[i], OnTheWay, Due(i)) = {j \in Ids : Known(i, j)}
    BY <2>4, HeardFacts DEF Known
  <2>6. \A j \in Ids : Known(i, j) <=> players[j] = "player" /\ j # i
    BY <2>1, <2>3 DEF Pictured
  <2> QED  BY <2>5, <2>6 DEF InGame
<1> QED  BY ViewInvInit, ViewInvStep, <1>1, PTL DEF Spec
=============================================================================
