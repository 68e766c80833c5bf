----------------------------- MODULE GameServer -----------------------------
(***************************************************************************)
(* The server as a whole: the sessions and Server::sessions_, the world's  *)
(* tick, the four queues between them, and the Sender threads.             *)
(*                                                                         *)
(*   session strands --net in_queue--> game thread --net out_queue-->      *)
(*   Sender threads --PushToSend--> sessions                               *)
(*                                                                         *)
(* Queue operations are atomic (TSQueue implements FifoQueues), a session  *)
(* is what Session shows of it to the others (the server pushes its        *)
(* CreatePlayer first and at most one RemovePlayer, what is pushed for a   *)
(* client reaches it in order), and positions are left out (they never     *)
(* decide what is sent to whom).                                           *)
(***************************************************************************)
EXTENDS Naturals, Sequences, FiniteSets, SequencesExt

CONSTANTS
    Ids,            \* session ids; new_session_id_ never repeats one
    Senders,        \* the threads that run Server::Sender
    ClientOpcodes,  \* the opcodes clients send
    NoPacket,       \* a sender that handles no packet
    MaxInputs,      \* bound: packets the clients send
    MaxBacklog      \* bound: no tick starts while net out_queue is longer

\* The opcodes World::ProcessInput tells apart; "Unknown" is any other.  Nothing
\* on the way from the socket to the world refuses one of them.
InputOpcodes == {"MoveLeft", "MoveRight", "Jump", "Unknown"}
Opcodes == {"CreatePlayer", "RemovePlayer"} \cup InputOpcodes

ASSUME GameServerAssumption ==
    /\ IsFiniteSet(Ids)
    /\ ClientOpcodes \subseteq Opcodes
    /\ MaxInputs \in Nat
    /\ MaxBacklog \in Nat

Packets == [type : {"Broadcast", "Rpc", "RpcOthers"},
            op : {"create", "spawn", "add", "remove", "move"},
            id : Ids, others : SUBSET Ids]

\* A sender without a packet is told from one that has any.
ASSUME NoPacketIsNone == NoPacket \notin Packets

VARIABLES
    phase,      \* of each session: "new", "adding", "open" or "closed"
    reading,    \* the session still has a read outstanding
    inputs,     \* how many packets the clients have sent
    asked,      \* the clients that have sent RemovePlayer themselves
    sessions,   \* the keys of Server::sessions_
    netIn, gameIn, gameOut, netOut,   \* the queues of the two subsystems
    players,    \* World::players_: "absent", "null" or "player" for each id
    tick,       \* where the game thread is in World::Tick
    hand,       \* the packet each sender handles
    popped,     \* the senders that handle one, in the order of their pops
    seen,       \* the sessions its loop has visited
    dirty,      \* sessions_ has changed under its loop
    sent,       \* the sessions something was pushed to
    view,       \* the players each client has been told of and not told to drop
    missed,     \* a loop has skipped a session that is in the game or has been
                \* told of players
    overtaken,  \* the clients that were pushed a packet before an older one
                \* with which it does not commute
    crashed     \* why the process has died, or "no"

strands  == <<phase, reading, inputs, asked>>
gameVars == <<gameIn, gameOut, players, tick>>
sendVars == <<hand, popped, seen, sent, view, missed, overtaken>>
vars == <<phase, reading, inputs, asked, sessions, netIn, gameIn, gameOut,
          netOut, players, tick, hand, popped, seen, dirty, sent, view, missed,
          overtaken, crashed>>

Init ==
    /\ phase = [i \in Ids |-> "new"]
    /\ reading = [i \in Ids |-> FALSE]
    /\ inputs = 0
    /\ asked = {}
    /\ sessions = {}
    /\ netIn = << >> /\ gameIn = << >> /\ gameOut = << >> /\ netOut = << >>
    /\ players = [i \in Ids |-> "absent"]
    /\ tick = "swap"
    /\ hand = [s \in Senders |-> NoPacket]
    /\ popped = << >>
    /\ seen = [s \in Senders |-> {}]
    /\ dirty = [s \in Senders |-> FALSE]
    /\ sent = {}
    /\ view = [i \in Ids |-> {}]
    /\ missed = FALSE
    /\ overtaken = {}
    /\ crashed = "no"

Up == crashed = "no"

Event(op, i) == [op |-> op, id |-> i]
Packet(type, op, i, others) ==
    [type |-> type, op |-> op, id |-> i, others |-> others]

-----------------------------------------------------------------------------
(* The sessions' strands and Server::sessions_.                            *)

\* AddSession and CloseSession change the map under sessions_mutex_, which the
\* senders do not take: whoever is using the map then uses a map that changes.
Disturb == dirty' = [s \in Senders |-> dirty[s] \/ hand[s] # NoPacket]

AddSession(i) ==
    /\ Up
    /\ phase[i] = "new"
    /\ phase' = [phase EXCEPT ![i] = "adding"]
    /\ sessions' = sessions \cup {i}
    /\ Disturb
    /\ UNCHANGED <<reading, inputs, asked, netIn, netOut, gameVars, sendVars,
                   crashed>>

PushCreate(i) ==
    /\ Up
    /\ phase[i] = "adding"
    /\ phase' = [phase EXCEPT ![i] = "open"]
    /\ reading' = [reading EXCEPT ![i] = TRUE]
    /\ netIn' = Append(netIn, Event("CreatePlayer", i))
    /\ UNCHANGED <<inputs, asked, sessions, netOut, gameVars, sendVars, dirty,
                   crashed>>

\* Mutant of Reading: the first read starts before CreatePlayer is pushed.
ReadingEarly(i) == reading[i] \/ phase[i] = "adding"

\* ReadPacketHead is called when AddSession has returned.
Reading(i) == reading[i]

\* A read completes a packet, for a closed session too (Session!ReadOk), and
\* PushPacket queues it whatever its opcode is.
PushInput(i, op) ==
    /\ Up
    /\ Reading(i)
    /\ inputs < MaxInputs
    /\ inputs' = inputs + 1
    /\ asked' = asked \cup {j \in {i} : op = "RemovePlayer"}
    /\ netIn' = Append(netIn, Event(op, i))
    /\ UNCHANGED <<phase, reading, sessions, netOut, gameVars, sendVars, dirty,
                   crashed>>

\* Mutant of RemoveEvents: the session is erased and the world is not told.
RemoveEventsForgotten(i) == << >>

\* What CloseSession pushes for a session that it has erased.
RemoveEvents(i) == <<Event("RemovePlayer", i)>>

\* A read fails, or a write of something pushed before; after a failed write
\* the read is still there.
CloseSession(i) ==
    /\ Up
    /\ phase[i] = "open"
    /\ phase' = [phase EXCEPT ![i] = "closed"]
    /\ \/ reading' = [reading EXCEPT ![i] = FALSE]
       \/ i \in sent /\ UNCHANGED reading
    /\ sessions' = sessions \ {i}
    /\ netIn' = netIn \o RemoveEvents(i)
    /\ Disturb
    /\ UNCHANGED <<inputs, asked, netOut, gameVars, sendVars, crashed>>

\* The read of a closed session fails in the end; CloseSession then finds
\* nothing to erase.
CloseAgain(i) ==
    /\ Up
    /\ phase[i] = "closed"
    /\ reading[i]
    /\ reading' = [reading EXCEPT ![i] = FALSE]
    /\ UNCHANGED <<phase, inputs, asked, sessions, netIn, netOut, gameVars,
                   sendVars, dirty, crashed>>

-----------------------------------------------------------------------------
(* World::Tick, on the game thread.                                        *)

InGame == {i \in Ids : players[i] = "player"}
HasNull == \E i \in Ids : players[i] = "null"

GameCrash(why) ==
    /\ crashed' = why
    /\ UNCHANGED gameVars

\* The swap, then the loop that stops every player.
TickSwap ==
    /\ Up
    /\ tick = "swap"
    /\ Len(netOut) <= MaxBacklog
    /\ \/ /\ HasNull
          /\ GameCrash("nullPlayer")
          /\ UNCHANGED netIn
       \/ /\ ~HasNull
          /\ gameIn' = netIn
          /\ netIn' = gameIn
          /\ tick' = "input"
          /\ UNCHANGED <<gameOut, players, crashed>>
    /\ UNCHANGED <<strands, sessions, netOut, sendVars, dirty>>

\* ProcessInput of CreatePlayer: AddPlayer.  Nothing asks who has pushed it, or
\* whether there is a player already.
ProcessCreate(i) ==
    /\ Up
    /\ tick = "input"
    /\ gameIn # << >> /\ Head(gameIn) = Event("CreatePlayer", i)
    /\ \/ /\ \E j \in Ids \ {i} : players[j] = "null"
          /\ GameCrash("nullPlayer")
       \/ /\ \A j \in Ids \ {i} : players[j] # "null"
          /\ gameIn' = Tail(gameIn)
          /\ players' = [players EXCEPT ![i] = "player"]
          /\ gameOut' = gameOut \o
                <<Packet("Rpc", "create", i, {}),
                  Packet("Rpc", "spawn", i, InGame \ {i}),
                  Packet("RpcOthers", "add", i, {})>>
          /\ UNCHANGED <<tick, crashed>>
    /\ UNCHANGED <<strands, sessions, netIn, netOut, sendVars, dirty>>

\* Mutants of RemovePackets: nobody is told; the id is read from the erased
\* player.
RemovePacketsForgotten(i) == << >>
RemovePacketsErased(i) == <<Packet("Broadcast", "remove", NoPacket, {})>>

RemovePackets(i) == <<Packet("Broadcast", "remove", i, {})>>

ProcessRemove(i) ==
    /\ Up
    /\ tick = "input"
    /\ gameIn # << >> /\ Head(gameIn) = Event("RemovePlayer", i)
    /\ gameIn' = Tail(gameIn)
    /\ players' = [players EXCEPT ![i] = "absent"]
    /\ gameOut' = gameOut \o RemovePackets(i)
    /\ UNCHANGED <<strands, sessions, netIn, netOut, tick, sendVars, dirty,
                   crashed>>

\* The other opcodes: players_[id] makes a null entry for an absent player,
\* which the moves and Jump dereference.
ProcessInput(i, op) ==
    /\ Up
    /\ tick = "input"
    /\ gameIn # << >> /\ Head(gameIn) = Event(op, i)
    /\ \/ /\ op # "Unknown" /\ players[i] # "player"
          /\ GameCrash("nullPlayer")
       \/ /\ op = "Unknown" \/ players[i] = "player"
          /\ gameIn' = Tail(gameIn)
          /\ players' = [players EXCEPT ![i] = IF @ = "absent" THEN "null" ELSE @]
          /\ UNCHANGED <<gameOut, tick, crashed>>
    /\ UNCHANGED <<strands, sessions, netIn, netOut, sendVars, dirty>>

\* The rest of the tick: Update of every player, in the order of the hash map,
\* broadcasts it, and the game's out_queue is emptied into the net one.  Only
\* the game thread pushes there, so a sender that pops in between sees the same
\* packets as one that pops later.
FinishTick ==
    /\ Up
    /\ tick = "input"
    /\ gameIn = << >>
    /\ \/ /\ HasNull
          /\ GameCrash("nullPlayer")
          /\ UNCHANGED netOut
       \/ /\ ~HasNull
          /\ tick' = "swap"
          /\ gameOut' = << >>
          /\ \E order \in SetToSeqs(InGame) :
                netOut' = netOut \o gameOut \o
                    [k \in DOMAIN order |->
                        Packet("Broadcast", "move", order[k], {})]
          /\ UNCHANGED <<gameIn, players, crashed>>
    /\ UNCHANGED <<strands, sessions, netIn, sendVars, dirty>>

-----------------------------------------------------------------------------
(* Server::Sender.                                                         *)

\* What a client that was told of the players v knows after packet p.
Told(v, p) ==
    CASE p.op = "spawn"  -> v \cup p.others
      [] p.op = "add"    -> v \cup {p.id}
      [] p.op = "remove" -> v \ {p.id}
      [] OTHER           -> v

Addressed(p, i) ==
    \/ p.type = "Broadcast"
    \/ p.type = "Rpc" /\ p.id = i
    \/ p.type = "RpcOthers" /\ p.id # i

Commute(p, q) ==
    \A v \in SUBSET Ids : Told(Told(v, p), q) = Told(Told(v, q), p)

\* The packets on their way to the clients, oldest first: those that senders
\* handle, in the order of their pops, and those in the queues.
OnTheWay == [k \in DOMAIN popped |-> hand[popped[k]]] \o netOut \o gameOut

\* The places in OnTheWay of the packets that client i is still to be sent.
Due(i) ==
    {k \in DOMAIN OnTheWay :
        /\ Addressed(OnTheWay[k], i)
        /\ k <= Len(popped) => i \notin seen[popped[k]]}

Position(s) == CHOOSE k \in DOMAIN popped : popped[k] = s

\* The clients that a sender which popped before s has still to push a packet
\* to that does not commute with the one s handles.
Overtaken(s) ==
    {i \in Ids : \E k \in 1 .. Position(s) - 1 :
        k \in Due(i) /\ ~Commute(OnTheWay[k], hand[s])}

PushToSend(s, i) ==
    /\ view' = [view EXCEPT ![i] = Told(@, hand[s])]
    /\ sent' = sent \cup {i}

\* Sender s is done with its packet and forgets its loop.
Release(s) ==
    /\ hand' = [hand EXCEPT ![s] = NoPacket]
    /\ popped' = RemoveAt(popped, Position(s))
    /\ seen' = [seen EXCEPT ![s] = {}]
    /\ dirty' = [dirty EXCEPT ![s] = FALSE]
    /\ overtaken' = overtaken \cup Overtaken(s)

SenderPop(s) ==
    /\ Up
    /\ hand[s] = NoPacket
    /\ netOut # << >>
    /\ hand' = [hand EXCEPT ![s] = Head(netOut)]
    /\ popped' = Append(popped, s)
    /\ netOut' = Tail(netOut)
    /\ UNCHANGED <<strands, sessions, netIn, gameVars, seen, dirty, sent, view,
                   missed, overtaken, crashed>>

\* sessions_[id]->PushToSend: without the session, operator[] makes a null one.
SendRpc(s) ==
    /\ Up
    /\ hand[s] # NoPacket /\ hand[s].type = "Rpc"
    /\ \/ /\ hand[s].id \in sessions
          /\ PushToSend(s, hand[s].id)
          /\ Release(s)
          /\ UNCHANGED crashed
       \/ /\ hand[s].id \notin sessions
          /\ crashed' = "nullSession"
          /\ UNCHANGED <<hand, popped, seen, dirty, sent, view, overtaken>>
    /\ UNCHANGED <<strands, sessions, netIn, netOut, gameVars, missed>>

\* One turn of the loop of Broadcast or RpcOthers, in the order of the hash map.
SendNext(s, i) ==
    /\ Up
    /\ hand[s] # NoPacket /\ hand[s].type # "Rpc"
    /\ i \in sessions \ seen[s]
    /\ seen' = [seen EXCEPT ![s] = @ \cup {i}]
    /\ IF hand[s].type = "RpcOthers" /\ hand[s].id = i
       THEN UNCHANGED <<sent, view, overtaken>>
       ELSE /\ PushToSend(s, i)
            /\ overtaken' = overtaken \cup ({i} \cap Overtaken(s))
    /\ UNCHANGED <<strands, sessions, netIn, netOut, gameVars, hand, popped,
                   dirty, missed, crashed>>

\* The loop ends.  When the map changed under it, it may end anywhere.
SendDone(s) ==
    /\ Up
    /\ hand[s] # NoPacket /\ hand[s].type # "Rpc"
    /\ sessions \subseteq seen[s] \/ dirty[s]
    /\ missed' = (missed \/ \E i \in sessions \ seen[s] :
                              i \in InGame \/ view[i] # {})
    /\ Release(s)
    /\ UNCHANGED <<strands, sessions, netIn, netOut, gameVars, sent, view,
                   crashed>>

\* The other outcome of using a map that changes.
SendRace(s) ==
    /\ Up
    /\ hand[s] # NoPacket
    /\ dirty[s]
    /\ crashed' = "race"
    /\ UNCHANGED <<strands, sessions, netIn, netOut, gameVars, sendVars, dirty>>

-----------------------------------------------------------------------------

GameStep ==
    \/ TickSwap
    \/ \E i \in Ids : \/ ProcessCreate(i)
                      \/ ProcessRemove(i)
                      \/ \E op \in InputOpcodes : ProcessInput(i, op)
    \/ FinishTick

SenderStep(s) ==
    \/ SenderPop(s)
    \/ SendRpc(s)
    \/ \E i \in Ids : SendNext(s, i)
    \/ SendDone(s)
    \/ SendRace(s)

StrandStep(i) ==
    \/ AddSession(i)
    \/ PushCreate(i)
    \/ \E op \in ClientOpcodes : PushInput(i, op)
    \/ CloseSession(i)
    \/ CloseAgain(i)

Next ==
    \/ \E i \in Ids : StrandStep(i)
    \/ GameStep
    \/ \E s \in Senders : SenderStep(s)

Spec == Init /\ [][Next]_vars

\* The game thread ticks for ever, the senders send what there is, and a
\* strand finishes the handler it is in.
Fairness ==
    /\ WF_vars(GameStep)
    /\ \A s \in Senders : WF_vars(SenderStep(s))
    /\ \A i \in Ids : WF_vars(PushCreate(i))

FairSpec == Spec /\ Fairness

-----------------------------------------------------------------------------
(* Properties.                                                             *)

Events == [op : Opcodes, id : Ids]

\* Every variable has its type.
TypeOK ==
    /\ phase \in [Ids -> {"new", "adding", "open", "closed"}]
    /\ reading \in [Ids -> BOOLEAN]
    /\ inputs \in 0 .. MaxInputs
    /\ asked \subseteq Ids
    /\ sessions \subseteq Ids
    /\ netIn \in Seq(Events) /\ gameIn \in Seq(Events)
    /\ gameOut \in Seq(Packets) /\ netOut \in Seq(Packets)
    /\ players \in [Ids -> {"absent", "null", "player"}]
    /\ tick \in {"swap", "input"}
    /\ hand \in [Senders -> Packets \cup {NoPacket}]
    /\ popped \in Seq(Senders)
    /\ seen \in [Senders -> SUBSET Ids]
    /\ dirty \in [Senders -> BOOLEAN]
    /\ sent \subseteq Ids
    /\ view \in [Ids -> SUBSET Ids]
    /\ missed \in BOOLEAN
    /\ overtaken \subseteq Ids
    /\ crashed \in {"no", "nullPlayer", "nullSession", "race"}

Queued(e) == \E k \in DOMAIN (gameIn \o netIn) : (gameIn \o netIn)[k] = e

RpcIn(w, i) == \E k \in DOMAIN w : w[k].type = "Rpc" /\ w[k].id = i

\* An Rpc packet for client i is on its way.
RpcPending(i) ==
    \/ RpcIn(netOut, i) \/ RpcIn(gameOut, i)
    \/ \E s \in Senders :
          hand[s] # NoPacket /\ hand[s].type = "Rpc" /\ hand[s].id = i

\* The world and the map of sessions agree up to what is queued.  A player
\* without a session has its RemovePlayer on the way: no ghost stays in the game.
\* Only a CreatePlayer that its own client sent, and that was read after the
\* session was closed, can bring it back, and then the answer to it is on its way
\* to a session that is gone (server.cpp:110 does not survive that).  A session
\* without a player has its CreatePlayer on the way, unless its client asked for
\* the removal.  The order across the swap (world.cpp:69, 79) is part of it: a
\* RemovePlayer that overtook its CreatePlayer would leave a ghost.
NoGhostPlayer ==
    \A i \in Ids :
        /\ players[i] = "player" /\ i \notin sessions =>
              Queued(Event("RemovePlayer", i)) \/ RpcPending(i)
        /\ i \in sessions /\ phase[i] # "adding" /\ players[i] # "player" =>
              Queued(Event("CreatePlayer", i)) \/ i \in asked

\* An input meets no player (world.cpp:101) only after a RemovePlayer of the same
\* session, which CloseSession or its client pushed: an input never overtakes the
\* CreatePlayer of its session, nor loses its player to another session.
NullPlayerOnlyAfterRemoval ==
    crashed = "nullPlayer" \/ HasNull =>
        \E i \in Ids : /\ phase[i] = "closed" \/ i \in asked
                       /\ players[i] # "player"

\* What a client that knows the players v knows after the packets of w at the
\* places in due.
Heard(v, w, due) ==
    LET heard[k \in 0 .. Len(w)] ==
            CASE k = 0     -> v
              [] k \in due -> Told(heard[k - 1], w[k])
              [] OTHER     -> heard[k - 1]
    IN  heard[Len(w)]

\* Every connected player's picture of the game is right once the packets on
\* their way have reached it: it knows exactly the other players, whatever order
\* sessions came, went and were told about in (AddPlayer, RemovePlayer,
\* world.cpp:214-284).  Two things can spoil it: a loop over sessions_ that lost
\* the session to a concurrent change of the map (server.cpp:113, 118), and,
\* with several net threads, two senders that push the news that a player came
\* and the news that it left in the wrong order (server.cpp:103).  Any other
\* overtaking is harmless.
ViewConverges ==
    ~missed /\ Up =>
        \A i \in (sessions \cap InGame) \ overtaken :
            Heard(view[i], OnTheWay, Due(i)) = InGame \ {i}

\* The player of a closed session leaves the game, and every connected session
\* gets its player, unless the process dies (world.cpp:69-93, server.cpp:85-150).
PlayersFollowSessions ==
    \A i \in Ids :
        /\ phase[i] = "closed" ~> (players[i] # "player" \/ ~Up)
        /\ phase[i] = "adding" ~> (players[i] = "player" \/ i \notin sessions
                                                         \/ ~Up)

\* world.cpp:100-103 looks an unknown player up, logs "player not found" and
\* means to go on: no input may kill the process.
UnknownPlayerTolerated == crashed # "nullPlayer"

\* session.cpp:170-172 returns from a send to a client that is gone: a packet
\* for a closed session is dropped, it does not kill the process.
ClosedSessionTolerated == crashed # "nullSession"
=============================================================================
