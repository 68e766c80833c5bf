# EndlessPeakServer: TLA+ models and proofs

EndlessPeakServer is a WebSocket server for a 2D game. Clients connect, send
moves, and are told where everybody is. This directory models the program in
TLA+, from `main()` to the bytes of a packet, checks the models with TLC on
small instances, and proves the safety properties with TLAPS: for every number of
threads and sessions, every map, and packets of every size. What stays with TLC
alone is liveness and one statement about ENABLED.

`PROJECT.json` lists the components, the runs, the mutants, the source lines of
every definition, the findings, the hazards and the theorems. Source paths below
are relative to `src/src/`.

## The system and its parts

    client --> Session (one strand each) --net in_queue--> World (game thread)
    client <-- Session <--PushToSend-- Sender threads <--net out_queue-- World

| Part | State it keeps | Operations | What makes it correct |
|---|---|---|---|
| `net/session` Session | `state_`, `sending_`, `out_queue_`, outstanding reads and writes | Run, ProcessState, ReadPacketHead/Body, PushToSend, Send and their handlers | one write at a time; packets in order; none left behind; one CreatePlayer and one RemovePlayer per session |
| `net/session` PacketHandler | `head_already_read_`, `body_already_read_`, the packet being filled | UpdateHeadSize, UpdateBodySize, ExtractPacket | the packets pushed are those sent, whatever pieces they arrive in |
| `net/socket` WSSocket | `closed_` | close, the asynchronous operations | closing twice is harmless |
| `net/server` Server | `acceptor_`, `sessions_`, `new_session_id_` | StartListen, Run, AddSession, CloseSession, PushPacket, Sender | packets reach the right sessions although sessions come and go |
| `shared/utils` TSQueue | a queue, a mutex, a condition variable | Push, TryPop, WaitAndPop, Empty, Size, TSSwap | linearizable; no lost wake-up; no deadlock |
| `game/world` World | `players_`, the map, two queues | GameLoop, Tick, ProcessInput, Update, AddPlayer, RemovePlayer | players follow sessions; every client's picture of the game is right |
| `game/physics` | the player's position and velocity | SweptAABB, SweptAxis, FindCollisionIndices, MovePlayer | nobody goes through walls or is stopped by nothing |
| `shared/protocol` | header and body of a packet | operator<<, operator>>, MakeBuffer, IsValidHeader | what is written is what is read |
| `main.cpp`, `shared/config` | the configuration; the threads started so far | GetInstance and its three parts, the start of each thread | clients meet a whole server; broken files end the program in order |
| `db`, `cryptography` | the connection and who owns it, prepared statements, the accounts table | Load, Insert, Get, Remove, Hash, VerifyHash, GenerateSalt | answers are true of the table; only known failures outlast their call; the handle is closed once |
| `net/socket` WSSSocket | | | see "Not modelled" |

`db` and `cryptography` are libraries with tests of their own; the server does
not call them yet.

The hard behaviours: Send runs on the strand and on the Sender threads at once;
Sender uses `sessions_` without the mutex that AddSession and CloseSession take;
clients may send the opcodes that the server itself pushes; a session closes
while packets for it, or from it, are queued; both a read and a write may fail
and close the same session; several Senders overtake each other; packets arrive
in pieces; a tick may be long and a fall fast; a reply of the database may be
lost after the statement was executed. `PROJECT.json` lists each as a hazard at
its line.

## Modules

**Session** is one session. The actors are the Sender threads and the session's
strand, which runs one handler at a time. `pc[a]` is the place of actor `a` in
the code; every access to an atomic and every queue operation is one action
(`SendIsConnected`, `SendEmpty`, `SendStart`, `SendTryPop`, `SendWrite` are the
lines of `Session::Send`). Beast is external: an outstanding read or write
completes, with or without an error, whenever the strand is free. Cancelling an
operation does not unqueue a handler that is already there, so a read may still
succeed after `close()`. A sender holds no reference to the session: if the last
owner drops it meanwhile, `UseAfterFree` ends the process. `pushed`, `delivered`
and `lost` are history.

**OrderedDelivery** is what the sending side promises: the client receives a
prefix of what was sent, and nothing more after a failure.

**TSQueue** is `ts_queue.hpp`, each statement inside the lock an action, with
spurious wake-ups. `Calls` gives the operations of each thread, because the
class is only free of lost wake-ups in the way the server uses it: TSSwap
notifies nobody. **FifoQueues** is its promise: between its call and its return
each operation takes effect exactly once, at one instant, and as that operation
does; a TryPop may only say nullopt when the queue was empty.

**GameServer** composes the sessions, the four queues, the world's tick and the
Senders. It relies on the other models: queue operations are atomic (TSQueue
implements FifoQueues) and a session behaves as Session shows (PlayerLifecycle,
ordered delivery), so a session is only its `phase`, its pending read and what
its client has been told. `players_[id]` and `sessions_[id]` on an absent key
insert a null entry, as in the code; dereferencing one sets `crashed`. A loop
over `sessions_` that a strand disturbs may end anywhere or crash. A loop counts
as disturbed from the sender's pop on, a little earlier than in the code, which
only adds behaviours. There may be several Senders. Then two packets for one
client may be pushed in the opposite order; `overtaken` holds the clients to
whom that happened with packets that do not commute (the news that a player
came, and the news that it left). Nothing between the socket and
`World::ProcessInput` refuses an opcode (`net_packet.cpp:52`, `session.cpp:116`,
`server.cpp:130`), so a client may also send CreatePlayer and RemovePlayer, the
two that the server itself pushes, and the world runs them. `asked` holds the
clients that have sent a RemovePlayer. In Session a client's packet is an input
whatever its opcode.

**Startup** is `main()`, composed with GameServer: the arguments are counted
(`CheckArgs`), the configuration is read (`InitNetConfig` to
`InitAccountsDBConfig`), the world is made, the acceptor listens, and the
threads start one after the other. A thread takes GameServer's steps once it is
in `running`, and handlers run once `ioc.run()` is called. A file is a record
that says which sections are complete and the numbers that are used later; a
number that does not fit its field wraps, as nlohmann::json's conversions do. A
list of tiles shorter than the grid, or a grid smaller than the debug print, is
read past its end; that is undefined, and the model stops there.

**NetPacket** is the packet as bytes: `swap_endian`, operator<< and operator>>
(which takes the last field first), moves, IsValidHeader, MakeBuffer. It has no
variables. `Base` is the number of values of a byte, so that TLC can use small
bytes; the sizes of the fields and the limits are constants too.

**PacketHandler** is the read loop and the framing over NetPacket. The client
makes its packets with NetPacket as well, refused ones and ones with a payload
behind a refused header included. The server does not skip such a payload; from
there on it may take any bytes for a header, and only what holds of every
packet, in step or not, is claimed.

**LoginDatabase** is SQLConnection, LoginDataBase and sha256.cpp. MariaDB and
its connector are external: any call may fail, the connection may be lost before
or after the server has executed a statement, and a SELECT whose result has not
been stored blocks other statements until the SELECT is executed again. `told`
is what a caller may conclude from the answers; `last.fault` says that something
new failed in the last call, which a connection that was lost before, or a
statement that was never prepared, is not; `getFailed` says that the last Get
left before it had stored its result. A null statement that is used ends in
`crashed`.

**Physics** is one player under `ProcessInput`, `Update` and `MovePlayer`, from
the tick in which AddPlayer makes it. The length `dt` of a tick is any of `Dts`,
or 0 in the first tick of all. Coordinates are whole numbers and entry times
fractions. MovePlayer moves along one axis at a time, so velocity times entry
time is a whole number. Converting a negative double to `size_t` is undefined,
and `ToSizeT` has both outcomes that machines produce.

**MCTSQueue, MCGameServer, MCStartup, MCPacketHandler, MCPhysics,
MCLoginDatabase** and the .cfg files give the constants their
values. **SessionProofs, TSQueueProofs, GameServerProofs, StartupProofs,
PacketHandlerProofs, PhysicsProofs** and **LoginDatabaseProofs** hold the
theorems about the module they are named after; **NumberTheorems** has the facts
about division, least elements and recursion that three of them share.

Operators whose comment begins with "Mutant of" are slips that the code might
have had. Each property is shown to fail under one of them.

## Runs

| Run | Shows | Instance |
|---|---|---|
| session | OneWrite, FifoDelivery, NoStrandedPacket, PlayerLifecycle, ImplementsOrderedDelivery, Drains, Closes | 2 senders, 2 packets, 3 pushes, 3 world events |
| session_nullopt | *violated*: NulloptNeverReturned | 1 sender |
| ts_queue | NoLostWakeup, NoDeadlock, OnlyLockBlocks, ImplementsFifoQueues, WaiterServed | io, game and 2 sender threads, 3 queues; 3 calls of the game thread, 1 of the others; swaps both ways and with itself |
| game_server | NoGhostPlayer, NullPlayerOnlyAfterRemoval, ViewConverges | 2 sessions, 2 senders, 1 input (an unknown opcode) |
| startup | ServedByWholeServer, NoGhostPlayer, NullPlayerOnlyAfterRemoval, StartSettles, PlayersFollowSessions | 8 sets of files; then 1 session, 1 sender, 3 inputs of every kind |
| game_server_null_player | *violated*: UnknownPlayerTolerated | 1 session |
| game_server_null_session | *violated*: ClosedSessionTolerated | 1 session |
| packet_handler | Framing, FieldsReadBack, ReadAsksForBytes, AllPushed | 3 packets of 7 kinds, bytes of 4 values, header of 1 + 2 bytes, payload below 9 |
| physics | SweptIsFirstContact, NeverThroughWalls, StopsOnlyAtWalls, StaysInMap, NoSpeedGathers, Lands | 5 x 5 tiles of 6, player 3 x 4, ticks of 1 and 2 |
| physics_clamp | *violated*: StaysInMap | 5 x 5 tiles of 4, player 2 x 3 |
| physics_ground | *violated*: OnGroundIsSupported | as physics |
| login_database | OneOwner, AnswersAreTrue, OnlyTheseFailuresLast | 2 logins, one longer than its buffer, 2 passwords; no bound on the calls |

Why the bounds are enough. Three pushes by two senders let one packet be in a
write, one wait, and a third race the handler; three world events let an input
fall before or after RemovePlayer. Two waiting threads are what a lost
notify_one needs, and three calls of the game thread are a tick's swap, pop and
push. The thread that swaps in the opposite order is no thread of the server; it
is there because the class promises more than the server needs. ViewConverges
speaks of pairs, a client and a player it knows of or not, and no packet makes a
third player matter to a pair, so two sessions are enough (`ViewsConverge`
proves it for any number); two senders are enough for one to overtake another.
The input of the game_server run has an unknown opcode, which makes a null
player without ending the process at once, so that the other session meets it.
What a client does with several inputs, and with the server's own opcodes, is in
the startup run: it removes its player and brings it back, removes it and meets
none, or has its CreatePlayer read after the close. Those are sequences of one
session's events, and PlayersFollowSessions speaks of one session at a time, so
one is enough there. What such a client does to the pictures of the others is
not in a run, which would be at least twice as large, but in the theorem
ViewsConverge, which has any number of sessions, senders and inputs, of any
opcodes. The files of startup are a good one at the edges of its fields and one
for every way to go wrong. A header and payloads of up to eight bytes split in
every way, on each boundary, and three packets put a refused one before, between
and after valid ones. `MaxBacklog` only delays a tick while the senders are
behind. In the physics run a jump rises almost a tile and a fall is faster than
the player is high; no move reaches above the map there, which is what
physics_clamp is about. SweptIsFirstContact tries moves of up to two tiles,
faster than any fall of the run. MaxPush, MaxInQueue, MaxCalls, MaxInputs and
MaxPackets only stop the environment, so the runs do not check for deadlock:
they end when it has nothing more to do, and the database's when it is closed.
The physics runs have no such bound and do check.

### What the violated properties show

1. **session_nullopt**: `session.cpp:183` "This check should never pass". A
   sender sees the queue not empty, the strand sends that packet and clears
   `sending_`, the sender takes the flag and TryPop returns nullopt. It returns
   with `sending_` set, and this client is never sent anything again.
2. **game_server_null_player**: `world.cpp:103` logs "player not found" and goes
   on to dereference the null player. A late read of a closed session leads there,
   and so do a client's own RemovePlayer and a move behind it.
3. **game_server_null_session**: `server.cpp:110` dereferences a null session
   for a packet whose client has left; `session.cpp:170-172` was meant to drop it.
4. **physics_clamp**: `collision.cpp:78` "Clamp bounding box" does not clamp a
   negative bound, and a jump in a long tick leaves the map through the ceiling.
5. **physics_ground**: `world.cpp:202-204` "HIT GROUND" is also reached by a
   player that moves up and already touches the ceiling.

## Fairness

- Session: a thread inside the session's code goes on with it (the operating
  system schedules it), and the transport completes every write one way or the
  other (a broken TCP connection times out). Nothing is assumed of reads.
- TSQueue: a thread that can go on does. Locks are strongly fair: a mutex that
  is free again and again is obtained in the end. The code relies on the
  platform's mutex for that.
- GameServer: GameLoop ticks for ever, Senders loop for ever, and a handler
  that has added its session goes on to push CreatePlayer (`main.cpp:71-105`).
- Startup: main() goes on until it serves or ends, and what it has started is as
  fair as in GameServer. A thread that has not been started has no fairness.
- PacketHandler: what the client has sent is read, because the loop always has a
  read outstanding.
- LoginDatabase: none, it is called.
- Physics: GameLoop ticks for ever, and a tick handles the finitely many inputs
  that it swapped in.

## Proofs

Every proof rests on the ASSUMEs of its module and on nothing else; TLC evaluates
them on the instances of the runs. An invariant is proved as `Spec => []P`, from
an inductive invariant: it holds at first, every action keeps it, and it implies
P. Each lemma takes a part of the invariant through one action.

### Session

For any senders, packets and bounds, from `SessionAssumption` (the strand is no
sender, NoPacket is no packet, the bounds are numbers): `TypeCorrect`,
`OneWriteAlways`, `FifoAlways`, `NoStrandedAlways`, `LifecycleAlways`, and
`Refinement`: `Spec` implements `OrderedDelivery`.

None of the invariants but the types is inductive alone. `Inv` is the
conjunction of

- `Typing`, the types and what the labels say of the local buffers;
- `Token`: `sending_` is a token. While it is set at most one has it: an actor
  between test_and_set and async_write, the outstanding write, the handler that
  has not cleared it yet, or nobody any more after a failed write or the nullopt
  branch. OneWrite follows, and it needs the token in the handler too, or a
  sender could start a write before the clear;
- `FifoDelivery`, which needs the token: only its holder takes from the queue;
- `Served`: when the token is set there is a reason, and when it is not and
  packets wait, an actor is on its way to test_and_set or the handler to its
  second look at the queue. NoStrandedPacket follows when everybody is idle;
- `Lifecycle`: where the strand is, what is registered and what was pushed to
  the world belong together.

In the refinement a push maps to Accept, a successful write to Deliver, a failed
one to Break, everything else to a stuttering step.

### TSQueue

For any threads, queues, values and programs of calls: `TypeCorrect`,
`WakeupsNotLost`, `DeadlockFree`, and `QueuesAreFifo`: every operation is
linearizable as FifoQueues has it. `WaitedQueuesNotSwapped` is assumed: no
thread swaps a queue that another waits on. The server keeps to it
(`world.cpp:69` swaps the in queues, `server.cpp:103` waits on the net out
queue), and without it NoLostWakeup is false, because TSSwap notifies nobody.

`Inv` says that a label belongs to the operation in progress (`Running`), which
mutexes it holds, and that no other thread has them (`Locking`), that a condition
variable knows exactly the threads asleep on it (`Sleeping`), and that a queue has
a moved-out front only between the move and the pop (`Moving`). For NoLostWakeup
the threads on their way to a value are counted: a push wakes a sleeper unless
there is none, a pop takes a value and its thread away together, and a thread
falls asleep only at an empty queue. For NoDeadlock, `Locking` puts the owner of
a mutex at a label past its first lock and not asleep, and there nothing blocks it:
scoped_lock only tries the second mutex. That `CanGo`, the condition NoDeadlock is
stated with, is what ENABLED says of the steps is OnlyLockBlocks, which TLC checks
in every state of the run. In the refinement an operation takes
effect at its access to the queue under the lock; the two assignments of a swap
are one instant because both mutexes are held.

### GameServer and Startup

For any sessions, senders and inputs, of whatever opcodes: `TypeCorrect`,
`NoGhosts`, `NullPlayersWereRemoved` and `ViewsConverge`. The second and third
follow from `Agreement`, which is about the events still to be processed, gameIn
and then netIn: the game thread swaps with an empty queue, so the swap keeps their
order (`SwapsEmpty`); nothing is queued for a session before its own CreatePlayer,
and a RemovePlayer only for sessions that are closed or whose client asked for it
(`QueueOrder`); and each phase of a session says what the world has of it and what
is queued (`PlayerOfPhase`): an open session has its player, or its CreatePlayer
is queued before all else of it (`CreateFirst`), or its client asked; a closed one
has no player, or its RemovePlayer is queued, or an Rpc packet for it is on its way
(`RpcPending`). The last is the one way a player can come back: its client sent a
CreatePlayer that was read after the close. The answer to it is an Rpc to a session
that is gone, and the server ends at it (finding 3), which is why NoGhostPlayer
allows it and PlayersFollowSessions still holds.

ViewsConverge is about the packets on their way to a client: those in the hands of
senders, in the order of their pops, then those in the two out queues. `Heard`, the
recursive function of the property, is first shown to be `Knows` (`HeardFacts`):
the client ends up knowing a player that a packet adds, or that it knew before, if
no later packet drops it. That speaks of one client, one player and the order of
the packets, and needs no recursion. `ViewInv` adds to `Inv` that a sender which
popped holds its packet and popped once (`Loops`), that nothing is pushed to a
session before it is in the map (`Fresh`), and `Pictures`: every client that is not
closed and that no loop lost and no packet overtook will know no more than the other
players, and all of them when it is in the game itself. ViewConverges alone would not
be inductive: a session whose player is not created yet is sent broadcasts already,
and must not come to know a player that leaves before. The steps are then:

- a push of the game thread goes to the end and decides what the clients know of
  the players it names (`Appended`);
- a pop moves a packet from the queue to a hand, not to another place
  (`WayOfPop`);
- a packet that a sender pushes has overtaken those before it that the client is
  still to be sent; if it commutes with them nothing changes in the end
  (`PushNow`), and if not the client is in `overtaken`;
- a sender that is done takes its packet away, and the others keep their order
  (`WayOfRelease`, `Reindex`); a client it has not told was not to be told, or is
  not in the game and knows nobody, and then a missing packet tells it of
  nobody (`SkipEmpty`), or else `missed` is set.

`NoPacketIsNone` is assumed: an empty hand is told from a packet.

For any files: `WholeServer`, from `StartInv` (what main() has made and read at
each label, and that nobody is served before the last). `ProgramIsGameServer`
proves `StartSpec => Spec`: a thread that is not started yet only takes fewer
steps. So what is proved of GameServer holds of the program, as in
`ProgramHasNoGhosts` and `ProgramViewsConverge`.

### PacketHandler and NetPacket

For bytes of any number of values, fields and headers of any sizes, any limits and
any packets: `TypeCorrect`, `ReadsAskForBytes`, `FramesArrive` and
`FieldsArrive`. `KindsFit` is assumed: a value fits its field, and a payload the
size field of the header. In the code the types see to the first; a body of 2^32
bytes would break the second.

First the bytes: storing in a number of bytes and loading are inverse
(`StoredIsBijection`), and so are `ToNet` and `FromNet`. `ReadInv` has the types
and what the outstanding read says of the counters; in the body a valid header has
been read and the body has its length, so a read never asks for nothing.
`FramingInv` says that the server is in step or lost. In step (`Sync`) it has
dealt with the first c packets, the bytes it holds are the first of packet c + 1,
and the stream is the rest of it followed by the other packets end to end
(`Layout`). It is lost (`Lost`) once it has refused the header of a packet with a
payload; then what was pushed before stays. Framing follows: the place of a
packet among the pushed ones is its number among the valid ones. For
FieldsReadBack, operator>> undoes operator<<, so each field taken leaves the packet
as it was before that field was put (`LeftFacts`).

### Physics

For every map and player: `SweptFindsFirstContact`, about moves of up to two
tiles (by the signs of the distance and the velocity; its lemmas `ContactX` and
`ContactY` are about moves of any length), and `OnlyWallsStop`. `NoWallCrossed`,
`InMap` and `NobodyGathersSpeed` are implications from `MapHoldsPlayer`: the map
has a solid border, the player starts inside, and no tick moves it up, left or
right by more than a tile. The fall may be of any speed. The map in `config/`
and the physics run satisfy it; the physics_clamp run does not, and its
violation shows why it is needed. The types are a lemma there, and no run checks
them: they hold by the arithmetic. `HeldInv` keeps the player inside the border,
out of walls, within those speeds and at rest while it stands; then
FindCollisionIndices sees every tile that a move can touch (`SeesTiles`), and
the shortened move ends at the first of them.

### LoginDatabase

For any logins, passwords and salts: `TypeCorrect`, `HandleHasOneOwner`,
`AnswersStayTrue` and `KnownFailuresLast`. The last is about every call in which
nothing new fails, and names the four causes that outlast the call they arose
in: a statement that could not be prepared, a lost connection, an unread result,
a login longer than its buffer. Of the hash only that it tells passwords apart
is used. `Inv` adds which object has the handle at each label (`Ownership`),
that the row of a known login holds the hash of the password its caller was told
(`TableKnown`), and that only a Get that failed leaves a result unread
(`PendingAfterFailure`), and that nothing has been answered before the database
is in use (`NoCallYet`).

### Only model-checked

- Liveness: Drains, Closes, WaiterServed, StartSettles, PlayersFollowSessions,
  AllPushed, Lands. Fairness is out of the prover's reach.
- TSQueue's OnlyLockBlocks, which speaks of ENABLED.

## Not modelled

- `net/socket/wss_socket.*`: dead code at this commit. Nothing constructs a
  WSSSocket (`server.cpp:72` is commented out), so no behaviour of the program
  goes through it. Before it is used, two things of it are worth a look: a
  failed handshake drops the session's handler (`wss_socket.cpp:78-84`), and
  close() starts the SSL shutdown twice (30 and 54).
- `SQLConnection::operator=`, which nothing calls. It would leak the handle it
  overwrites (`sql_connection.cpp:28`).
- operator>> on a body shorter than the variable, which underflows: the server
  reads no fields, and the model takes no more bytes than there are.
- Rounding of doubles; a websocket stream used from two threads at once, which
  is undefined in Beast; maps of more than 255 rows, where `collision.cpp:12`
  cuts the number of rows; the length of a tick, which is a constant.

## Plan

Done: the models of all components, and a theorem for every invariant and every
refinement the runs check but OnlyLockBlocks.

What would come next: the components under "Not modelled" when the program comes
to use them, and the hazards in `PROJECT.json` that have a note in place of a
property.
