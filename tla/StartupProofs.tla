---------------------------- MODULE StartupProofs ----------------------------
(***************************************************************************)
(* Proofs about Startup, for every content of the files and any number of  *)
(* threads: clients are only served by a whole server, and what has been   *)
(* started is a GameServer.                                                *)
(***************************************************************************)
EXTENDS Startup, GameServerProofs

-----------------------------------------------------------------------------
(* The inductive invariant.                                                *)

\* The labels main() passes, and those it still has to pass.
Labels == {"main", "InitNetConfig", "InitGameConfig", "CopyMap", "DebugMap",
           "InitAccountsDBConfig", "World", "StartListen", "GameThread",
           "NetThreads", "serving"}
Ends == {"failed", "undefined"}
FromGame      == Labels \ {"main", "InitNetConfig"}
FromCopyMap   == FromGame \ {"InitGameConfig"}
FromDebugMap  == FromCopyMap \ {"CopyMap"}
FromListen    == {"StartListen", "GameThread", "NetThreads", "serving"}
FromThreads   == {"GameThread", "NetThreads", "serving"}
FromSenders   == {"NetThreads", "serving"}

\* Config has its four fields, and those that main() has read are what the
\* files say, wrapped to the width of the field.
ConfigRead ==
    /\ config = [net_threads |-> config.net_threads, grid_x |-> config.grid_x,
                 grid_y |-> config.grid_y, map |-> config.map]
    /\ main \in FromGame => config.net_threads = uint8(file.net_threads)
    /\ main \in FromCopyMap => /\ config.grid_x = uint16(file.grid_x)
                               /\ config.grid_y = uint16(file.grid_y)
    /\ main \in FromDebugMap =>
          config.map = [k \in 1 .. Tiles |-> uint8(file.map[k])]

\* What main() has made by the time it is at a label.
MadeSoFar ==
    /\ main \in FromListen => solid = {k \in 1 .. Tiles : uint8(file.map[k]) # 0}
    /\ main \in FromThreads => listening
    /\ main \in FromSenders => "game" \in running
    /\ main = "serving" => Cardinality(running \cap Senders) = NetThreads

\* No handler runs, so no session begins, before ioc.run().
NobodyServed == main # "serving" => \A i \in Ids : phase[i] = "new"

StartInv ==
    /\ main \in Labels \cup Ends
    /\ ConfigRead
    /\ MadeSoFar
    /\ NobodyServed

-----------------------------------------------------------------------------

\* main() keeps the invariant.
LEMMA MainKeepsInv ==
    ASSUME StartInv, MainStep, UNCHANGED vars
    PROVE  StartInv'
<1> USE DEF Labels, Ends, FromGame, FromCopyMap, FromDebugMap, FromListen,
            FromThreads, FromSenders
<1>i. /\ main \in Labels \cup Ends /\ ConfigRead /\ MadeSoFar /\ NobodyServed
  BY DEF StartInv
<1>f. file' = file /\ phase' = phase /\ main # "serving"
  BY DEF MainStep, CheckArgs, InitNetConfig, InitGameConfig, CopyMap, DebugMap,
         InitAccountsDBConfig, MakeWorld, StartListen, StartGameThread,
         StartSender, IoRun, Fail, vars
<1>n. NobodyServed'
  BY <1>i, <1>f DEF NobodyServed
\* A step that leaves Config alone leaves all that is computed from it alone.
<1>c. ASSUME config' = config
      PROVE  Tiles' = Tiles /\ NetThreads' = NetThreads
  BY <1>c DEF Tiles, NetThreads
<1>0. CASE CheckArgs
  BY <1>0, <1>c, <1>i, <1>f, <1>n DEF CheckArgs, StartInv, ConfigRead, MadeSoFar
<1>1. CASE InitNetConfig
  BY <1>1, <1>i, <1>f, <1>n
     DEF InitNetConfig, StartInv, ConfigRead, MadeSoFar
<1>2. CASE InitGameConfig
  BY <1>2, <1>i, <1>f, <1>n
     DEF InitGameConfig, StartInv, ConfigRead, MadeSoFar
<1>3. CASE CopyMap
  <2>2. CASE main' = "undefined" /\ config' = config
    BY <2>2, <1>3, <1>i, <1>f, <1>n
       DEF CopyMap, StartInv, ConfigRead, MadeSoFar
  <2>3. CASE ~(main' = "undefined" /\ config' = config)
    <3>1. /\ main = "CopyMap" /\ main' = "DebugMap"
          /\ config' = [config EXCEPT !.map =
                           [k \in 1 .. Tiles |-> uint8(file.map[k])]]
      BY <1>3, <2>3 DEF CopyMap
    <3>2. Tiles' = Tiles
      BY <3>1, <1>i DEF ConfigRead, Tiles
    <3>3. ConfigRead'
      BY <3>1, <3>2, <1>i, <1>f DEF ConfigRead
    <3>4. MadeSoFar'
      BY <3>1 DEF MadeSoFar
    <3> QED  BY <3>1, <3>3, <3>4, <1>n DEF StartInv
  <2> QED  BY <2>2, <2>3
<1>4. CASE DebugMap
  <2>1. /\ main = "DebugMap" /\ config' = config
        /\ main' = IF Tiles < DebugSide * DebugSide THEN "undefined"
                   ELSE "InitAccountsDBConfig"
    BY <1>4 DEF DebugMap
  <2>2. ConfigRead' /\ MadeSoFar'
    BY <2>1, <1>c, <1>f, <1>i DEF ConfigRead, MadeSoFar
  <2> QED  BY <2>1, <2>2, <1>n DEF StartInv
<1>5. CASE InitAccountsDBConfig
  BY <1>5, <1>c, <1>i, <1>f, <1>n DEF InitAccountsDBConfig, StartInv, ConfigRead,
     MadeSoFar
<1>6. CASE MakeWorld
  <2>1. /\ main = "World" /\ main' = "StartListen" /\ config' = config
        /\ solid' = {k \in 1 .. Tiles : config.map[k] # 0}
    BY <1>6 DEF MakeWorld
  <2>2. \A k \in 1 .. Tiles : config.map[k] = uint8(file.map[k])
    BY <2>1, <1>i DEF ConfigRead
  <2>3. ConfigRead'
    BY <2>1, <1>c, <1>f, <1>i DEF ConfigRead
  <2>4. MadeSoFar'
    BY <2>1, <2>2, <1>c, <1>f DEF MadeSoFar
  <2> QED  BY <2>1, <2>3, <2>4, <1>n DEF StartInv
<1>7. CASE StartListen
  BY <1>7, <1>c, <1>i, <1>f, <1>n DEF StartListen, StartInv, ConfigRead,
     MadeSoFar
<1>8. CASE StartGameThread
  BY <1>8, <1>c, <1>i, <1>f, <1>n DEF StartGameThread, StartInv, ConfigRead,
     MadeSoFar
<1>9. ASSUME NEW s \in Senders, StartSender(s)
      PROVE  StartInv'
  BY <1>9, <1>c, <1>i, <1>f, <1>n DEF StartSender, StartInv, ConfigRead,
     MadeSoFar
<1>10. CASE IoRun
  BY <1>10, <1>c, <1>i, <1>f, <1>n DEF IoRun, StartInv, ConfigRead, MadeSoFar,
     NobodyServed
<1>11. ASSUME NEW at, Fail(at)
       PROVE  StartInv'
  BY <1>11, <1>i, <1>f, <1>n DEF Fail, StartInv, ConfigRead, MadeSoFar
<1> QED  BY <1>0, <1>1, <1>2, <1>3, <1>4, <1>5, <1>6, <1>7, <1>8, <1>9, <1>10,
            <1>11
         DEF MainStep

\* A thread keeps it: before ioc.run() only the game thread and the senders
\* run, and they begin no session.
LEMMA ThreadsKeepInv ==
    ASSUME StartInv, UNCHANGED startVars,
           \/ GameThread
           \/ \E s \in Senders : NetThread(s)
           \/ \E i \in Ids : IoThread(i)
           \/ UNCHANGED vars
    PROVE  StartInv'
<1>1. UNCHANGED <<main, file, config, solid, listening, running>>
  BY DEF startVars
<1>2. Tiles' = Tiles /\ NetThreads' = NetThreads
  BY <1>1 DEF Tiles, NetThreads
<1>3. ConfigRead' /\ MadeSoFar'
  BY <1>1, <1>2 DEF StartInv, ConfigRead, MadeSoFar
<1>4. main = "serving" \/ phase' = phase
  BY DEF GameThread, GameStep, TickSwap, ProcessCreate, ProcessRemove,
         ProcessInput, FinishTick, NetThread, SenderStep, SenderPop, SendRpc,
         SendNext, SendDone, SendRace, IoThread, strands, vars
<1>5. NobodyServed'
  BY <1>1, <1>4 DEF StartInv, NobodyServed
<1> QED  BY <1>1, <1>3, <1>5 DEF StartInv

\* The invariant is one of the program.
THEOREM StartInvariance == StartSpec => []StartInv
<1>1. StartInit => StartInv
  BY DEF StartInit, Init, StartInv, ConfigRead, MadeSoFar, NobodyServed,
         Labels, FromGame, FromCopyMap, FromDebugMap,
         FromListen, FromThreads, FromSenders
<1>2. StartInv /\ [StartNext]_allVars => StartInv'
  BY MainKeepsInv, ThreadsKeepInv DEF StartNext, allVars
<1> QED  BY <1>1, <1>2, PTL DEF StartSpec

\* Clients are only served by a whole server (main.cpp:43-105).
THEOREM WholeServer == StartSpec => []ServedByWholeServer
<1>1. StartInv => ServedByWholeServer
  <2>1. SUFFICES ASSUME StartInv, NEW i \in Ids, phase[i] # "new"
        PROVE  /\ listening
               /\ "game" \in running
               /\ Cardinality(running \cap Senders) = NetThreads
               /\ running \cap Senders # {}
               /\ solid = {k \in 1 .. Tiles : uint8(file.map[k]) # 0}
    BY DEF ServedByWholeServer
  <2>2. main = "serving"
    BY <2>1 DEF StartInv, NobodyServed
  <2>3. /\ listening /\ "game" \in running
        /\ Cardinality(running \cap Senders) = NetThreads
        /\ solid = {k \in 1 .. Tiles : uint8(file.map[k]) # 0}
    BY <2>1, <2>2 DEF StartInv, MadeSoFar, FromListen, FromThreads, FromSenders
  <2>4. Cardinality(running \cap Senders) # 0
    BY <2>3 DEF NetThreads
  <2>5. running \cap Senders # {}
    BY <2>4, FS_EmptySet
  <2> QED  BY <2>3, <2>5
<1> QED  BY <1>1, StartInvariance, PTL

\* What main() starts, thread by thread, does nothing that GameServer does not:
\* all that is proved of GameServer holds of the program from main() on.
THEOREM ProgramIsGameServer == StartSpec => Spec
<1>1. StartInit => Init
  BY DEF StartInit
<1>2. [StartNext]_allVars => [Next]_vars
  BY DEF StartNext, allVars, GameThread, NetThread, IoThread, Next
<1> QED  BY <1>1, <1>2, PTL DEF StartSpec, Spec

\* In particular no player outlives its session without its RemovePlayer, or the
\* answer that ends the process, being on the way, from main() on and whatever
\* opcodes the clients send.
THEOREM ProgramHasNoGhosts == StartSpec => []NoGhostPlayer
BY ProgramIsGameServer, NoGhosts, PTL

\* And every client's picture of the game converges, whatever order main() starts
\* the threads in and however many there are.
THEOREM ProgramViewsConverge == StartSpec => []ViewConverges
BY ProgramIsGameServer, ViewsConverge, PTL
=============================================================================
