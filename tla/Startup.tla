------------------------------- MODULE Startup -------------------------------
(***************************************************************************)
(* The program from main() on: the configuration is loaded, the world and  *)
(* the server are made, the threads are started one by one, and what has   *)
(* been started runs as GameServer says.                                   *)
(*                                                                         *)
(* The JSON files are one record: whether each section has all its keys    *)
(* with values of the right type, and the values that later code computes  *)
(* with.  nlohmann::json converts numbers like static_cast, so a value     *)
(* that does not fit its field wraps.                                      *)
(***************************************************************************)
EXTENDS GameServer, FiniteSets

CONSTANTS
    Files,       \* the contents the files may have
    DebugSide    \* the 25 of the debug print of the map

ASSUME StartupAssumption ==
    /\ DebugSide \in Nat
    /\ Files \subseteq [net : BOOLEAN, game : BOOLEAN, player : BOOLEAN,
                        db : BOOLEAN, net_threads : Nat, grid_x : Nat,
                        grid_y : Nat, map : Seq(Nat)]

VARIABLES
    main,       \* where main() is, or how it ended
    file,       \* what the files say
    config,     \* Config: the fields that are read so far
    solid,      \* World::map_: the indices of the solid tiles
    listening,  \* the acceptor listens
    running     \* the threads that have been started: "game" and senders

startVars == <<main, file, config, solid, listening, running>>
allVars == <<startVars, vars>>

uint8(n)  == n % 2^8
uint16(n) == n % 2^16

StartInit ==
    /\ Init
    /\ main = "main"
    /\ file \in Files
    /\ config = [net_threads |-> 0, grid_x |-> 0, grid_y |-> 0, map |-> << >>]
    /\ solid = {}
    /\ listening = FALSE
    /\ running = {}

\* Nothing catches what main() or the Config constructor throws, and the errors
\* that main() sees make it return: no thread has been started by then.
Fail(at) ==
    /\ main = at
    /\ main' = "failed"
    /\ UNCHANGED <<file, config, solid, listening, running>>

\* The program has one argument, the path of the configuration.
CheckArgs ==
    /\ main = "main"
    /\ main' = "InitNetConfig"
    /\ UNCHANGED <<file, config, solid, listening, running>>

-----------------------------------------------------------------------------
(* Config.                                                                 *)

InitNetConfig ==
    /\ main = "InitNetConfig" /\ file.net
    /\ config' = [config EXCEPT !.net_threads = uint8(file.net_threads)]
    /\ main' = "InitGameConfig"
    /\ UNCHANGED <<file, solid, listening, running>>

Tiles == config.grid_x * config.grid_y

InitGameConfig ==
    /\ main = "InitGameConfig" /\ file.game
    /\ config' = [config EXCEPT !.grid_x = uint16(file.grid_x),
                                !.grid_y = uint16(file.grid_y)]
    /\ main' = "CopyMap"
    /\ UNCHANGED <<file, solid, listening, running>>

\* tmp[i] is not checked: a list shorter than the grid is read past its end.
CopyMap ==
    /\ main = "CopyMap"
    /\ \/ Len(file.map) < Tiles /\ main' = "undefined" /\ UNCHANGED config
       \/ /\ Len(file.map) >= Tiles
          /\ config' = [config EXCEPT !.map = [k \in 1 .. Tiles |-> uint8(file.map[k])]]
          /\ main' = "DebugMap"
    /\ UNCHANGED <<file, solid, listening, running>>

\* The player's file, then the debug print, which reads DebugSide * DebugSide
\* tiles, whatever the grid is.
DebugMap ==
    /\ main = "DebugMap" /\ file.player
    /\ main' = IF Tiles < DebugSide * DebugSide THEN "undefined"
               ELSE "InitAccountsDBConfig"
    /\ UNCHANGED <<file, config, solid, listening, running>>

InitAccountsDBConfig ==
    /\ main = "InitAccountsDBConfig" /\ file.db
    /\ main' = "World"
    /\ UNCHANGED <<file, config, solid, listening, running>>

-----------------------------------------------------------------------------
(* main().                                                                 *)

MakeWorld ==
    /\ main = "World"
    /\ solid' = {k \in 1 .. Tiles : config.map[k] # 0}
    /\ main' = "StartListen"
    /\ UNCHANGED <<file, config, listening, running>>

\* The certificates load, the address parses, open, set_option, bind and listen
\* succeed; then Server::Run starts the first async_accept.
StartListen ==
    /\ main = "StartListen"
    /\ listening' = TRUE
    /\ main' = "GameThread"
    /\ UNCHANGED <<file, config, solid, running>>

\* Mutant of StartGameThread: the jthread is a temporary and is joined at once.
StartGameThreadJoined ==
    /\ main = "GameThread"
    /\ running' = running \cup {"game"}
    /\ UNCHANGED <<main, file, config, solid, listening>>

StartGameThread ==
    /\ main = "GameThread"
    /\ running' = running \cup {"game"}
    /\ main' = "NetThreads"
    /\ UNCHANGED <<file, config, solid, listening>>

\* Mutant of NetThreads: what the file says, no thread at all included.
NetThreadsAsRead == config.net_threads

\* std::max<int>(1, net_threads_).
NetThreads == IF config.net_threads > 1 THEN config.net_threads ELSE 1

StartSender(s) ==
    /\ main = "NetThreads"
    /\ s \notin running
    /\ Cardinality(running \cap Senders) < NetThreads
    /\ running' = running \cup {s}
    /\ UNCHANGED <<main, file, config, solid, listening>>

\* The first io thread calls ioc.run(): handlers run from now on.
IoRun ==
    /\ main = "NetThreads"
    /\ Cardinality(running \cap Senders) = NetThreads
    /\ main' = "serving"
    /\ UNCHANGED <<file, config, solid, listening, running>>

MainStep ==
    \/ CheckArgs \/ Fail("main")
    \/ InitNetConfig \/ InitGameConfig \/ CopyMap \/ DebugMap
    \/ InitAccountsDBConfig
    \/ MakeWorld \/ StartListen \/ StartGameThread
    \/ \E s \in Senders : StartSender(s)
    \/ IoRun
    \/ ~file.net /\ Fail("InitNetConfig")
    \/ ~file.game /\ Fail("InitGameConfig")
    \/ ~file.player /\ Fail("DebugMap")
    \/ ~file.db /\ Fail("InitAccountsDBConfig")
    \/ Fail("StartListen")

GameThread == "game" \in running /\ GameStep
NetThread(s) == s \in running /\ SenderStep(s)
IoThread(i) == main = "serving" /\ StrandStep(i)

StartNext ==
    \/ MainStep /\ UNCHANGED vars
    \/ /\ GameThread \/ \E s \in Senders : NetThread(s)
                     \/ \E i \in Ids : IoThread(i)
       /\ UNCHANGED startVars

\* main() goes on until it serves, and then the threads are as in GameServer.
StartSpec ==
    /\ StartInit /\ [][StartNext]_allVars
    /\ WF_allVars(MainStep /\ UNCHANGED vars)
    /\ WF_allVars(GameThread /\ UNCHANGED startVars)
    /\ \A s \in Senders : WF_allVars(NetThread(s) /\ UNCHANGED startVars)
    /\ \A i \in Ids : WF_allVars(PushCreate(i) /\ UNCHANGED startVars)

-----------------------------------------------------------------------------
(* Properties.                                                             *)

\* Clients are only served by a whole server: when the first handler runs, the
\* acceptor listens, the game thread and every sender thread have been started,
\* at least one, and the world is the one of the map file (main.cpp:43-105).
\* Run() is called before the threads start, so this rests on no handler running
\* before ioc.run().
ServedByWholeServer ==
    (\E i \in Ids : phase[i] # "new") =>
        /\ listening
        /\ "game" \in running
        /\ Cardinality(running \cap Senders) = NetThreads
        /\ running \cap Senders # {}
        /\ solid = {k \in 1 .. Tiles : uint8(file.map[k]) # 0}

\* main() ends, or serves: it never hangs on the way (main.cpp:17-108).
StartSettles == <>(main \in {"serving", "failed", "undefined"})
=============================================================================
