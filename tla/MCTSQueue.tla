------------------------------ MODULE MCTSQueue ------------------------------
(***************************************************************************)
(* The queues as the server uses them: io threads push to the net in_queue *)
(* and the game thread swaps it with its own and drains that one; the game *)
(* thread pushes to the net out_queue and the sender threads wait on it.   *)
(* The io thread also makes the calls of the class that the server could   *)
(* make on these two queues: the swap in the other order, a swap of a      *)
(* queue with itself, Empty and Size.                                      *)
(***************************************************************************)
EXTENDS TSQueue

CONSTANTS io, game, sender1, sender2, netIn, gameIn, netOut

Do(op, q)  == [op |-> op, q |-> q, other |-> None]
Swap(q, r) == [op |-> "TSSwap", q |-> q, other |-> r]

ProgramCalls ==
    [t \in {io, game, sender1, sender2} |->
       CASE t = io   -> {Do("Push", netIn), Do("Empty", gameIn),
                         Do("Size", netIn), Swap(netIn, gameIn),
                         Swap(netIn, netIn)}
         [] t = game -> {Swap(gameIn, netIn), Do("TryPop", gameIn),
                         Do("Push", netOut)}
         [] OTHER    -> {Do("WaitAndPop", netOut)}]

ProgramBounds == [t \in {io, game, sender1, sender2} |-> IF t = game THEN 3 ELSE 1]
=============================================================================
