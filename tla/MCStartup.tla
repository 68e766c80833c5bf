------------------------------ MODULE MCStartup ------------------------------
(***************************************************************************)
(* Files for Startup: a good one at the edge of its fields (256 net        *)
(* threads are read as 0, the list is longer than the grid and 256 in it   *)
(* is read as 0), and one for every way to go wrong.                       *)
(***************************************************************************)
EXTENDS Startup

Good == [net |-> TRUE, game |-> TRUE, player |-> TRUE, db |-> TRUE,
         net_threads |-> 256, grid_x |-> 2, grid_y |-> 2, map |-> <<1, 0, 256, 1>>]

SomeFiles ==
    {Good,
     [Good EXCEPT !.net = FALSE],
     [Good EXCEPT !.game = FALSE],
     [Good EXCEPT !.player = FALSE],
     [Good EXCEPT !.db = FALSE],
     [Good EXCEPT !.map = <<1, 0, 1>>],
     [Good EXCEPT !.grid_x = 1],
     [Good EXCEPT !.grid_y = 2^16]}
=============================================================================
