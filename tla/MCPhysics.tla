------------------------------ MODULE MCPhysics ------------------------------
(***************************************************************************)
(* Small maps for Physics: a solid border, like config/map.json, around a  *)
(* room with a few solid tiles.                                            *)
(***************************************************************************)
EXTENDS Physics

Border ==
    {i \in 0 .. GridX * GridY - 1 :
        \/ i % GridX \in {0, GridX - 1}
        \/ i \div GridX \in {0, GridY - 1}}

\* A ledge over the floor of a room three tiles wide and high.
RoomWithLedge == Border \cup {2 * GridX + 2}
=============================================================================
