---------------------------- MODULE MCGameServer ----------------------------
(* Model values for checking GameServer with TLC.                          *)
EXTENDS GameServer

\* Sessions differ in nothing but their ids, and senders in nothing.
Symmetry == Permutations(Ids) \cup Permutations(Senders)
=============================================================================
