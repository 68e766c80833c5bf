--------------------------- MODULE MCLoginDatabase ---------------------------
(* A short login, and one of 64 characters that has more than 64 bytes.    *)
EXTENDS LoginDatabase

CONSTANTS user, longUser

Bytes == [l \in {user, longUser} |-> IF l = longUser THEN 65 ELSE 4]
=============================================================================
