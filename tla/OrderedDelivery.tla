--------------------------- MODULE OrderedDelivery ---------------------------
(***************************************************************************)
(* What Session::PushToSend promises its callers: the packets pushed for a *)
(* client reach it in the order of the pushes, each at most once and       *)
(* without a gap, until the connection breaks; nothing is delivered after  *)
(* the break.  It does not promise that a packet is ever delivered.        *)
(***************************************************************************)
EXTENDS Naturals, Sequences

CONSTANT Packets

VARIABLES
    sent,        \* the packets handed to PushToSend, in the order of the pushes
    received,    \* the packets the client has received
    broken       \* a write has failed

vars == <<sent, received, broken>>

Init ==
    /\ sent = << >>
    /\ received = << >>
    /\ broken = FALSE

Accept(p) ==
    /\ sent' = Append(sent, p)
    /\ UNCHANGED <<received, broken>>

Deliver ==
    /\ ~broken
    /\ Len(received) < Len(sent)
    /\ received' = Append(received, sent[Len(received) + 1])
    /\ UNCHANGED <<sent, broken>>

Break ==
    /\ ~broken
    /\ broken' = TRUE
    /\ UNCHANGED <<sent, received>>

Next == (\E p \in Packets : Accept(p)) \/ Deliver \/ Break

Spec == Init /\ [][Next]_vars
=============================================================================
