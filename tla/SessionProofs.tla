---------------------------- MODULE SessionProofs ----------------------------
(***************************************************************************)
(* Proofs about Session, for every number of senders, every set of packets *)
(* and every bound.                                                        *)
(***************************************************************************)
EXTENDS Session, TLAPS

(***************************************************************************)
(* Typing, strengthened by what the local variable buf holds where Push    *)
(* and async_write use it, and by the fact that a crash ends every actor.  *)
(***************************************************************************)
BufHolds ==
    \A a \in Actors : pc[a] \in {"push", "write"} => buf[a] \in Packets

CrashedTogether == Crashed => \A a \in Actors : pc[a] = "crashed"

Typing == TypeOK /\ BufHolds /\ CrashedTogether

\* The initial state is well typed.
LEMMA TypingInit == Init => Typing
<1> SUFFICES ASSUME Init PROVE Typing
  OBVIOUS
<1>1. /\ pc \in [Actors -> SenderLabels \cup StrandLabels]
      /\ \A a \in Senders : pc[a] = "idle"
      /\ pc[Strand] = "accepting"
  BY SessionAssumption DEF Init, Actors, SenderLabels, StrandLabels
<1>2. BufHolds
  BY <1>1 DEF BufHolds, Actors
<1>3. buf \in [Actors -> Packets \cup {NoPacket}]
  BY DEF Init
<1>4. /\ sending \in BOOLEAN /\ closed \in BOOLEAN /\ registered \in BOOLEAN
      /\ reading \in BOOLEAN /\ nullopt \in BOOLEAN
  BY Zenon DEF Init
<1>5. /\ out_queue \in Seq(Packets) /\ writes \in Seq(Packets)
      /\ pushed \in Seq(Packets) /\ delivered \in Seq(Packets)
      /\ lost \in Seq(Packets)
      /\ in_queue \in Seq({"CreatePlayer", "Input", "RemovePlayer"})
  BY DEF Init
<1>6. /\ state \in State
      /\ \A a \in Senders : pc[a] \in SenderLabels
      /\ pc[Strand] \in StrandLabels
  BY <1>1 DEF Init, State, SenderLabels, StrandLabels
<1> QED
  BY <1>1, <1>2, <1>3, <1>4, <1>5, <1>6
  DEF Typing, TypeOK, CrashedTogether, Crashed

\* Every step of every actor keeps the session well typed.
LEMMA TypingNext == Typing /\ [Next]_vars => Typing'
<1> SUFFICES ASSUME Typing, [Next]_vars PROVE Typing'
  OBVIOUS
<1> USE SessionAssumption
    DEF Typing, TypeOK, BufHolds, CrashedTogether, Crashed, Actors, State,
        SenderLabels, StrandLabels, SendLabels, Goto, conn, wire
<1>1. CASE AcceptOk
  BY <1>1 DEF AcceptOk
<1>2. CASE AcceptErr
  BY <1>2 DEF AcceptErr
<1>3. CASE AddSession
  BY <1>3 DEF AddSession
<1>4. CASE PushCreate
  BY <1>4 DEF PushCreate
<1>5. CASE ReadOk
  BY <1>5 DEF ReadOk
<1>6. CASE ReadErr
  BY <1>6 DEF ReadErr
<1>7. CASE Close
  BY <1>7 DEF Close
<1>8. CASE CloseSession
  <2>1. in_queue' \in Seq({"CreatePlayer", "Input", "RemovePlayer"})
    BY <1>8 DEF CloseSession
  <2> QED
    BY <1>8, <2>1 DEF CloseSession
<1>9. CASE SetDisconnected
  BY <1>9 DEF SetDisconnected
<1>10. ASSUME NEW a \in Senders, NEW p \in Packets, Lookup(a, p)
       PROVE  Typing'
  BY <1>10 DEF Lookup
<1>11. ASSUME NEW a \in Senders, Push(a)
       PROVE  Typing'
  BY <1>11 DEF Push
<1>12. ASSUME NEW a \in Actors, SendIsConnected(a)
       PROVE  Typing'
  BY <1>12 DEF SendIsConnected
<1>13. ASSUME NEW a \in Actors, SendEmpty(a)
       PROVE  Typing'
  BY <1>13 DEF SendEmpty
<1>14. ASSUME NEW a \in Actors, SendStart(a)
       PROVE  Typing'
  BY <1>14 DEF SendStart
<1>15. ASSUME NEW a \in Actors, SendTryPop(a)
       PROVE  Typing'
  <2>1. CASE out_queue # << >>
    <3>1. Head(out_queue) \in Packets /\ Tail(out_queue) \in Seq(Packets)
      BY <2>1
    <3>2. /\ buf' = [buf EXCEPT ![a] = Head(out_queue)]
          /\ out_queue' = Tail(out_queue)
          /\ pc' = [pc EXCEPT ![a] = "write"]
          /\ pc[Strand] # "crashed"
          /\ UNCHANGED <<conn, sending, nullopt, wire, pushed>>
      BY <1>15, <2>1 DEF SendTryPop
    <3>3. BufHolds' /\ CrashedTogether'
      BY <3>1, <3>2
    <3> QED
      BY <3>1, <3>2, <3>3
  <2>2. CASE out_queue = << >>
    BY <1>15, <2>2 DEF SendTryPop
  <2> QED
    BY <2>1, <2>2
<1>16. ASSUME NEW a \in Actors, SendWrite(a)
       PROVE  Typing'
  BY <1>16 DEF SendWrite
<1>17. ASSUME NEW a \in Senders, UseAfterFree(a)
       PROVE  Typing'
  BY <1>17 DEF UseAfterFree
<1>18. CASE WriteOk
  BY <1>18 DEF WriteOk
<1>19. CASE WriteErr
  BY <1>19 DEF WriteErr
<1>20. CASE ClearSending
  BY <1>20 DEF ClearSending
<1>21. CASE Recheck
  BY <1>21 DEF Recheck
<1>22. CASE UNCHANGED vars
  BY <1>22 DEF vars
<1> QED
  BY <1>1, <1>2, <1>3, <1>4, <1>5, <1>6, <1>7, <1>8, <1>9, <1>10, <1>11,
     <1>12, <1>13, <1>14, <1>15, <1>16, <1>17, <1>18, <1>19, <1>20, <1>21,
     <1>22
  DEF Next, Completion, StrandStep, SenderStep, Send

\* The type invariant of the session holds in every reachable state.
THEOREM TypeCorrect == Spec => []TypeOK
<1>1. Typing => TypeOK
  BY DEF Typing
<1> QED
  BY TypingInit, TypingNext, <1>1, PTL DEF Spec

-----------------------------------------------------------------------------
(***************************************************************************)
(* The sending_ flag is a token.  Whoever set it holds it until the        *)
(* handler of its write clears it: it is with an actor inside Send, with   *)
(* the outstanding write, with the handler about to clear it, or gone for  *)
(* ever with a failed write, with the nullopt branch or with the process.  *)
(***************************************************************************)
InSend(a) == pc[a] \in {"tryPop", "write"}

TokenFree ==
    ~sending => /\ \A a \in Actors : ~InSend(a)
                /\ writes = << >>
                /\ pc[Strand] # "clear"
                /\ lost = << >>
                /\ ~nullopt

TokenUnique ==
    /\ \A a, b \in Actors : InSend(a) /\ InSend(b) => a = b
    /\ \A a \in Actors : InSend(a) => /\ writes = << >>
                                      /\ pc[Strand] # "clear"
                                      /\ lost = << >>
                                      /\ ~nullopt
    /\ writes # << >> => /\ Len(writes) = 1
                         /\ pc[Strand] # "clear"
                         /\ lost = << >>
                         /\ ~nullopt
    /\ pc[Strand] = "clear" => lost = << >> /\ ~nullopt
    /\ lost # << >> => ~nullopt

Token == TokenFree /\ TokenUnique

(***************************************************************************)
(* Nothing waits unattended.  When the token is taken there is a reason;   *)
(* when it is free and packets wait, somebody is on the way to take it,    *)
(* unless the connection is closed.                                        *)
(***************************************************************************)
TokenHeld ==
    sending => \/ \E a \in Actors : InSend(a)
               \/ writes # << >>
               \/ pc[Strand] = "clear"
               \/ lost # << >>
               \/ nullopt
               \/ Crashed

Attended ==
    ~sending /\ out_queue # << >> /\ ~closed =>
        \/ \E a \in Actors : pc[a] \in {"isConnected", "empty", "startSending"}
        \/ pc[Strand] = "recheck"
        \/ Crashed

Closing ==
    /\ state = "Disconnected" => closed
    /\ pc[Strand] \in {"closeSession", "setDisconnected"} => closed
    /\ lost # << >> /\ ~closed => pc[Strand] = "close"

Served == TokenHeld /\ Attended /\ Closing

(***************************************************************************)
(* Where the session is between AddSession and CloseSession, against what  *)
(* it has told the world.                                                  *)
(***************************************************************************)
Removed == \E i \in 1 .. Len(in_queue) : in_queue[i] = "RemovePlayer"

Lifecycle ==
    /\ PlayerLifecycle
    /\ pc[Strand] = "accepting" => state = "Connecting"
    /\ pc[Strand] \in {"addSession", "pushCreate"} => state = "Connected"
    /\ pc[Strand] \in {"accepting", "addSession"} =>
          ~registered /\ in_queue = << >>
    /\ pc[Strand] = "pushCreate" => registered /\ in_queue = << >>
    /\ pc[Strand] = "setDisconnected" => ~registered
    /\ registered /\ pc[Strand] # "pushCreate" => in_queue # << >> /\ ~Removed
    /\ ~registered /\ in_queue # << >> => Removed
    /\ state = "Disconnected" => ~registered
    /\ reading => in_queue # << >>

-----------------------------------------------------------------------------
\* The token is never duplicated: the test_and_set of session.cpp:179 hands it
\* out, and only the handler of the holder's write clears it.
LEMMA TokenNext ==
    Typing /\ Token /\ [Next]_vars => Token'
<1> SUFFICES ASSUME Typing, Token, [Next]_vars PROVE Token'
  OBVIOUS
<1> USE SessionAssumption
    DEF Typing, TypeOK, Token, TokenFree, TokenUnique, InSend, Actors, Goto,
        conn, wire
<1>1. CASE AcceptOk
  BY <1>1 DEF AcceptOk
<1>2. CASE AcceptErr
  BY <1>2 DEF AcceptErr
<1>3. CASE AddSession
  BY <1>3 DEF AddSession
<1>4. CASE PushCreate
  BY <1>4 DEF PushCreate
<1>5. CASE ReadOk
  BY <1>5 DEF ReadOk
<1>6. CASE ReadErr
  BY <1>6 DEF ReadErr
<1>7. CASE Close
  BY <1>7 DEF Close
<1>8. CASE CloseSession
  BY <1>8 DEF CloseSession
<1>9. CASE SetDisconnected
  BY <1>9 DEF SetDisconnected
<1>10. ASSUME NEW a \in Senders, NEW p \in Packets, Lookup(a, p)
       PROVE  Token'
  BY <1>10 DEF Lookup
<1>11. ASSUME NEW a \in Senders, Push(a)
       PROVE  Token'
  BY <1>11 DEF Push
<1>12. ASSUME NEW a \in Actors, SendIsConnected(a)
       PROVE  Token'
  BY <1>12 DEF SendIsConnected
<1>13. ASSUME NEW a \in Actors, SendEmpty(a)
       PROVE  Token'
  BY <1>13 DEF SendEmpty
<1>14. ASSUME NEW a \in Actors, SendStart(a)
       PROVE  Token'
  BY <1>14 DEF SendStart
<1>15. ASSUME NEW a \in Actors, SendTryPop(a)
       PROVE  Token'
  <2>1. CASE out_queue # << >>
    <3>1. /\ pc' = [pc EXCEPT ![a] = "write"]
          /\ UNCHANGED <<sending, wire, nullopt>>
      BY <1>15, <2>1 DEF SendTryPop
    <3>2. InSend(a)
      BY <1>15 DEF SendTryPop
    <3> QED
      BY <3>1, <3>2
  <2>2. CASE out_queue = << >>
    <3>1. sending /\ writes = << >> /\ lost = << >> /\ pc[Strand] # "clear"
      BY <1>15 DEF SendTryPop
    <3>2. \A b \in Actors : ~InSend(b)'
      BY <1>15, <2>2 DEF SendTryPop
    <3> QED
      BY <1>15, <2>2, <3>1, <3>2 DEF SendTryPop
  <2> QED
    BY <2>1, <2>2
<1>16. ASSUME NEW a \in Actors, SendWrite(a)
       PROVE  Token'
  BY <1>16 DEF SendWrite
<1>17. ASSUME NEW a \in Senders, UseAfterFree(a)
       PROVE  Token'
  BY <1>17 DEF UseAfterFree
<1>18. CASE WriteOk
  <2>1. sending /\ ~nullopt /\ lost = << >> /\ \A a \in Actors : ~InSend(a)
    BY <1>18 DEF WriteOk
  <2>2. writes' = << >>
    BY <1>18 DEF WriteOk
  <2> QED
    BY <1>18, <2>1, <2>2 DEF WriteOk
<1>19. CASE WriteErr
  BY <1>19 DEF WriteErr
<1>20. CASE ClearSending
  BY <1>20 DEF ClearSending
<1>21. CASE Recheck
  BY <1>21 DEF Recheck
<1>22. CASE UNCHANGED vars
  BY <1>22 DEF vars
<1> QED
  BY <1>1, <1>2, <1>3, <1>4, <1>5, <1>6, <1>7, <1>8, <1>9, <1>10, <1>11,
     <1>12, <1>13, <1>14, <1>15, <1>16, <1>17, <1>18, <1>19, <1>20, <1>21,
     <1>22
  DEF Next, Completion, StrandStep, SenderStep, Send

\* A push extends the pushed packets and the queue alike.
LEMMA SplitPush ==
    ASSUME NEW S, NEW p \in Seq(S), NEW d \in Seq(S), NEW q \in Seq(S),
           NEW h \in Nat, NEW e \in S, Split(p, d, h, q)
    PROVE  Split(Append(p, e), d, h, Append(q, e))
<1> DEFINE pp == Append(p, e)
<1> DEFINE qq == Append(q, e)
<1>1. Len(p) \in Nat /\ Len(q) \in Nat /\ Len(d) \in Nat
  OBVIOUS
<1>2. /\ Len(pp) = Len(p) + 1
      /\ \A i \in 1 .. Len(p) : pp[i] = p[i]
      /\ pp[Len(p) + 1] = e
  OBVIOUS
<1>3. /\ Len(qq) = Len(q) + 1
      /\ \A i \in 1 .. Len(q) : qq[i] = q[i]
      /\ qq[Len(q) + 1] = e
  OBVIOUS
<1> HIDE DEF pp, qq
<1>4. Len(pp) = Len(d) + h + Len(qq)
  BY <1>1, <1>2, <1>3 DEF Split
<1>5. ASSUME NEW i \in 1 .. Len(d)  PROVE d[i] = pp[i]
  BY <1>1, <1>2 DEF Split
<1>6. ASSUME NEW i \in 1 .. Len(qq) PROVE qq[i] = pp[Len(d) + h + i]
  <2>1. CASE i = Len(q) + 1
    <3>1. Len(d) + h + i = Len(p) + 1
      BY <1>1, <2>1 DEF Split
    <3> QED
      BY <1>2, <1>3, <2>1, <3>1
  <2>2. CASE i # Len(q) + 1
    <3>1. i \in 1 .. Len(q)
      BY <1>1, <1>3, <2>2
    <3>2. Len(d) + h + i \in 1 .. Len(p)
      BY <1>1, <3>1 DEF Split
    <3> QED
      BY <1>2, <1>3, <3>1, <3>2 DEF Split
  <2> QED
    BY <2>1, <2>2
<1>8. Split(pp, d, h, qq)
  BY <1>4, <1>5, <1>6 DEF Split
<1> QED
  BY <1>8 DEF pp, qq

\* A pop takes the packet that follows the delivered ones.
LEMMA SplitPop ==
    ASSUME NEW S, NEW p \in Seq(S), NEW d \in Seq(S), NEW q \in Seq(S),
           q # << >>, Split(p, d, 0, q)
    PROVE  /\ Split(p, d, 1, Tail(q))
           /\ Head(q) = p[Len(d) + 1]
<1>1. Len(p) \in Nat /\ Len(q) \in Nat /\ Len(d) \in Nat /\ Len(q) # 0
  OBVIOUS
<1> DEFINE qq == Tail(q)
<1>3. /\ Len(qq) = Len(q) - 1
      /\ \A i \in 1 .. Len(q) - 1 : qq[i] = q[i + 1]
      /\ Head(q) = q[1]
  OBVIOUS
<1> HIDE DEF qq
<1>4. Len(p) = Len(d) + 1 + Len(qq)
  BY <1>1, <1>3 DEF Split
<1>5. ASSUME NEW i \in 1 .. Len(qq) PROVE qq[i] = p[Len(d) + 1 + i]
  <2>1. i \in 1 .. Len(q) - 1 /\ i + 1 \in 1 .. Len(q)
    BY <1>1, <1>3
  <2>2. q[i + 1] = p[Len(d) + 0 + (i + 1)]
    BY <2>1 DEF Split
  <2>3. Len(d) + 0 + (i + 1) = Len(d) + 1 + i
    BY <1>1, <2>1
  <2> QED
    BY <1>3, <2>1, <2>2, <2>3
<1>8. Split(p, d, 1, qq)
  BY <1>4, <1>5 DEF Split
<1>9. q[1] = p[Len(d) + 1]
  <2>1. 1 \in 1 .. Len(q) /\ Len(d) + 0 + 1 = Len(d) + 1
    BY <1>1
  <2> QED
    BY <2>1 DEF Split
<1> QED
  BY <1>8, <1>9, <1>3 DEF qq

\* Delivering the packet in between closes the gap.
LEMMA SplitDeliver ==
    ASSUME NEW S, NEW p \in Seq(S), NEW d \in Seq(S), NEW q \in Seq(S),
           Split(p, d, 1, q), NEW e \in S, e = p[Len(d) + 1]
    PROVE  Split(p, Append(d, e), 0, q)
<1>1. Len(p) \in Nat /\ Len(q) \in Nat /\ Len(d) \in Nat
  OBVIOUS
<1> DEFINE dd == Append(d, e)
<1>2. /\ Len(dd) = Len(d) + 1
      /\ \A i \in 1 .. Len(d) : dd[i] = d[i]
      /\ dd[Len(d) + 1] = e
  OBVIOUS
<1> HIDE DEF dd
<1>3. Len(p) = Len(dd) + 0 + Len(q)
  BY <1>1, <1>2 DEF Split
<1>4. ASSUME NEW i \in 1 .. Len(dd) PROVE dd[i] = p[i]
  <2>1. CASE i \in 1 .. Len(d)
    BY <1>2, <2>1 DEF Split
  <2>2. CASE i = Len(d) + 1
    BY <1>2, <2>2
  <2> QED
    BY <1>1, <1>2, <2>1, <2>2
<1>5. ASSUME NEW i \in 1 .. Len(q) PROVE q[i] = p[Len(dd) + 0 + i]
  BY <1>1, <1>2 DEF Split
<1>8. Split(p, dd, 0, q)
  BY <1>3, <1>4, <1>5 DEF Split
<1> QED
  BY <1>8 DEF dd

\* With one token at most one packet is between out_queue_ and the client, so
\* every step keeps the order.
LEMMA FifoNext ==
    Typing /\ Token /\ FifoDelivery /\ [Next]_vars => FifoDelivery'
<1> SUFFICES ASSUME Typing, Token, FifoDelivery, [Next]_vars PROVE FifoDelivery'
  OBVIOUS
<1> USE SessionAssumption
    DEF Typing, TypeOK, FifoDelivery, NothingHeld, Crashed, Actors, Goto, conn,
        wire
<1>1. CASE AcceptOk
  BY <1>1 DEF AcceptOk
<1>2. CASE AcceptErr
  BY <1>2 DEF AcceptErr
<1>3. CASE AddSession
  BY <1>3 DEF AddSession
<1>4. CASE PushCreate
  BY <1>4 DEF PushCreate
<1>5. CASE ReadOk
  BY <1>5 DEF ReadOk
<1>6. CASE ReadErr
  BY <1>6 DEF ReadErr
<1>7. CASE Close
  BY <1>7 DEF Close
<1>8. CASE CloseSession
  BY <1>8 DEF CloseSession
<1>9. CASE SetDisconnected
  BY <1>9 DEF SetDisconnected
<1>10. ASSUME NEW a \in Senders, NEW p \in Packets, Lookup(a, p)
       PROVE  FifoDelivery'
  BY <1>10 DEF Lookup
<1>11. ASSUME NEW a \in Senders, Push(a)
       PROVE  FifoDelivery'
  <2>1. buf[a] \in Packets /\ pc[Strand] # "crashed"
    BY <1>11 DEF Push, BufHolds, CrashedTogether
  <2>2. \A b \in Actors : pc'[b] = "write" <=> pc[b] = "write"
    BY <1>11 DEF Push
  <2>3. /\ out_queue' = Append(out_queue, buf[a])
        /\ pushed' = Append(pushed, buf[a])
        /\ UNCHANGED <<delivered, lost, writes, buf>>
    BY <1>11 DEF Push
  <2>4. \A h \in {0, 1} : Split(pushed, delivered, h, out_queue)
                             => Split(pushed', delivered, h, out_queue')
    BY <2>1, <2>3, SplitPush
  <2>5. NothingHeld' <=> NothingHeld
    BY <2>2, <2>3
  <2>6. Crashed' <=> Crashed
    BY <1>11 DEF Push
  <2>7. ~NothingHeld => pushed'[Len(delivered) + 1] = pushed[Len(delivered) + 1]
    BY <2>1, <2>3 DEF Split
  <2> HIDE DEF NothingHeld, Crashed
  <2>8. /\ Crashed' => \E h \in {0, 1} :
                          Split(pushed', delivered', h, out_queue')
        /\ NothingHeld' /\ ~Crashed' =>
              Split(pushed', delivered', 0, out_queue')
        /\ ~NothingHeld' => Split(pushed', delivered', 1, out_queue')
    BY <2>3, <2>4, <2>5, <2>6
  <2> QED
    BY <2>2, <2>3, <2>7, <2>8 DEF NothingHeld
<1>12. ASSUME NEW a \in Actors, SendIsConnected(a)
       PROVE  FifoDelivery'
  BY <1>12 DEF SendIsConnected
<1>13. ASSUME NEW a \in Actors, SendEmpty(a)
       PROVE  FifoDelivery'
  BY <1>13 DEF SendEmpty
<1>14. ASSUME NEW a \in Actors, SendStart(a)
       PROVE  FifoDelivery'
  BY <1>14 DEF SendStart
<1>15. ASSUME NEW a \in Actors, SendTryPop(a)
       PROVE  FifoDelivery'
  <2>1. CASE out_queue # << >>
    <3>1. NothingHeld /\ ~Crashed
      BY <1>15 DEF SendTryPop, Token, TokenUnique, InSend, CrashedTogether
    <3>2. /\ out_queue' = Tail(out_queue)
          /\ buf' = [buf EXCEPT ![a] = Head(out_queue)]
          /\ pc' = [pc EXCEPT ![a] = "write"]
          /\ UNCHANGED <<pushed, delivered, lost, writes>>
      BY <1>15, <2>1 DEF SendTryPop
    <3>3. /\ Split(pushed, delivered, 1, Tail(out_queue))
          /\ Head(out_queue) = pushed[Len(delivered) + 1]
      BY <2>1, <3>1, SplitPop
    <3>4. ~NothingHeld' /\ ~Crashed'
      BY <3>1, <3>2
    <3>5. \A b \in Actors : pc'[b] = "write" => b = a
      BY <3>1, <3>2
    <3> QED
      BY <3>1, <3>2, <3>3, <3>4, <3>5
  <2>2. CASE out_queue = << >>
    <3>1. /\ pc' = [pc EXCEPT ![a] = "idle"]
          /\ UNCHANGED <<buf, out_queue, pushed, delivered, lost, writes>>
      BY <1>15, <2>2 DEF SendTryPop
    <3> QED
      BY <1>15, <3>1 DEF SendTryPop
  <2> QED
    BY <2>1, <2>2
<1>16. ASSUME NEW a \in Actors, SendWrite(a)
       PROVE  FifoDelivery'
  <2>1. writes = << >> /\ lost = << >>
    BY <1>16 DEF SendWrite, Token, TokenUnique, InSend
  <2>2. buf[a] \in Packets
    BY <1>16 DEF SendWrite, BufHolds
  <2>3. writes' # << >> /\ writes'[1] = buf[a]
    BY <1>16, <2>1, <2>2 DEF SendWrite
  <2>4. \A b \in Actors : pc'[b] # "write"
    BY <1>16 DEF SendWrite, Token, TokenUnique, InSend
  <2>5. ~NothingHeld /\ ~NothingHeld'
    BY <1>16, <2>3 DEF SendWrite
  <2>6. ~Crashed'
    BY <1>16 DEF SendWrite, CrashedTogether
  <2> QED
    BY <1>16, <2>1, <2>3, <2>4, <2>5, <2>6 DEF SendWrite
<1>17. ASSUME NEW a \in Senders, UseAfterFree(a)
       PROVE  FifoDelivery'
  <2>1. writes = << >> /\ pc[Strand] = "idle"
    BY <1>17 DEF UseAfterFree, Alive
  <2>2. UNCHANGED <<pushed, delivered, out_queue, writes, lost, buf>>
    BY <1>17 DEF UseAfterFree
  <2>3. \A b \in Actors : pc'[b] = "crashed"
    BY <1>17 DEF UseAfterFree
  <2>4. \E h \in {0, 1} : Split(pushed, delivered, h, out_queue)
    BY <2>1
  <2>5. NothingHeld => NothingHeld'
    BY <2>2, <2>3
  <2> QED
    BY <2>1, <2>2, <2>3, <2>4, <2>5
<1>18. CASE WriteOk
  <2>1. /\ \A a \in Actors : pc[a] # "write"
        /\ lost = << >>
        /\ Len(writes) = 1
    BY <1>18 DEF WriteOk, Token, TokenUnique, InSend
  <2>2. \A a \in Actors : pc'[a] # "write"
    BY <1>18, <2>1 DEF WriteOk
  <2>3. writes' = << >> /\ delivered' = Append(delivered, writes[1])
    BY <1>18, <2>1 DEF WriteOk
  <2>4. UNCHANGED <<out_queue, pushed, lost>>
    BY <1>18 DEF WriteOk
  <2>5. writes[1] = pushed[Len(delivered) + 1] /\ writes[1] \in Packets
    BY <1>18, <2>1 DEF WriteOk
  <2>6. Split(pushed, delivered, 1, out_queue)
    BY <1>18 DEF WriteOk
  <2>7. Split(pushed, delivered', 0, out_queue)
    BY <2>3, <2>5, <2>6, SplitDeliver
  <2> QED
    BY <2>1, <2>2, <2>3, <2>4, <2>7
<1>19. CASE WriteErr
  <2>1. /\ \A a \in Actors : pc[a] # "write"
        /\ lost = << >>
        /\ Len(writes) = 1
    BY <1>19 DEF WriteErr, Token, TokenUnique, InSend
  <2>2. /\ \A a \in Actors : pc'[a] # "write"
        /\ pc'[Strand] = "close"
    BY <1>19, <2>1 DEF WriteErr
  <2>3. writes' = << >> /\ lost' = <<writes[1]>>
    BY <1>19, <2>1 DEF WriteErr
  <2>4. ~NothingHeld /\ ~NothingHeld'
    BY <1>19, <2>3 DEF WriteErr
  <2> QED
    BY <1>19, <2>2, <2>3, <2>4 DEF WriteErr
<1>20. CASE ClearSending
  BY <1>20 DEF ClearSending
<1>21. CASE Recheck
  BY <1>21 DEF Recheck
<1>22. CASE UNCHANGED vars
  BY <1>22 DEF vars
<1> QED
  BY <1>1, <1>2, <1>3, <1>4, <1>5, <1>6, <1>7, <1>8, <1>9, <1>10, <1>11,
     <1>12, <1>13, <1>14, <1>15, <1>16, <1>17, <1>18, <1>19, <1>20, <1>21,
     <1>22
  DEF Next, Completion, StrandStep, SenderStep, Send

\* Whoever leaves packets behind leaves somebody to send them.
LEMMA ServedNext ==
    Typing /\ Token /\ Served /\ [Next]_vars => Served'
<1> SUFFICES ASSUME Typing, Token, Served, [Next]_vars PROVE Served'
  OBVIOUS
<1> USE SessionAssumption
    DEF Typing, TypeOK, Served, TokenHeld, Attended, Closing, InSend, Crashed,
        Actors, Goto, conn, wire
<1>1. CASE AcceptOk
  BY <1>1 DEF AcceptOk
<1>2. CASE AcceptErr
  BY <1>2 DEF AcceptErr
<1>3. CASE AddSession
  BY <1>3 DEF AddSession
<1>4. CASE PushCreate
  BY <1>4 DEF PushCreate
<1>5. CASE ReadOk
  BY <1>5 DEF ReadOk
<1>6. CASE ReadErr
  BY <1>6 DEF ReadErr
<1>7. CASE Close
  BY <1>7 DEF Close
<1>8. CASE CloseSession
  BY <1>8 DEF CloseSession
<1>9. CASE SetDisconnected
  BY <1>9 DEF SetDisconnected
<1>10. ASSUME NEW a \in Senders, NEW p \in Packets, Lookup(a, p)
       PROVE  Served'
  BY <1>10 DEF Lookup
<1>11. ASSUME NEW a \in Senders, Push(a)
       PROVE  Served'
  BY <1>11 DEF Push
<1>12. ASSUME NEW a \in Actors, SendIsConnected(a)
       PROVE  Served'
  BY <1>12 DEF SendIsConnected
<1>13. ASSUME NEW a \in Actors, SendEmpty(a)
       PROVE  Served'
  BY <1>13 DEF SendEmpty
<1>14. ASSUME NEW a \in Actors, SendStart(a)
       PROVE  Served'
  BY <1>14 DEF SendStart
<1>15. ASSUME NEW a \in Actors, SendTryPop(a)
       PROVE  Served'
  BY <1>15 DEF SendTryPop
<1>16. ASSUME NEW a \in Actors, SendWrite(a)
       PROVE  Served'
  <2>1. writes' # << >>
    <3>1. Len(writes') = Len(writes) + 1
      BY <1>16 DEF SendWrite
    <3> QED
      BY <3>1
  <2> QED
    BY <1>16, <2>1 DEF SendWrite
<1>17. ASSUME NEW a \in Senders, UseAfterFree(a)
       PROVE  Served'
  BY <1>17 DEF UseAfterFree, Alive, Token, TokenFree
<1>18. CASE WriteOk
  BY <1>18 DEF WriteOk
<1>19. CASE WriteErr
  BY <1>19 DEF WriteErr
<1>20. CASE ClearSending
  BY <1>20 DEF ClearSending
<1>21. CASE Recheck
  BY <1>21 DEF Recheck
<1>22. CASE UNCHANGED vars
  BY <1>22 DEF vars
<1> QED
  BY <1>1, <1>2, <1>3, <1>4, <1>5, <1>6, <1>7, <1>8, <1>9, <1>10, <1>11,
     <1>12, <1>13, <1>14, <1>15, <1>16, <1>17, <1>18, <1>19, <1>20, <1>21,
     <1>22
  DEF Next, Completion, StrandStep, SenderStep, Send

\* CloseSession sends RemovePlayer exactly when it takes the session out of the
\* map, so a second closing is silent.
LEMMA LifecycleNext ==
    Typing /\ Lifecycle /\ [Next]_vars => Lifecycle'
<1> SUFFICES ASSUME Typing, Lifecycle, [Next]_vars PROVE Lifecycle'
  OBVIOUS
<1> USE SessionAssumption
    DEF Typing, TypeOK, Lifecycle, PlayerLifecycle, Removed, Actors, Goto, conn,
        wire
<1>1. CASE AcceptOk
  BY <1>1 DEF AcceptOk
<1>2. CASE AcceptErr
  BY <1>2 DEF AcceptErr
<1>3. CASE AddSession
  BY <1>3 DEF AddSession
<1>4. CASE PushCreate
  <2>1. in_queue' = <<"CreatePlayer">>
    BY <1>4 DEF PushCreate
  <2>2. ~Removed' /\ PlayerLifecycle'
    BY <1>4, <2>1 DEF PushCreate
  <2>3. in_queue' # << >>
    BY <2>1
  <2>4. registered' /\ pc'[Strand] = "idle" /\ state' = "Connected"
    BY <1>4 DEF PushCreate
  <2> QED
    BY <2>2, <2>3, <2>4
<1>5. CASE ReadOk
  BY <1>5 DEF ReadOk
<1>6. CASE ReadErr
  BY <1>6 DEF ReadErr
<1>7. CASE Close
  BY <1>7 DEF Close
<1>8. CASE CloseSession
  <2>1. CASE registered
    <3>1. in_queue' = Append(in_queue, "RemovePlayer")
      BY <1>8, <2>1 DEF CloseSession
    <3>2. in_queue # << >> /\ ~Removed
      BY <1>8, <2>1 DEF CloseSession
    <3>3. /\ Len(in_queue') = Len(in_queue) + 1
          /\ \A i \in 1 .. Len(in_queue) : in_queue'[i] = in_queue[i]
          /\ in_queue'[Len(in_queue) + 1] = "RemovePlayer"
          /\ Len(in_queue) \in Nat \ {0}
      BY <3>1, <3>2
    <3>4. Removed'
      <4>1. Len(in_queue) + 1 \in 1 .. Len(in_queue')
        BY <3>3
      <4> QED
        BY <3>3, <4>1
    <3>5. \A i \in 1 .. Len(in_queue') :
            in_queue'[i] = "CreatePlayer" <=> i = 1
      <4>1. \A i \in 1 .. Len(in_queue') :
              i \in 1 .. Len(in_queue) \/ i = Len(in_queue) + 1
        BY <3>3
      <4>2. ASSUME NEW i \in 1 .. Len(in_queue)
            PROVE  in_queue'[i] = "CreatePlayer" <=> i = 1
        BY <3>3
      <4>3. in_queue'[Len(in_queue) + 1] # "CreatePlayer"
        BY <3>3
      <4> QED
        BY <3>3, <4>1, <4>2, <4>3
    <3>6. \A i \in 1 .. Len(in_queue') :
            in_queue'[i] = "RemovePlayer" => i = Len(in_queue) + 1
      <4>1. \A i \in 1 .. Len(in_queue') :
              i \in 1 .. Len(in_queue) \/ i = Len(in_queue) + 1
        BY <3>3
      <4> QED
        BY <3>2, <3>3, <4>1
    <3>7. PlayerLifecycle'
      BY <3>4, <3>5, <3>6
    <3> QED
      BY <1>8, <3>1, <3>2, <3>4, <3>7 DEF CloseSession
  <2>2. CASE ~registered
    BY <1>8, <2>2 DEF CloseSession
  <2> QED
    BY <2>1, <2>2
<1>9. CASE SetDisconnected
  BY <1>9 DEF SetDisconnected
<1>10. ASSUME NEW a \in Senders, NEW p \in Packets, Lookup(a, p)
       PROVE  Lifecycle'
  BY <1>10 DEF Lookup
<1>11. ASSUME NEW a \in Senders, Push(a)
       PROVE  Lifecycle'
  BY <1>11 DEF Push
<1>12. ASSUME NEW a \in Actors, SendIsConnected(a)
       PROVE  Lifecycle'
  BY <1>12 DEF SendIsConnected
<1>13. ASSUME NEW a \in Actors, SendEmpty(a)
       PROVE  Lifecycle'
  BY <1>13 DEF SendEmpty
<1>14. ASSUME NEW a \in Actors, SendStart(a)
       PROVE  Lifecycle'
  BY <1>14 DEF SendStart
<1>15. ASSUME NEW a \in Actors, SendTryPop(a)
       PROVE  Lifecycle'
  BY <1>15 DEF SendTryPop
<1>16. ASSUME NEW a \in Actors, SendWrite(a)
       PROVE  Lifecycle'
  BY <1>16 DEF SendWrite
<1>17. ASSUME NEW a \in Senders, UseAfterFree(a)
       PROVE  Lifecycle'
  <2>1. pc[Strand] = "idle" /\ pc'[Strand] = "crashed"
    BY <1>17 DEF UseAfterFree, Alive
  <2> QED
    BY <1>17, <2>1 DEF UseAfterFree
<1>18. CASE WriteOk
  BY <1>18 DEF WriteOk
<1>19. CASE WriteErr
  BY <1>19 DEF WriteErr
<1>20. CASE ClearSending
  BY <1>20 DEF ClearSending
<1>21. CASE Recheck
  BY <1>21 DEF Recheck
<1>22. CASE UNCHANGED vars
  BY <1>22 DEF vars
<1> QED
  BY <1>1, <1>2, <1>3, <1>4, <1>5, <1>6, <1>7, <1>8, <1>9, <1>10, <1>11,
     <1>12, <1>13, <1>14, <1>15, <1>16, <1>17, <1>18, <1>19, <1>20, <1>21,
     <1>22
  DEF Next, Completion, StrandStep, SenderStep, Send

-----------------------------------------------------------------------------
(***************************************************************************)
(* The inductive invariant and the theorems.                               *)
(***************************************************************************)
Inv == Typing /\ Token /\ FifoDelivery /\ Served /\ Lifecycle

\* The invariant holds when the session object is created.
LEMMA InvInit == Init => Inv
<1> SUFFICES ASSUME Init PROVE Inv
  OBVIOUS
<1>1. Typing
  BY TypingInit
<1>2. /\ \A a \in Actors : pc[a] \in {"idle", "accepting"}
      /\ pc[Strand] = "accepting"
  BY DEF Init, Actors
<1>3. Token
  BY <1>2 DEF Init, Token, TokenFree, TokenUnique, InSend
<1>4. FifoDelivery
  <2>1. NothingHeld /\ ~Crashed
    BY <1>2 DEF Init, NothingHeld, Crashed
  <2>2. Split(pushed, delivered, 0, out_queue)
    BY DEF Init, Split
  <2> QED
    BY <1>2, <2>1, <2>2 DEF FifoDelivery, NothingHeld
<1>5. Served
  BY <1>2 DEF Init, Served, TokenHeld, Attended, Closing
<1>6. Lifecycle
  BY <1>2 DEF Init, Lifecycle, PlayerLifecycle, Removed
<1> QED
  BY <1>1, <1>3, <1>4, <1>5, <1>6 DEF Inv

\* Every step keeps the invariant.
LEMMA InvNext == Inv /\ [Next]_vars => Inv'
BY TypingNext, TokenNext, FifoNext, ServedNext, LifecycleNext DEF Inv

\* The invariant holds in every reachable state.
THEOREM Invariance == Spec => []Inv
BY InvInit, InvNext, PTL DEF Spec

\* At most one async_write of a session is outstanding or about to start,
\* however many threads run Server::Sender.
THEOREM OneWriteAlways == Spec => []OneWrite
<1>1. Inv => OneWrite
  <2> SUFFICES ASSUME Inv PROVE OneWrite
    OBVIOUS
  <2>1. Len(writes) <= 1
    <3>1. writes = << >> \/ Len(writes) = 1
      BY DEF Inv, Token, TokenUnique
    <3>2. CASE writes = << >>
      BY <3>2
    <3>3. CASE Len(writes) = 1
      BY <3>3
    <3> QED
      BY <3>1, <3>2, <3>3
  <2> QED
    BY <2>1 DEF Inv, Token, TokenUnique, InSend, OneWrite
<1> QED
  BY Invariance, <1>1, PTL

\* A client receives the packets pushed for it in order, none twice and none
\* left out.
THEOREM FifoAlways == Spec => []FifoDelivery
<1>1. Inv => FifoDelivery
  BY DEF Inv
<1> QED
  BY Invariance, <1>1, PTL

\* No packet waits in out_queue_ without a write ahead of it, outside the
\* nullopt branch of Send.
THEOREM NoStrandedAlways == Spec => []NoStrandedPacket
<1>1. Inv => NoStrandedPacket
  <2> SUFFICES ASSUME Inv, \A a \in Actors : pc[a] = "idle",
                      out_queue # << >>, ~closed, ~nullopt
               PROVE  writes # << >>
    BY DEF NoStrandedPacket
  <2>1. pc[Strand] = "idle"
    BY DEF Actors
  <2>2. sending
    BY <2>1 DEF Inv, Served, Attended, Crashed
  <2> QED
    BY <2>1, <2>2 DEF Inv, Served, TokenHeld, Closing, InSend, Crashed
<1> QED
  BY Invariance, <1>1, PTL

\* The world is told of a session by one CreatePlayer, first, and of its end by
\* at most one RemovePlayer, whatever fails while it closes.
THEOREM LifecycleAlways == Spec => []PlayerLifecycle
<1>1. Inv => PlayerLifecycle
  BY DEF Inv, Lifecycle
<1> QED
  BY Invariance, <1>1, PTL

-----------------------------------------------------------------------------
\* Push is Accept, a write without an error is Deliver, one with an error is
\* Break, and every other step leaves the client's view alone.
LEMMA DeliveryStep ==
    Inv /\ [Next]_vars => [Delivery!Next]_(Delivery!vars)
<1> SUFFICES ASSUME Inv, [Next]_vars PROVE [Delivery!Next]_(Delivery!vars)
  OBVIOUS
<1> USE SessionAssumption
    DEF Inv, Delivery!Next, Delivery!Accept, Delivery!Deliver, Delivery!Break,
        Delivery!vars, conn, wire
<1>1. CASE AcceptOk
  BY <1>1 DEF AcceptOk
<1>2. CASE AcceptErr
  BY <1>2 DEF AcceptErr
<1>3. CASE AddSession
  BY <1>3 DEF AddSession
<1>4. CASE PushCreate
  BY <1>4 DEF PushCreate
<1>5. CASE ReadOk
  BY <1>5 DEF ReadOk
<1>6. CASE ReadErr
  BY <1>6 DEF ReadErr
<1>7. CASE Close
  BY <1>7 DEF Close
<1>8. CASE CloseSession
  BY <1>8 DEF CloseSession
<1>9. CASE SetDisconnected
  BY <1>9 DEF SetDisconnected
<1>10. ASSUME NEW a \in Senders, NEW p \in Packets, Lookup(a, p)
       PROVE  [Delivery!Next]_(Delivery!vars)
  BY <1>10 DEF Lookup
<1>11. ASSUME NEW a \in Senders, Push(a)
       PROVE  [Delivery!Next]_(Delivery!vars)
  <2>1. buf[a] \in Packets
    BY <1>11 DEF Push, Typing, BufHolds, Actors
  <2> QED
    BY <1>11, <2>1 DEF Push
<1>12. ASSUME NEW a \in Actors, SendIsConnected(a)
       PROVE  [Delivery!Next]_(Delivery!vars)
  BY <1>12 DEF SendIsConnected
<1>13. ASSUME NEW a \in Actors, SendEmpty(a)
       PROVE  [Delivery!Next]_(Delivery!vars)
  BY <1>13 DEF SendEmpty
<1>14. ASSUME NEW a \in Actors, SendStart(a)
       PROVE  [Delivery!Next]_(Delivery!vars)
  BY <1>14 DEF SendStart
<1>15. ASSUME NEW a \in Actors, SendTryPop(a)
       PROVE  [Delivery!Next]_(Delivery!vars)
  BY <1>15 DEF SendTryPop
<1>16. ASSUME NEW a \in Actors, SendWrite(a)
       PROVE  [Delivery!Next]_(Delivery!vars)
  BY <1>16 DEF SendWrite
<1>17. ASSUME NEW a \in Senders, UseAfterFree(a)
       PROVE  [Delivery!Next]_(Delivery!vars)
  BY <1>17 DEF UseAfterFree
<1>18. CASE WriteOk
  <2>1. /\ lost = << >>
        /\ delivered \in Seq(Packets) /\ out_queue \in Seq(Packets)
        /\ pushed \in Seq(Packets)
    BY <1>18 DEF WriteOk, Token, TokenUnique, Typing, TypeOK
  <2>2. /\ writes[1] = pushed[Len(delivered) + 1]
        /\ Split(pushed, delivered, 1, out_queue)
    BY <1>18 DEF WriteOk, FifoDelivery, NothingHeld
  <2>3. Len(delivered) < Len(pushed)
    BY <2>1, <2>2 DEF Split
  <2>4. Head(writes) = writes[1]
    BY <1>18 DEF WriteOk, Typing, TypeOK
  <2> QED
    BY <1>18, <2>1, <2>2, <2>3, <2>4 DEF WriteOk
<1>19. CASE WriteErr
  <2>1. lost = << >> /\ lost' # << >>
    <3>1. lost = << >> /\ lost \in Seq(Packets) /\ writes \in Seq(Packets)
      BY <1>19 DEF WriteErr, Token, TokenUnique, Typing, TypeOK
    <3>2. Head(writes) \in Packets
      BY <1>19, <3>1 DEF WriteErr
    <3> QED
      BY <1>19, <3>1, <3>2 DEF WriteErr
  <2> QED
    BY <1>19, <2>1 DEF WriteErr
<1>20. CASE ClearSending
  BY <1>20 DEF ClearSending
<1>21. CASE Recheck
  BY <1>21 DEF Recheck
<1>22. CASE UNCHANGED vars
  BY <1>22 DEF vars
<1> HIDE DEF Inv, Delivery!Next, Delivery!Accept, Delivery!Deliver,
             Delivery!Break, Delivery!vars
<1> QED
  BY <1>1, <1>2, <1>3, <1>4, <1>5, <1>6, <1>7, <1>8, <1>9, <1>10, <1>11,
     <1>12, <1>13, <1>14, <1>15, <1>16, <1>17, <1>18, <1>19, <1>20, <1>21,
     <1>22
  DEF Next, Completion, StrandStep, SenderStep, Send, Actors

\* Session implements OrderedDelivery.
THEOREM Refinement == Spec => ImplementsOrderedDelivery
<1>1. Init => Delivery!Init
  BY DEF Init, Delivery!Init
<1>2. Inv /\ [Next]_vars => [Delivery!Next]_(Delivery!vars)
  BY DeliveryStep
<1> QED
  BY Invariance, <1>1, <1>2, PTL
  DEF Spec, ImplementsOrderedDelivery, Delivery!Spec
=============================================================================
