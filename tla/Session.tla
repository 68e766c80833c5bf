------------------------------- MODULE Session -------------------------------
(***************************************************************************)
(* One client session: net/session/session.cpp, the part of                *)
(* net/server/server.cpp that registers and closes it, and                 *)
(* net/socket/ws_socket.cpp.                                               *)
(*                                                                         *)
(* Two kinds of actors run the code.  The completion handlers of the       *)
(* session's asynchronous operations run on its strand, one at a time      *)
(* (actor Strand).  The threads of Server::Sender call PushToSend from     *)
(* outside the strand (actors Senders), so Session::Send runs concurrently *)
(* with itself and with the closing of the session.  Every access to an    *)
(* atomic or to a queue under its mutex is a step of its own.              *)
(*                                                                         *)
(* Beast's asynchronous operations are external: an outstanding operation  *)
(* completes, with or without an error, at any time the strand is free.    *)
(***************************************************************************)
EXTENDS Naturals, Sequences

CONSTANTS
    Senders,      \* the threads that run Server::Sender
    Strand,       \* the session's strand
    Packets,      \* buffers handed to PushToSend
    NoPacket,     \* an empty SendBuffer
    MaxPush,      \* bound: no sender starts a push once this many were made
    MaxInQueue    \* bound: no read completes a packet once this many were
                  \* pushed to the net in_queue

ASSUME SessionAssumption ==
    /\ Strand \notin Senders
    /\ NoPacket \notin Packets
    /\ MaxPush \in Nat
    /\ MaxInQueue \in Nat

Actors == Senders \cup {Strand}

VARIABLES
    state,        \* Session::state_
    sending,      \* Session::sending_
    out_queue,    \* Session::out_queue_
    closed,       \* WSSocket::closed_
    registered,   \* Server::sessions_ holds this session
    in_queue,     \* what this session has pushed to the net in_queue, all of it
    reading,      \* an async_read_some is outstanding
    writes,       \* the buffers of the outstanding async_writes
    pc, buf,      \* where each actor is in the code, and its local buf
    pushed,       \* history: every buffer pushed to out_queue
    delivered,    \* history: every buffer written without an error
    lost,         \* history: every buffer whose write failed
    nullopt       \* TryPop has returned nullopt in Send

conn == <<state, closed, registered, in_queue, reading>>
wire == <<writes, delivered, lost>>
vars == <<state, sending, out_queue, closed, registered, in_queue, reading,
          writes, pc, buf, pushed, delivered, lost, nullopt>>

State == {"Connecting", "Connected", "Disconnecting", "Disconnected"}

\* The labels of Send.
SendLabels == {"isConnected", "empty", "startSending", "tryPop", "write"}

SenderLabels == {"idle", "push", "crashed"} \cup SendLabels

StrandLabels == {"accepting", "idle", "addSession", "pushCreate", "clear",
                 "recheck", "close", "closeSession", "setDisconnected",
                 "crashed"}
                \cup SendLabels

Init ==
    /\ state = "Connecting"
    /\ sending = FALSE
    /\ out_queue = << >>
    /\ closed = FALSE
    /\ registered = FALSE
    /\ in_queue = << >>
    /\ reading = FALSE
    /\ writes = << >>
    /\ pc = [a \in Actors |-> IF a = Strand THEN "accepting" ELSE "idle"]
    /\ buf = [a \in Actors |-> NoPacket]
    /\ pushed = << >>
    /\ delivered = << >>
    /\ lost = << >>
    /\ nullopt = FALSE

\* The process has died of a use of the destroyed session.
Crashed == pc[Strand] = "crashed"

Goto(a, label) == pc' = [pc EXCEPT ![a] = label]

\* The references to the Session: the map entry, the `self` of an outstanding
\* operation and the one of the running handler.  A sender holds none.
Alive ==
    \/ registered
    \/ reading
    \/ writes # << >>
    \/ pc[Strand] # "idle"

-----------------------------------------------------------------------------
(* Accepting the connection and closing it, on the strand.                 *)

\* The handler of Session::Run: the handshake succeeded.
AcceptOk ==
    /\ pc[Strand] = "accepting"
    /\ state' = "Connected"
    /\ Goto(Strand, "addSession")
    /\ UNCHANGED <<sending, out_queue, closed, registered, in_queue, reading,
                   wire, buf, pushed, nullopt>>

\* The handler of Session::Run: the handshake failed.
AcceptErr ==
    /\ pc[Strand] = "accepting"
    /\ state' = "Disconnecting"
    /\ Goto(Strand, "close")
    /\ UNCHANGED <<sending, out_queue, closed, registered, in_queue, reading,
                   wire, buf, pushed, nullopt>>

\* Server::AddSession under sessions_mutex_.
AddSession ==
    /\ pc[Strand] = "addSession"
    /\ registered' = TRUE
    /\ Goto(Strand, "pushCreate")
    /\ UNCHANGED <<state, sending, out_queue, closed, in_queue, reading, wire,
                   buf, pushed, nullopt>>

\* The rest of AddSession, after the mutex is released, and the first
\* ReadPacketHead.
PushCreate ==
    /\ pc[Strand] = "pushCreate"
    /\ in_queue' = Append(in_queue, "CreatePlayer")
    /\ reading' = TRUE
    /\ Goto(Strand, "idle")
    /\ UNCHANGED <<state, sending, out_queue, closed, registered, wire, buf,
                   pushed, nullopt>>

\* A read completes the packet: it is pushed and the next read starts.  A read
\* that leaves the packet incomplete only starts another read (see
\* PacketHandler).  Cancel does not stop a handler that is already queued, so
\* this happens after close() too.
ReadOk ==
    /\ pc[Strand] = "idle"
    /\ reading
    /\ Len(in_queue) < MaxInQueue
    /\ in_queue' = Append(in_queue, "Input")
    /\ UNCHANGED <<state, sending, out_queue, closed, registered, reading,
                   wire, pc, buf, pushed, nullopt>>

ReadErr ==
    /\ pc[Strand] = "idle"
    /\ reading
    /\ reading' = FALSE
    /\ state' = "Disconnecting"
    /\ Goto(Strand, "close")
    /\ UNCHANGED <<sending, out_queue, closed, registered, in_queue, wire,
                   buf, pushed, nullopt>>

\* Mutant of Close: an early return on IsClosed that leaves ProcessState too.
CloseOnlyOnce ==
    /\ pc[Strand] = "close"
    /\ closed' = TRUE
    /\ Goto(Strand, IF closed THEN "idle" ELSE "closeSession")
    /\ UNCHANGED <<state, sending, out_queue, registered, in_queue, reading,
                   wire, buf, pushed, nullopt>>

\* WSSocket::close; cancelling the outstanding operations makes them complete.
Close ==
    /\ pc[Strand] = "close"
    /\ closed' = TRUE
    /\ Goto(Strand, "closeSession")
    /\ UNCHANGED <<state, sending, out_queue, registered, in_queue, reading,
                   wire, buf, pushed, nullopt>>

\* Mutant of CloseSession: RemovePlayer is pushed without looking the id up.
CloseSessionUnchecked ==
    /\ pc[Strand] = "closeSession"
    /\ registered' = FALSE
    /\ in_queue' = Append(in_queue, "RemovePlayer")
    /\ Goto(Strand, "setDisconnected")
    /\ UNCHANGED <<state, sending, out_queue, closed, reading, wire, buf,
                   pushed, nullopt>>

\* Server::CloseSession, under sessions_mutex_ as a whole.
CloseSession ==
    /\ pc[Strand] = "closeSession"
    /\ registered' = FALSE
    /\ in_queue' = IF registered THEN Append(in_queue, "RemovePlayer")
                                 ELSE in_queue
    /\ Goto(Strand, "setDisconnected")
    /\ UNCHANGED <<state, sending, out_queue, closed, reading, wire, buf,
                   pushed, nullopt>>

SetDisconnected ==
    /\ pc[Strand] = "setDisconnected"
    /\ state' = "Disconnected"
    /\ Goto(Strand, "idle")
    /\ UNCHANGED <<sending, out_queue, closed, registered, in_queue, reading,
                   wire, buf, pushed, nullopt>>

-----------------------------------------------------------------------------
(* Sending: PushToSend on a sender's thread, Send on any actor, and the    *)
(* completion of async_write on the strand.                                *)

\* Server::Sender has found the session in sessions_ and calls PushToSend.
Lookup(a, p) ==
    /\ pc[a] = "idle"
    /\ registered
    /\ Len(pushed) < MaxPush
    /\ buf' = [buf EXCEPT ![a] = p]
    /\ Goto(a, "push")
    /\ UNCHANGED <<conn, sending, out_queue, wire, pushed, nullopt>>

Push(a) ==
    /\ pc[a] = "push"
    /\ out_queue' = Append(out_queue, buf[a])
    /\ pushed' = Append(pushed, buf[a])
    /\ Goto(a, "isConnected")
    /\ UNCHANGED <<conn, sending, wire, buf, nullopt>>

SendIsConnected(a) ==
    /\ pc[a] = "isConnected"
    /\ Goto(a, IF state # "Disconnected" THEN "empty" ELSE "idle")
    /\ UNCHANGED <<conn, sending, out_queue, wire, buf, pushed, nullopt>>

SendEmpty(a) ==
    /\ pc[a] = "empty"
    /\ Goto(a, IF out_queue # << >> THEN "startSending" ELSE "idle")
    /\ UNCHANGED <<conn, sending, out_queue, wire, buf, pushed, nullopt>>

\* Mutant of SendStart: the flag is set and its old value ignored.
SendStartUnchecked(a) ==
    /\ pc[a] = "startSending"
    /\ sending' = TRUE
    /\ Goto(a, "tryPop")
    /\ UNCHANGED <<conn, out_queue, wire, buf, pushed, nullopt>>

SendStart(a) ==
    /\ pc[a] = "startSending"
    /\ sending' = TRUE
    /\ Goto(a, IF sending THEN "idle" ELSE "tryPop")
    /\ UNCHANGED <<conn, out_queue, wire, buf, pushed, nullopt>>

\* Mutants of SendTryPop: the nullopt is not checked; a front() without pop().
SendTryPopUnchecked(a) ==
    /\ pc[a] = "tryPop"
    /\ buf' = [buf EXCEPT ![a] = IF out_queue = << >> THEN NoPacket
                                                      ELSE Head(out_queue)]
    /\ out_queue' = IF out_queue = << >> THEN << >> ELSE Tail(out_queue)
    /\ Goto(a, "write")
    /\ UNCHANGED <<conn, sending, wire, pushed, nullopt>>

SendFront(a) ==
    /\ pc[a] = "tryPop"
    /\ out_queue # << >>
    /\ buf' = [buf EXCEPT ![a] = Head(out_queue)]
    /\ Goto(a, "write")
    /\ UNCHANGED <<conn, sending, out_queue, wire, pushed, nullopt>>

SendTryPop(a) ==
    /\ pc[a] = "tryPop"
    /\ \/ /\ out_queue # << >>
          /\ buf' = [buf EXCEPT ![a] = Head(out_queue)]
          /\ out_queue' = Tail(out_queue)
          /\ Goto(a, "write")
          /\ UNCHANGED nullopt
       \/ /\ out_queue = << >>
          /\ nullopt' = TRUE
          /\ Goto(a, "idle")
          /\ UNCHANGED <<buf, out_queue>>
    /\ UNCHANGED <<conn, sending, wire, pushed>>

\* shared_from_this and async_write.
SendWrite(a) ==
    /\ pc[a] = "write"
    /\ Alive
    /\ writes' = Append(writes, buf[a])
    /\ buf' = [buf EXCEPT ![a] = NoPacket]
    /\ Goto(a, "idle")
    /\ UNCHANGED <<conn, sending, out_queue, delivered, lost, pushed, nullopt>>

\* A sender goes on with a session nobody owns any more: freed memory is read,
\* or shared_from_this throws out of the thread.
UseAfterFree(a) ==
    /\ pc[a] # "idle"
    /\ ~Alive
    /\ pc' = [b \in Actors |-> "crashed"]
    /\ UNCHANGED <<conn, sending, out_queue, wire, buf, pushed, nullopt>>

\* The handler of async_write without an error.
WriteOk ==
    /\ pc[Strand] = "idle"
    /\ writes # << >>
    /\ delivered' = Append(delivered, Head(writes))
    /\ writes' = Tail(writes)
    /\ Goto(Strand, "clear")
    /\ UNCHANGED <<conn, sending, out_queue, buf, pushed, lost, nullopt>>

\* Mutant of WriteErr: the error is logged and the next packet is sent.
WriteErrIgnored ==
    /\ pc[Strand] = "idle"
    /\ writes # << >>
    /\ lost' = Append(lost, Head(writes))
    /\ writes' = Tail(writes)
    /\ Goto(Strand, "clear")
    /\ UNCHANGED <<conn, sending, out_queue, delivered, buf, pushed, nullopt>>

\* The handler of async_write with an error: it does not clear sending_.
WriteErr ==
    /\ pc[Strand] = "idle"
    /\ writes # << >>
    /\ lost' = Append(lost, Head(writes))
    /\ writes' = Tail(writes)
    /\ state' = "Disconnecting"
    /\ Goto(Strand, "close")
    /\ UNCHANGED <<sending, out_queue, closed, registered, in_queue, reading,
                   delivered, buf, pushed, nullopt>>

ClearSending ==
    /\ pc[Strand] = "clear"
    /\ sending' = FALSE
    /\ Goto(Strand, "recheck")
    /\ UNCHANGED <<conn, out_queue, wire, buf, pushed, nullopt>>

\* Mutant of Recheck: the handler ends once the flag is clear.
RecheckNothing ==
    /\ pc[Strand] = "recheck"
    /\ Goto(Strand, "idle")
    /\ UNCHANGED <<conn, sending, out_queue, wire, buf, pushed, nullopt>>

Recheck ==
    /\ pc[Strand] = "recheck"
    /\ Goto(Strand, IF out_queue # << >> THEN "isConnected" ELSE "idle")
    /\ UNCHANGED <<conn, sending, out_queue, wire, buf, pushed, nullopt>>

-----------------------------------------------------------------------------

Send(a) ==
    \/ SendIsConnected(a)
    \/ SendEmpty(a)
    \/ SendStart(a)
    \/ SendTryPop(a)
    \/ SendWrite(a)

SenderStep(a) == Push(a) \/ Send(a) \/ UseAfterFree(a)

StrandStep ==
    \/ AddSession \/ PushCreate
    \/ Close \/ CloseSession \/ SetDisconnected
    \/ ClearSending \/ Recheck
    \/ Send(Strand)

Completion == AcceptOk \/ AcceptErr \/ ReadOk \/ ReadErr \/ WriteOk \/ WriteErr

Next ==
    \/ Completion
    \/ StrandStep
    \/ \E a \in Senders : SenderStep(a)
    \/ \E a \in Senders, p \in Packets : Lookup(a, p)

Spec == Init /\ [][Next]_vars

\* Threads that have work go on with it, and the transport completes every
\* write one way or the other.
Fairness ==
    /\ \A a \in Senders : WF_vars(SenderStep(a))
    /\ WF_vars(StrandStep)
    /\ WF_vars(WriteOk \/ WriteErr)

FairSpec == Spec /\ Fairness

-----------------------------------------------------------------------------
(* Properties.                                                             *)

\* Every variable of the session has its type.
TypeOK ==
    /\ state \in State
    /\ sending \in BOOLEAN
    /\ out_queue \in Seq(Packets)
    /\ closed \in BOOLEAN
    /\ registered \in BOOLEAN
    /\ in_queue \in Seq({"CreatePlayer", "Input", "RemovePlayer"})
    /\ reading \in BOOLEAN
    /\ writes \in Seq(Packets)
    /\ pc \in [Actors -> SenderLabels \cup StrandLabels]
    /\ \A a \in Senders : pc[a] \in SenderLabels
    /\ pc[Strand] \in StrandLabels
    /\ buf \in [Actors -> Packets \cup {NoPacket}]
    /\ pushed \in Seq(Packets)
    /\ delivered \in Seq(Packets)
    /\ lost \in Seq(Packets)
    /\ nullopt \in BOOLEAN

\* Beast forbids a second async_write while one is outstanding.  The sending_
\* flag (session.cpp:179, 208) keeps to that whatever the senders and the
\* strand do: at most one write is outstanding, and nobody is about to start
\* one beside it or beside another actor.
OneWrite ==
    /\ Len(writes) <= 1
    /\ \A a \in Actors : pc[a] = "write" => writes = << >>
    /\ \A a, b \in Actors : pc[a] = "write" /\ pc[b] = "write" => a = b

\* p is d, then h packets, then q.
Split(p, d, h, q) ==
    /\ Len(p) = Len(d) + h + Len(q)
    /\ \A i \in 1 .. Len(d) : d[i] = p[i]
    /\ \A i \in 1 .. Len(q) : q[i] = p[Len(d) + h + i]

NothingHeld ==
    /\ \A a \in Actors : pc[a] # "write"
    /\ writes = << >>
    /\ lost = << >>

\* The client has received a prefix of what was pushed, what waits in
\* out_queue_ is a suffix of it, and between the two is at most one packet: it
\* is in Send, in the outstanding write, or was lost with the failed write or
\* the process.  So nothing is duplicated, reordered or skipped however Send
\* interleaves (session.cpp:162-213).
FifoDelivery ==
    LET next == pushed[Len(delivered) + 1]
    IN  /\ Crashed => \E h \in {0, 1} : Split(pushed, delivered, h, out_queue)
        /\ NothingHeld /\ ~Crashed => Split(pushed, delivered, 0, out_queue)
        /\ ~NothingHeld => Split(pushed, delivered, 1, out_queue)
        /\ \A a \in Actors : pc[a] = "write" => buf[a] = next
        /\ writes # << >> => writes[1] = next
        /\ lost # << >> => lost = <<next>>

\* A lost wake-up: when no actor is in the session's code and the connection is
\* not closing, packets waiting in out_queue_ have a write ahead of them whose
\* handler will send them.  The clear of sending_ before the second Empty()
\* check (session.cpp:208-211) is what makes it so.  The one exception is the
\* branch of session.cpp:184, which leaves sending_ set for ever.
NoStrandedPacket ==
    /\ \A a \in Actors : pc[a] = "idle"
    /\ out_queue # << >>
    /\ ~closed
    /\ ~nullopt
    => writes # << >>

\* The server tells the world of this session in order: CreatePlayer first, then
\* at most one RemovePlayer although a failed read and a failed write both close
\* the session (session.cpp:102-103, 202-203), and a session that is Disconnected
\* after it was added has sent its RemovePlayer.  A packet of the client is an
\* "Input" here, whatever its opcode; GameServer tells the opcodes apart.
PlayerLifecycle ==
    /\ \A i \in 1 .. Len(in_queue) : in_queue[i] = "CreatePlayer" <=> i = 1
    /\ \A i, j \in 1 .. Len(in_queue) :
          in_queue[i] = "RemovePlayer" /\ in_queue[j] = "RemovePlayer" => i = j
    /\ state = "Disconnected" /\ in_queue # << >> =>
          \E i \in 1 .. Len(in_queue) : in_queue[i] = "RemovePlayer"

\* The sending side implements ordered delivery up to the first failed write.
Delivery == INSTANCE OrderedDelivery
                WITH sent <- pushed, received <- delivered,
                     broken <- (lost # << >>)

ImplementsOrderedDelivery == Delivery!Spec

\* Waiting packets are drained, unless the connection closes, the process dies
\* or the branch of session.cpp:184 is taken.
Drains ==
    out_queue # << >> ~> (out_queue = << >> \/ closed \/ nullopt \/ Crashed)

\* Once a session is being closed it leaves the server's map and becomes
\* Disconnected, however often reads and writes fail while it closes.
Closes ==
    state = "Disconnecting" ~>
        ((state = "Disconnected" /\ ~registered) \/ Crashed)

\* session.cpp:183 on the nullopt branch of Send: "This check should never
\* pass".
NulloptNeverReturned == ~nullopt
=============================================================================
