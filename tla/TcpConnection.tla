---------------------------- MODULE TcpConnection ----------------------------
(***************************************************************************)
(* One TcpConnection (core/tcpconnection.cpp) on its IO loop, the threads  *)
(* that call send(), sendFile() and shutdown() on it, its TcpServer as far *)
(* as it removes or destroys the connection, and the kernel's socket.      *)
(*                                                                         *)
(* A message is its units <<m, 1>> .. <<m, MsgLen>>, the parts a write()   *)
(* may take one by one.  The loop alternates one epoll_wait, the callbacks *)
(* Channel::handleEvent() makes for what it reported, and one batch of     *)
(* pending functors, as EventLoop does.  User code on the loop thread may  *)
(* run during both of the latter: it stands for the callbacks of this and  *)
(* of other connections and for other functors.  A step of the loop thread *)
(* is a whole handler; the loads and stores of m_state that other threads  *)
(* can separate are steps of their own.                                    *)
(***************************************************************************)
EXTENDS Naturals, Sequences, Functions

CONSTANTS
    Msgs,           \* what is sent with send(), each message once
    Files,          \* what is sent with sendFile(), each file once
    MsgLen,         \* units in a message or file
    LoopThread,     \* the loop's thread
    Users,          \* the other threads
    HighWaterMark,  \* m_highWaterMark, in units
    Ops             \* what the program around the connection does, see AllOps

AllOps == {"loopSend", "loopShutdown", "userSend", "userShutdown",
           "serverDestroys", "peerResets"}

ASSUME ConnAssumption ==
    /\ Msgs \cap Files = {}
    /\ LoopThread \notin Users
    /\ MsgLen \in Nat \ {0}
    /\ HighWaterMark \in Nat
    /\ Ops \subseteq AllOps

VARIABLES
    state,         \* m_state
    events,        \* m_channel's m_events, a subset of {"in", "out"}
    index,         \* m_channel's m_index
    outputBuffer,  \* m_outputBuffer
    wire,          \* the units the kernel has accepted
    fin,           \* shutdownWrite() has been called
    inbox,         \* the socket has unread data
    peerFin,       \* the peer has closed its side
    reset,         \* the peer has reset the connection
    sockError,     \* ... and the error has not been reported yet
    queue,         \* the loop's functors of this connection, batch first
    batch,         \* how many of them belong to the batch being run
    phase,         \* what the loop thread does, see Phases
    revents,       \* the channel callbacks still to make for this poll
    userPc,        \* per user thread: the rest of its call
    accepted,      \* history: per thread, the messages that passed its connected()
    ups, downs,    \* history: how often the connection callback ran
    overtaken,     \* history: what other threads' shutdown() has done, see Overtakes
    paused,        \* history: the last flow control callback was the high water mark's
    removals,      \* closeCallbacks the server has not acted on yet
    server,        \* the TcpServer "holds" or "erased" the connection, or is "gone"
    removed        \* connectDestroyed() has removed the channel

sockVars == <<inbox, peerFin, reset, sockError>>
loopVars == <<queue, batch, phase, revents>>
histVars == <<accepted, ups, downs, overtaken, paused>>
serverVars == <<removals, server>>
chanVars == <<events, index>>
vars == <<state, chanVars, outputBuffer, wire, fin, sockVars, loopVars, userPc,
          histVars, serverVars, removed>>

StateE == {"kDisconnected", "kConnecting", "kConnected", "kDisconnecting"}

(* destroying: inside connectDestroyed(), past its test of connected()     *)
Phases == {"poll", "dispatch", "functors", "destroying"}

(* whileUp: stored kDisconnecting ahead of the functors queued before it;   *)
(* afterDown: stored it over kDisconnected, having tested connected() before *)
Overtakes == {"never", "whileUp", "afterDown"}

Senders == Users \cup {LoopThread}

Units == (Msgs \cup Files) \X (1 .. MsgLen)

Functor(op) == <<op>>
SendFunctor(m) == <<"sendInLoop", m>>
FileFunctor(f, off) == <<"sendFileInLoop", f, off>>

Functors ==
    {Functor(op) : op \in {"connectEstablished", "connectDestroyed",
                           "shutdownInLoop", "writeComplete", "highWaterMark"}}
    \cup {SendFunctor(m) : m \in Msgs}
    \cup {FileFunctor(f, off) : f \in Files, off \in 0 .. MsgLen - 1}

Idle == Functor("idle")
Stored == Functor("setState")

TypeOK ==
    /\ state \in StateE
    /\ events \subseteq {"in", "out"}
    /\ index \in {"kNew", "kAdded", "kDeleted"}
    /\ outputBuffer \in Seq(Units)
    /\ wire \in Seq(Units)
    /\ {fin, inbox, peerFin, reset, sockError, removed} \subseteq BOOLEAN
    /\ server \in {"holds", "erased", "gone"}
    /\ queue \in Seq(Functors)
    /\ batch \in 0 .. Len(queue)
    /\ phase \in Phases
    /\ revents \subseteq {"close", "error", "read", "write"}
    /\ phase \in {"poll", "dispatch"} => batch = 0
    /\ phase # "dispatch" => revents = {}
    /\ userPc \in [Users -> Functors \cup {Idle, Stored}]
    /\ accepted \in [Senders -> Seq(Msgs \cup Files)]
    /\ ups \in 0 .. 1 /\ downs \in Nat /\ removals \in Nat
    /\ overtaken \in Overtakes /\ paused \in BOOLEAN

\* TcpServer::newConnection() has handed the connection to its loop
Init ==
    /\ state = "kConnecting"
    /\ events = {} /\ index = "kNew"
    /\ outputBuffer = <<>> /\ wire = <<>>
    /\ fin = FALSE
    /\ inbox = FALSE /\ peerFin = FALSE /\ reset = FALSE /\ sockError = FALSE
    /\ queue = <<Functor("connectEstablished")>>
    /\ batch = 0 /\ phase = "poll" /\ revents = {}
    /\ userPc = [u \in Users |-> Idle]
    /\ accepted = [s \in Senders |-> <<>>] /\ ups = 0 /\ downs = 0
    /\ overtaken = "never" /\ paused = FALSE
    /\ removals = 0 /\ server = "holds" /\ removed = FALSE

-----------------------------------------------------------------------------
(* Parts of the handlers                                                   *)

connected == state = "kConnected"
isWriting == "out" \in events

\* Channel::update() with new m_events, and EPollPoller::updateChannel()
UpdateChannel(newEvents) ==
    /\ events' = newEvents
    /\ index' = IF index = "kAdded" /\ newEvents = {} THEN "kDeleted" ELSE "kAdded"

\* the last parts of a message, from unit off + 1
Rest(m, off) == [i \in 1 .. MsgLen - off |-> <<m, off + i>>]

SocketDead == fin \/ reset

\* mutant: a queued send() does not look at m_state
NeverGivesUp == FALSE

\* sending on a connection that is down
GivesUp == state = "kDisconnected"

\* mutant: the fast path does not look at the backlog
NeverBusy == FALSE

\* the send channel is busy
Busy == isWriting \/ outputBuffer # <<>>

\* mutant: the mark counts as crossed only beyond it
HighWaterBeyond(oldLen, newLen) ==
    IF oldLen < HighWaterMark /\ newLen > HighWaterMark
    THEN <<Functor("highWaterMark")>> ELSE <<>>

\* the highWaterMarkCallback and writeCompleteCallback are queued
HighWater(oldLen, newLen) ==
    IF oldLen < HighWaterMark /\ newLen >= HighWaterMark
    THEN <<Functor("highWaterMark")>> ELSE <<>>

WriteComplete == <<Functor("writeComplete")>>

\* mutant: the rest is buffered and EPOLLOUT not asked for
AppendSilently(rest) ==
    /\ outputBuffer' = outputBuffer \o rest
    /\ UNCHANGED chanVars

\* the slow path of sendInLoop(): queue the rest behind the backlog
AppendToBuffer(rest) ==
    LET oldLen == Len(outputBuffer) IN
    /\ outputBuffer' = outputBuffer \o rest
    /\ IF isWriting THEN UNCHANGED chanVars ELSE UpdateChannel(events \cup {"out"})

\* sendInLoop(m), the remaining queue being q
SendInLoop(m, q) ==
    \/ /\ GivesUp
       /\ queue' = q
       /\ UNCHANGED <<outputBuffer, chanVars, wire, sockError>>
    \/ /\ ~GivesUp
       /\ Busy
       /\ AppendToBuffer(Rest(m, 0))
       /\ queue' = q \o HighWater(Len(outputBuffer), Len(outputBuffer) + MsgLen)
       /\ UNCHANGED <<wire, sockError>>
    \/ \* write() takes n units; none is EAGAIN
       /\ ~GivesUp
       /\ ~Busy
       /\ ~SocketDead
       /\ \E n \in 0 .. MsgLen :
             /\ wire' = wire \o SubSeq(Rest(m, 0), 1, n)
             /\ IF n = MsgLen
                THEN /\ queue' = q \o WriteComplete
                     /\ UNCHANGED <<outputBuffer, chanVars>>
                ELSE /\ queue' = q \o HighWater(0, MsgLen - n)
                     /\ AppendToBuffer(Rest(m, n))
       /\ UNCHANGED sockError
    \/ \* EPIPE or ECONNRESET: faultError
       /\ ~GivesUp
       /\ ~Busy
       /\ SocketDead
       /\ queue' = q
       /\ sockError' = FALSE
       /\ UNCHANGED <<outputBuffer, chanVars, wire>>

\* mutant: the rest of the file is forgotten
FileRestDropped(f, off, q) == q

\* sendfile() did not take all: the function queues itself for the rest
FileRest(f, off, q) == Append(q, FileFunctor(f, off))

\* sendFileInLoop(f, off): what sendfile() does not take is retried by
\* queueing the function again
SendFileInLoop(f, off, q) ==
    /\ \/ /\ GivesUp
          /\ queue' = q
          /\ UNCHANGED <<wire, sockError>>
       \/ /\ ~GivesUp
          /\ Busy
          /\ queue' = FileRest(f, off, q)
          /\ UNCHANGED <<wire, sockError>>
       \/ /\ ~GivesUp
          /\ ~Busy
          /\ ~SocketDead
          /\ \E n \in 0 .. MsgLen - off :
                /\ wire' = wire \o SubSeq(Rest(f, off), 1, n)
                /\ queue' = IF off + n = MsgLen THEN q \o WriteComplete
                            ELSE FileRest(f, off + n, q)
          /\ UNCHANGED sockError
       \/ /\ ~GivesUp
          /\ ~Busy
          /\ SocketDead
          /\ queue' = q
          /\ sockError' = FALSE
          /\ UNCHANGED wire
    /\ UNCHANGED <<outputBuffer, chanVars>>

ShutdownInLoop == fin' = (fin \/ ~isWriting)

\* mutant: the backlog drains and a pending shutdown() is forgotten
DrainedForgetsShutdown == UNCHANGED fin

\* handleWrite() has emptied m_outputBuffer: a shutdown() that waited for it is
\* completed, the channel having stopped writing
Drained == fin' = (fin \/ state = "kDisconnecting")

\* mutant: no disableAll()
CloseKeepsEvents ==
    /\ state' = "kDisconnected"
    /\ UNCHANGED chanVars
    /\ downs' = downs + 1
    /\ removals' = removals + 1

\* mutant: no closeCallback
CloseTellsNoServer ==
    /\ state' = "kDisconnected"
    /\ UpdateChannel({})
    /\ downs' = downs + 1
    /\ UNCHANGED removals

\* handleClose(): the connection callback reports down, then the server's
\* closeCallback asks the main loop to remove the connection
DoHandleClose ==
    /\ state' = "kDisconnected"
    /\ UpdateChannel({})
    /\ downs' = downs + 1
    /\ removals' = removals + 1

-----------------------------------------------------------------------------
(* One round of the loop: poll, dispatch                                   *)

\* what Channel::handleEventWithGuard() will call for the socket's condition
Ready ==
    LET in  == "in" \in events /\ (inbox \/ peerFin \/ reset)
        hup == reset \/ (fin /\ peerFin)
    IN IF index # "kAdded" THEN {}
       ELSE (IF hup /\ ~in THEN {"close"} ELSE {})
            \cup (IF sockError THEN {"error"} ELSE {})
            \cup (IF in THEN {"read"} ELSE {})
            \cup (IF isWriting THEN {"write"} ELSE {})

Poll(reported) ==
    /\ phase = "poll"
    /\ revents' = reported
    /\ phase' = "dispatch"
    /\ UNCHANGED <<state, chanVars, outputBuffer, wire, fin, sockVars, queue, batch,
                   userPc, histVars, serverVars, removed>>

\* everything that can be reported, the socket being writable
PollReady == Poll(Ready)

\* the socket is not writable, or the loop woke for something else
PollOther == Poll(Ready \ {"write"}) \/ Poll({})

HandleClose ==
    /\ phase = "dispatch"
    /\ "close" \in revents
    /\ revents' = revents \ {"close"}
    /\ DoHandleClose
    /\ UNCHANGED <<outputBuffer, wire, fin, sockVars, queue, batch, phase, userPc,
                   accepted, ups, overtaken, paused, server, removed>>

\* getsockopt(SO_ERROR) clears the socket's error; nothing else happens
HandleError ==
    /\ phase = "dispatch"
    /\ "error" \in revents /\ "close" \notin revents
    /\ revents' = revents \ {"error"}
    /\ sockError' = FALSE
    /\ UNCHANGED <<state, chanVars, outputBuffer, wire, fin, inbox, peerFin, reset,
                   queue, batch, phase, userPc, histVars, serverVars, removed>>

HandleRead ==
    /\ phase = "dispatch"
    /\ "read" \in revents /\ revents \cap {"close", "error"} = {}
    /\ revents' = revents \ {"read"}
    /\ \/ \* n > 0: some or all of the unread data goes to the messageCallback
          /\ inbox
          /\ inbox' \in BOOLEAN
          /\ UNCHANGED <<state, chanVars, sockError, downs, removals>>
       \/ \* n < 0: handleError()
          /\ ~inbox /\ sockError
          /\ sockError' = FALSE
          /\ UNCHANGED <<state, chanVars, inbox, downs, removals>>
       \/ \* n = 0: handleClose()
          /\ ~inbox /\ ~sockError
          /\ DoHandleClose
          /\ UNCHANGED <<inbox, sockError>>
    /\ UNCHANGED <<outputBuffer, wire, fin, peerFin, reset, queue, batch, phase,
                   userPc, accepted, ups, overtaken, paused, server, removed>>

HandleWrite ==
    /\ phase = "dispatch"
    /\ revents = {"write"}
    /\ revents' = {}
    /\ \/ \* no more writing, or writeFd() fails: logged
          /\ ~isWriting \/ SocketDead \/ outputBuffer = <<>>
          /\ sockError' = (sockError /\ ~isWriting)
          /\ UNCHANGED <<outputBuffer, wire, chanVars, queue, fin>>
       \/ /\ isWriting /\ ~SocketDead
          /\ \E n \in 1 .. Len(outputBuffer) :
                /\ wire' = wire \o SubSeq(outputBuffer, 1, n)
                /\ outputBuffer' = SubSeq(outputBuffer, n + 1, Len(outputBuffer))
                /\ IF n < Len(outputBuffer)
                   THEN UNCHANGED <<chanVars, queue, fin>>
                   ELSE /\ UpdateChannel(events \ {"out"})
                        /\ queue' = queue \o WriteComplete
                        /\ Drained
          /\ UNCHANGED sockError
    /\ UNCHANGED <<state, inbox, peerFin, reset, batch, phase, userPc, histVars,
                   serverVars, removed>>

-----------------------------------------------------------------------------
(* One round of the loop: the pending functors                             *)

BeginFunctors ==
    /\ phase = "dispatch"
    /\ revents = {}
    /\ phase' = "functors"
    /\ batch' = Len(queue)
    /\ UNCHANGED <<state, chanVars, outputBuffer, wire, fin, sockVars, queue, revents,
                   userPc, histVars, serverVars, removed>>

\* mutant: the round ends before the batch does
EndFunctorsEarly ==
    /\ phase = "functors"
    /\ phase' = "poll"
    /\ UNCHANGED <<state, chanVars, outputBuffer, wire, fin, sockVars, queue, batch,
                   revents, userPc, histVars, serverVars, removed>>

EndFunctors ==
    /\ phase = "functors"
    /\ batch = 0
    /\ phase' = "poll"
    /\ UNCHANGED <<state, chanVars, outputBuffer, wire, fin, sockVars, queue, batch,
                   revents, userPc, histVars, serverVars, removed>>

\* the functor at the head of the batch is of kind op
Starts(op) ==
    /\ phase = "functors"
    /\ batch > 0
    /\ Head(queue)[1] = op
    /\ batch' = batch - 1

ConnectEstablished ==
    /\ Starts("connectEstablished")
    /\ queue' = Tail(queue)
    /\ state' = "kConnected"
    /\ UpdateChannel(events \cup {"in"})
    /\ ups' = ups + 1
    /\ UNCHANGED <<outputBuffer, wire, fin, sockVars, phase, revents, userPc,
                   accepted, downs, overtaken, paused, serverVars, removed>>

RunSend ==
    /\ Starts("sendInLoop")
    /\ SendInLoop(Head(queue)[2], Tail(queue))
    /\ UNCHANGED <<state, fin, inbox, peerFin, reset, phase, revents, userPc,
                   histVars, serverVars, removed>>

RunSendFile ==
    /\ Starts("sendFileInLoop")
    /\ SendFileInLoop(Head(queue)[2], Head(queue)[3], Tail(queue))
    /\ UNCHANGED <<state, fin, inbox, peerFin, reset, phase, revents, userPc,
                   histVars, serverVars, removed>>

RunShutdown ==
    /\ Starts("shutdownInLoop")
    /\ queue' = Tail(queue)
    /\ ShutdownInLoop
    /\ UNCHANGED <<state, chanVars, outputBuffer, wire, sockVars, phase, revents,
                   userPc, histVars, serverVars, removed>>

\* the user's callback for flow control, in which a producer pauses or goes on
RunFlowCallback ==
    /\ \/ Starts("highWaterMark") /\ paused' = TRUE
       \/ Starts("writeComplete") /\ paused' = FALSE
    /\ queue' = Tail(queue)
    /\ UNCHANGED <<state, chanVars, outputBuffer, wire, fin, sockVars, phase, revents,
                   userPc, accepted, ups, downs, overtaken, serverVars, removed>>

\* Channel::remove() and EPollPoller::removeChannel()
RemoveChannel == index' = "kNew" /\ removed' = TRUE

\* mutant: connectDestroyed() only removes the channel
DestroyedSilently ==
    /\ Starts("connectDestroyed")
    /\ queue' = Tail(queue)
    /\ RemoveChannel
    /\ UNCHANGED <<state, events, outputBuffer, wire, fin, sockVars, phase, revents,
                   userPc, histVars, serverVars>>

ConnectDestroyed ==
    /\ Starts("connectDestroyed")
    /\ queue' = Tail(queue)
    /\ IF connected
       THEN phase' = "destroying" /\ UNCHANGED <<index, removed>>
       ELSE RemoveChannel /\ UNCHANGED phase
    /\ UNCHANGED <<state, events, outputBuffer, wire, fin, sockVars, revents, userPc,
                   histVars, serverVars>>

\* its branch for a connection that was still up
CloseInDestroyed ==
    /\ phase = "destroying"
    /\ phase' = "functors"
    /\ state' = "kDisconnected"
    /\ events' = {}
    /\ downs' = downs + 1
    /\ RemoveChannel
    /\ UNCHANGED <<outputBuffer, wire, fin, sockVars, queue, batch, revents, userPc,
                   accepted, ups, overtaken, paused, serverVars>>

-----------------------------------------------------------------------------
(* User code.  It has the connection from its connection callback on.      *)

\* mutant: send() and shutdown() do not test connected()
LoopUserCodeAlways == ups = 1 /\ phase \in {"dispatch", "functors"}

LoopUserCode == ups = 1 /\ phase \in {"dispatch", "functors"} /\ connected

Accept(thread, m) ==
    /\ \A s \in Senders : m \notin Range(accepted[s])
    /\ accepted' = [accepted EXCEPT ![thread] = Append(@, m)]

LoopSend(m) ==
    /\ "loopSend" \in Ops
    /\ LoopUserCode
    /\ Accept(LoopThread, m)
    /\ IF m \in Files THEN SendFileInLoop(m, 0, queue) ELSE SendInLoop(m, queue)
    /\ UNCHANGED <<state, fin, inbox, peerFin, reset, batch, phase, revents, userPc,
                   ups, downs, overtaken, paused, serverVars, removed>>

LoopShutdown ==
    /\ "loopShutdown" \in Ops
    /\ LoopUserCode
    /\ state' = "kDisconnecting"
    /\ ShutdownInLoop
    /\ UNCHANGED <<chanVars, outputBuffer, wire, sockVars, loopVars, userPc, histVars,
                   serverVars, removed>>

\* send() by another thread: connected() holds ...
UserSend(u, m) ==
    /\ "userSend" \in Ops
    /\ ups = 1 /\ userPc[u] = Idle /\ connected
    /\ Accept(u, m)
    /\ userPc' = [userPc EXCEPT ![u] =
                    IF m \in Files THEN FileFunctor(m, 0) ELSE SendFunctor(m)]
    /\ UNCHANGED <<state, chanVars, outputBuffer, wire, fin, sockVars, loopVars,
                   ups, downs, overtaken, paused, serverVars, removed>>

\* shutdown() by another thread: connected() holds ...
UserShutdown(u) ==
    /\ "userShutdown" \in Ops
    /\ ups = 1 /\ userPc[u] = Idle /\ connected
    /\ userPc' = [userPc EXCEPT ![u] = Stored]
    /\ UNCHANGED <<state, chanVars, outputBuffer, wire, fin, sockVars, loopVars,
                   histVars, serverVars, removed>>

\* ... then setState(kDisconnecting) ...
UserSetState(u) ==
    /\ userPc[u] = Stored
    /\ state' = "kDisconnecting"
    /\ userPc' = [userPc EXCEPT ![u] = Functor("shutdownInLoop")]
    /\ overtaken' = IF state = "kDisconnected" \/ overtaken = "afterDown"
                    THEN "afterDown" ELSE "whileUp"
    /\ UNCHANGED <<chanVars, outputBuffer, wire, fin, sockVars, loopVars, accepted, ups,
                   downs, paused, serverVars, removed>>

\* ... and runInLoop() queues the rest of the call
UserQueue(u) ==
    /\ userPc[u] \notin {Idle, Stored}
    /\ queue' = Append(queue, userPc[u])
    /\ userPc' = [userPc EXCEPT ![u] = Idle]
    /\ UNCHANGED <<state, chanVars, outputBuffer, wire, fin, sockVars, batch, phase,
                   revents, histVars, serverVars, removed>>

-----------------------------------------------------------------------------
(* The server                                                              *)

QueueConnectDestroyed ==
    /\ queue' = Append(queue, Functor("connectDestroyed"))
    /\ UNCHANGED <<state, chanVars, outputBuffer, wire, fin, sockVars, batch, phase,
                   revents, userPc, histVars, removed>>

\* removeConnectionInLoop() on the main loop
ServerRemoves ==
    /\ server # "gone"
    /\ removals > 0
    /\ removals' = removals - 1
    /\ server' = "erased"
    /\ QueueConnectDestroyed

\* ~TcpServer(), on another thread, of a server that still has the connection
ServerDestroys ==
    /\ "serverDestroys" \in Ops
    /\ server = "holds"
    /\ server' = "gone"
    /\ QueueConnectDestroyed
    /\ UNCHANGED removals

-----------------------------------------------------------------------------
(* The peer                                                                *)

PeerSends ==
    /\ ~peerFin /\ ~reset
    /\ inbox' = TRUE
    /\ UNCHANGED <<state, chanVars, outputBuffer, wire, fin, peerFin, reset, sockError,
                   loopVars, userPc, histVars, serverVars, removed>>

PeerCloses ==
    /\ ~peerFin /\ ~reset
    /\ peerFin' = TRUE
    /\ UNCHANGED <<state, chanVars, outputBuffer, wire, fin, inbox, reset, sockError,
                   loopVars, userPc, histVars, serverVars, removed>>

PeerResets ==
    /\ "peerResets" \in Ops
    /\ ~reset
    /\ reset' = TRUE
    /\ sockError' = TRUE
    /\ UNCHANGED <<state, chanVars, outputBuffer, wire, fin, inbox, peerFin, loopVars,
                   userPc, histVars, serverVars, removed>>

-----------------------------------------------------------------------------
RunFunctor ==
    \/ ConnectEstablished \/ RunSend \/ RunSendFile \/ RunShutdown
    \/ RunFlowCallback \/ ConnectDestroyed \/ CloseInDestroyed

Dispatch == HandleClose \/ HandleError \/ HandleRead \/ HandleWrite

UserStep(u) ==
    \/ \E m \in Msgs \cup Files : UserSend(u, m)
    \/ UserShutdown(u) \/ UserSetState(u) \/ UserQueue(u)

Next ==
    \/ PollReady \/ PollOther \/ Dispatch \/ BeginFunctors \/ RunFunctor \/ EndFunctors
    \/ \E m \in Msgs \cup Files : LoopSend(m)
    \/ LoopShutdown
    \/ \E u \in Users : UserStep(u)
    \/ ServerRemoves \/ ServerDestroys
    \/ PeerSends \/ PeerCloses \/ PeerResets

Spec == Init /\ [][Next]_vars

(* The loop thread keeps going round and epoll, being level triggered, ends *)
(* up reporting what stays ready (the peer keeps reading, so the socket is  *)
(* writable again and again); unread data is finite; sendfile() makes some  *)
(* progress when retried; a call begun by a thread is finished and the main *)
(* loop does what it was asked.                                             *)
Fairness ==
    /\ WF_vars(Dispatch \/ BeginFunctors \/ RunFunctor \/ EndFunctors)
    /\ SF_vars(PollReady)
    /\ SF_vars(HandleRead /\ ~inbox')
    /\ SF_vars(RunSendFile /\ wire' # wire)
    /\ \A u \in Users : WF_vars(UserSetState(u) \/ UserQueue(u))
    /\ WF_vars(ServerRemoves)

FairSpec == Spec /\ Fairness

-----------------------------------------------------------------------------
(* Safety                                                                  *)

\* A connection implements MessageStream: through partial writes, the output buffer,
\* the fast path and the queued calls, messages reach the stream whole and each
\* thread's in its order, and the FIN of an open connection cuts off no backlog and
\* nothing the loop thread itself has sent.  (Files enter it in parts and are exempt.)
Promise == INSTANCE MessageStream WITH
    sent <- accepted,
    stream <- wire \o outputBuffer,
    written <- Len(wire),
    open <- downs = 0,
    broken <- reset

ImplementsStream == Promise!Spec

\* While the connection is up, EPOLLOUT is asked for exactly when there is a
\* backlog: data never waits in m_outputBuffer unobserved, and an empty buffer
\* never keeps the loop spinning.
WritingIffBacklog ==
    index = "kAdded" /\ downs = 0 => (isWriting <=> outputBuffer # <<>>)

\* "Data that had entered the sending flow before is still sent, only then
\* shutdownWrite() sends the FIN" (tcpconnection.h:77, tcpconnection.cpp:198):
\* when the FIN goes out on a connection that is not closed or reset, every
\* accepted message has been written.
FinAfterAllData ==
    fin /\ ~reset /\ downs = 0 =>
        \A s \in Senders : \A m \in Range(accepted[s]) : <<m, MsgLen>> \in Range(wire)

\* kDisconnected is final ("finally kDisconnected", tcpconnection.cpp:62): no call
\* of send() or shutdown() revives the connection, but a shutdown() by another thread
\* whose test of connected() the close overtook.
DisconnectedIsFinal ==
    [][state = "kDisconnected" =>
        state' = "kDisconnected" \/ overtaken' = "afterDown"]_vars

\* The connection callback reports down at most once, and so is the server
\* asked to remove the connection (tcpconnection_test.cpp:126).
DownAtMostOnce == downs <= 1 /\ removals <= 1

\* A connection that another thread's shutdown() has revived is the only one that can go
\* down twice: stale events and connectDestroyed() report nothing that handleClose() has.
DownOnceUnlessRevived == overtaken # "afterDown" => DownAtMostOnce

\* Back pressure neither stalls nor leaks: the two callbacks are queued and run late,
\* and still a producer that pauses in one and goes on in the other is not left paused
\* on an empty buffer, nor going on with a full one (tcpconnection.cpp:140, 246).
FlowControlled ==
    index = "kAdded" /\ downs = 0 =>
        /\ paused /\ outputBuffer = <<>> => Functor("writeComplete") \in Range(queue)
        /\ ~paused /\ Len(outputBuffer) >= HighWaterMark =>
               Functor("highWaterMark") \in Range(queue)

\* connectDestroyed() makes up for the handleClose() that did not happen, and repeats
\* none that did: a destroyed connection that was not half closed, nor revived, has been
\* reported down, once (the callback "tells the user to release the session",
\* tcpconnection.h:129).
DestroyedMakesUp ==
    removed /\ ups = 1 /\ state # "kDisconnecting" /\ overtaken # "afterDown" =>
        downs = 1 /\ state = "kDisconnected"

\* Once connectDestroyed() has taken the channel out of the poller
\* (tcpconnection.cpp:95) no queued call of send() puts it back: the poller would
\* keep the Channel of a connection that is freed when that call returns.  Exempt are
\* connections that another thread shuts down.
RemovedStaysOut == removed /\ overtaken = "never" => index # "kAdded"

-----------------------------------------------------------------------------
(* Liveness                                                                *)

\* A shutdown completes: the backlog drains and the FIN is sent, unless the
\* connection closes or breaks first.
ShutdownCompletes == state = "kDisconnecting" ~> fin \/ reset \/ downs > 0

\* A file is sent to its end although sendFileInLoop() watches no EPOLLOUT and
\* only queues itself again, unless the connection is shut down, closes or breaks.
FileDelivered ==
    \A f \in Files, s \in Senders :
        f \in Range(accepted[s]) ~>
            <<f, MsgLen>> \in Range(wire) \/ fin \/ reset \/ downs > 0

\* Once the peer has closed or reset an established connection, the user is
\* told and the connection is destroyed.
CloseCompletes == (peerFin \/ reset) /\ ups = 1 ~> removed /\ downs > 0
=============================================================================
