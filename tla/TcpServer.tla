------------------------------ MODULE TcpServer ------------------------------
(***************************************************************************)
(* A TcpServer (core/tcpserver.cpp) with its Acceptor and its              *)
(* EventLoopThreadPool: the main loop that accepts, the loops that the     *)
(* connections are dealt to, and what becomes of all of them when the      *)
(* server dies.                                                            *)
(*                                                                         *)
(* Loops are those of module EventLoop: rounds of dispatching events and   *)
(* running one batch of functors, whose vector, and what is bound in it,   *)
(* lives until the round ends.  Threads start and end as in module         *)
(* EventLoopThread.  A connection is what the server sees of module        *)
(* TcpConnection: established, closed by its peer, destroyed.              *)
(***************************************************************************)
EXTENDS Integers, Sequences, FiniteSets, Functions

CONSTANTS
    Conns,       \* the clients, each of which connects at most once
    MaxThreads,  \* the most that is given to setThreadNum()
    NoConn       \* no connection

ASSUME ServerAssumption ==
    /\ IsFiniteSet(Conns) /\ NoConn \notin Conns
    /\ MaxThreads \in Nat

Main == 0
Subs == 1 .. MaxThreads
Loops == {Main} \cup Subs
NoLoop == -1

VARIABLES
    server,       \* what the main thread does with the TcpServer, see ServerStates
    subLoops,     \* m_subLoops.size()
    next,         \* m_next
    joined,       \* the threads that ~EventLoopThreadPool() has joined
    connections,  \* the keys of m_connections
    backlog,      \* clients the kernel has not handed out yet
    hungUp,       \* clients that have closed
    limit,        \* the descriptors the process has left for connections
    loopOf,       \* per connection: m_loop
    state,        \* ... m_state
    registered,   \* connections whose Channel is in their loop's poller
    destroys,     \* history: how often connectDestroyed() has run
    pc,           \* per loop: what its thread does, see Pcs
    quit,         \* ... m_quit
    queue,        \* ... m_pendingFunctors
    functors,     \* ... the batch, of which
    ran,          \* ... the first ones are done
    closing       \* ... the connection in handleClose(), before its closeCallback

ServerStates == {"new", "serving", "clearing", "quitting", "joining", "gone"}

(* created: loop() not called; published: ... on the thread of a pool;     *)
(* left: loop() has returned; exited: the EventLoop is destroyed           *)
Pcs == {"none", "created", "published", "while", "dispatch", "functors", "left",
        "exited"}

poolVars == <<server, subLoops, joined>>
mapVars == <<next, connections, loopOf>>
clientVars == <<backlog, hungUp, limit>>
connVars == <<state, registered, destroys>>
loopVars == <<pc, quit, functors, ran>>
vars == <<poolVars, mapVars, clientVars, connVars, loopVars, queue, closing>>

Functor(op, c) == <<op, c>>

Functors ==
    {"connectEstablished", "connectDestroyed", "removeConnectionInLoop"} \X Conns

TypeOK ==
    /\ server \in ServerStates
    /\ subLoops \in 0 .. MaxThreads
    /\ next \in 0 .. MaxThreads /\ (subLoops > 0 => next < subLoops)
    /\ joined \in 0 .. subLoops
    /\ backlog \cap connections = {}
    /\ limit \in 1 .. Cardinality(Conns)
    /\ connections \cup backlog \cup hungUp \cup registered \subseteq Conns
    /\ loopOf \in [Conns -> {NoLoop, Main} \cup 1 .. subLoops]
    /\ state \in [Conns -> {"kConnecting", "kConnected", "kDisconnected"}]
    /\ destroys \in [Conns -> Nat]
    /\ pc \in [Loops -> Pcs]
    /\ quit \in [Loops -> BOOLEAN]
    /\ queue \in [Loops -> Seq(Functors)]
    /\ functors \in [Loops -> Seq(Functors)]
    /\ ran \in [Loops -> Nat]
    /\ \A l \in Loops : ran[l] <= Len(functors[l])
    /\ closing \in [Loops -> Conns \cup {NoConn}]

\* The main EventLoop and the TcpServer have been constructed
Init ==
    /\ server = "new" /\ subLoops = 0 /\ next = 0 /\ joined = 0
    /\ connections = {} /\ backlog = {} /\ hungUp = {}
    /\ limit \in 1 .. Cardinality(Conns)
    /\ loopOf = [c \in Conns |-> NoLoop]
    /\ state = [c \in Conns |-> "kConnecting"]
    /\ registered = {}
    /\ destroys = [c \in Conns |-> 0]
    /\ pc = [l \in Loops |-> IF l = Main THEN "created" ELSE "none"]
    /\ quit = [l \in Loops |-> FALSE]
    /\ queue = [l \in Loops |-> <<>>]
    /\ functors = [l \in Loops |-> <<>>]
    /\ ran = [l \in Loops |-> 0]
    /\ closing = [l \in Loops |-> NoConn]

-----------------------------------------------------------------------------
(* What is run on a connection, on the thread of its loop                  *)

connectEstablished(c) ==
    /\ state' = [state EXCEPT ![c] = "kConnected"]
    /\ registered' = registered \cup {c}
    /\ UNCHANGED destroys

connectDestroyed(c) ==
    /\ state' = [state EXCEPT ![c] = IF @ = "kConnected" THEN "kDisconnected" ELSE @]
    /\ registered' = registered \ {c}
    /\ destroys' = [destroys EXCEPT ![c] = @ + 1]

Enqueue(l, f) == queue' = [queue EXCEPT ![l] = Append(@, f)]

\* the thread of loop l executes user and library code, and is not inside
\* ~TcpServer()
Free(l) == l = Main => server \notin {"clearing", "quitting", "joining"}

Dispatching(l) == Free(l) /\ pc[l] = "dispatch" /\ closing[l] = NoConn

\* between two functors of the batch, or before one that is the user's own
BetweenFunctors(l) == Free(l) /\ pc[l] = "functors"

-----------------------------------------------------------------------------
(* The rounds of a loop                                                    *)

\* loop() is called: m_quit is reset, whatever it was
EnterLoop(l) ==
    /\ pc[l] \in {"created", "published"}
    /\ Free(l)
    /\ pc' = [pc EXCEPT ![l] = "while"]
    /\ quit' = [quit EXCEPT ![l] = FALSE]
    /\ UNCHANGED <<poolVars, mapVars, clientVars, connVars, queue, functors, ran, closing>>

TestQuit(l) ==
    /\ pc[l] = "while"
    /\ pc' = [pc EXCEPT ![l] = IF quit[l] THEN "left" ELSE "dispatch"]
    /\ UNCHANGED <<poolVars, mapVars, clientVars, connVars, quit, queue, functors, ran,
                   closing>>

BeginFunctors(l) ==
    /\ Dispatching(l)
    /\ pc' = [pc EXCEPT ![l] = "functors"]
    /\ functors' = [functors EXCEPT ![l] = queue[l]]
    /\ queue' = [queue EXCEPT ![l] = <<>>]
    /\ UNCHANGED <<poolVars, mapVars, clientVars, connVars, quit, ran, closing>>

\* the batch goes out of scope, and with it the connections bound in it
EndFunctors(l) ==
    /\ BetweenFunctors(l)
    /\ ran[l] = Len(functors[l])
    /\ pc' = [pc EXCEPT ![l] = "while"]
    /\ functors' = [functors EXCEPT ![l] = <<>>]
    /\ ran' = [ran EXCEPT ![l] = 0]
    /\ UNCHANGED <<poolVars, mapVars, clientVars, connVars, quit, queue, closing>>

\* the next functor of the batch is op for connection c
Runs(l, op, c) ==
    /\ BetweenFunctors(l)
    /\ ran[l] < Len(functors[l])
    /\ functors[l][ran[l] + 1] = Functor(op, c)
    /\ ran' = [ran EXCEPT ![l] = @ + 1]
    /\ UNCHANGED <<pc, quit, functors>>

RunConnectEstablished(l, c) ==
    /\ Runs(l, "connectEstablished", c)
    /\ connectEstablished(c)
    /\ UNCHANGED <<poolVars, mapVars, clientVars, queue, closing>>

RunConnectDestroyed(l, c) ==
    /\ Runs(l, "connectDestroyed", c)
    /\ connectDestroyed(c)
    /\ UNCHANGED <<poolVars, mapVars, clientVars, queue, closing>>

-----------------------------------------------------------------------------
(* Connections come and go                                                 *)

\* EventLoopThreadPool::start() returns when the loops of its threads are published
StartPool(n) ==
    /\ subLoops' = n
    /\ pc' = [l \in Loops |-> IF l \in 1 .. n THEN "published" ELSE pc[l]]

\* Acceptor::listen()
Listen == server' = "serving"

\* TcpServer::start() with setThreadNum(n), on the main thread.  A second call does
\* nothing (m_started).
Start(n) ==
    /\ server = "new"
    /\ pc[Main] = "created" \/ BetweenFunctors(Main)
    /\ StartPool(n)
    /\ Listen
    /\ UNCHANGED <<joined, mapVars, clientVars, connVars, quit, queue, functors, ran,
                   closing>>

\* mutant: m_next wraps one call too late
NextIndexLate == IF next >= subLoops THEN 0 ELSE next + 1

\* m_next after getNextLoop()
NextIndex == IF next + 1 >= subLoops THEN 0 ELSE next + 1

NextLoop == IF subLoops = 0 THEN Main ELSE next + 1

Bound(c, fs) == \E f \in Range(fs) : f[2] = c

\* a shared_ptr to connection c exists in the library
Held(c) ==
    \/ c \in connections
    \/ \E l \in Loops :
          Bound(c, queue[l]) \/ Bound(c, functors[l]) \/ closing[l] = c

\* ... which is how long its Socket keeps a descriptor
Descriptors == {c \in Conns : Held(c)}

\* Acceptor::handleRead().  At the limit of descriptors accept() fails, which is logged,
\* and the client stays where it is.
AcceptorHandleRead(c) ==
    /\ Dispatching(Main)
    /\ server = "serving"
    /\ c \in backlog
    /\ Cardinality(Descriptors) < limit
    /\ backlog' = backlog \ {c}

\* ... and its callback
NewConnection(c) ==
    /\ AcceptorHandleRead(c)
    /\ connections' = connections \cup {c}
    /\ loopOf' = [loopOf EXCEPT ![c] = NextLoop]
    /\ next' = NextIndex
    /\ IF NextLoop = Main
       THEN connectEstablished(c) /\ UNCHANGED queue
       ELSE Enqueue(NextLoop, Functor("connectEstablished", c)) /\ UNCHANGED connVars
    /\ UNCHANGED <<poolVars, hungUp, limit, loopVars, closing>>

\* TcpConnection::handleClose() up to the connection callback
HandleClose(l, c) ==
    /\ Dispatching(l)
    /\ loopOf[c] = l
    /\ c \in registered /\ state[c] = "kConnected"
    /\ c \in hungUp
    /\ state' = [state EXCEPT ![c] = "kDisconnected"]
    /\ closing' = [closing EXCEPT ![l] = c]
    /\ UNCHANGED <<poolVars, mapVars, clientVars, registered, destroys, loopVars, queue>>

\* mutant: connectDestroyed() is not queued
RemovalForgetsConnection(c) ==
    /\ connections' = connections \ {c}
    /\ UNCHANGED queue

removeConnectionInLoop(c) ==
    /\ connections' = connections \ {c}
    /\ Enqueue(loopOf[c], Functor("connectDestroyed", c))

\* mutant: removeConnection() queues on the main loop's own thread too
QueueRemoval(l, c) ==
    /\ Enqueue(Main, Functor("removeConnectionInLoop", c))
    /\ UNCHANGED connections

\* mutant: only the main loop's own thread is served
RemovalLost(l, c) ==
    IF l = Main THEN removeConnectionInLoop(c) ELSE UNCHANGED <<queue, connections>>

removeConnection(l, c) ==
    IF l = Main
    THEN removeConnectionInLoop(c)
    ELSE /\ Enqueue(Main, Functor("removeConnectionInLoop", c))
         /\ UNCHANGED connections

\* ... and its closeCallback
CloseCallback(l) ==
    /\ Free(l)
    /\ closing[l] # NoConn
    /\ removeConnection(l, closing[l])
    /\ closing' = [closing EXCEPT ![l] = NoConn]
    /\ UNCHANGED <<poolVars, next, loopOf, clientVars, connVars, loopVars>>

\* removeConnectionInLoop() as a functor.  Its "this" is bound as a plain pointer:
\* what it does to a server that is gone is undefined, see CallsFindServer.
RunRemoveConnection(c) ==
    /\ server # "gone"
    /\ Runs(Main, "removeConnectionInLoop", c)
    /\ removeConnectionInLoop(c)
    /\ UNCHANGED <<poolVars, next, loopOf, clientVars, connVars, closing>>

Connect(c) ==
    /\ server = "serving"
    /\ loopOf[c] = NoLoop
    /\ backlog' = backlog \cup {c}
    /\ UNCHANGED <<poolVars, mapVars, hungUp, limit, connVars, loopVars, queue, closing>>

HangUp(c) ==
    /\ loopOf[c] # NoLoop
    /\ hungUp' = hungUp \cup {c}
    /\ UNCHANGED <<poolVars, mapVars, backlog, limit, connVars, loopVars, queue, closing>>

-----------------------------------------------------------------------------
(* The end of the server                                                   *)

\* The main loop is told to quit, by a callback or by another thread
QuitMain ==
    /\ pc[Main] \in {"while", "dispatch", "functors"}
    /\ quit' = [quit EXCEPT ![Main] = TRUE]
    /\ UNCHANGED <<poolVars, mapVars, clientVars, connVars, pc, queue, functors, ran,
                   closing>>

ServerVars == <<mapVars, clientVars, connVars, loopVars, queue, closing>>

\* ~TcpServer() begins: around loop(), or in a functor of the main loop
DestroyServer ==
    /\ server \in {"new", "serving"}
    /\ pc[Main] \in {"created", "left"} \/ BetweenFunctors(Main)
    /\ server' = "clearing"
    /\ UNCHANGED <<subLoops, joined, ServerVars>>

\* mutant: ~TcpServer() leaves the connections to their reference counts
DropConnection(c) ==
    /\ server = "clearing"
    /\ c \in connections
    /\ connections' = connections \ {c}
    /\ UNCHANGED <<poolVars, next, loopOf, clientVars, connVars, loopVars, queue, closing>>

\* one turn of the loop in its body, in the order of an unordered_map
DestroyConnection(c) ==
    /\ server = "clearing"
    /\ c \in connections
    /\ connections' = connections \ {c}
    /\ IF loopOf[c] = Main
       THEN connectDestroyed(c) /\ UNCHANGED queue
       ELSE Enqueue(loopOf[c], Functor("connectDestroyed", c)) /\ UNCHANGED connVars
    /\ UNCHANGED <<poolVars, next, loopOf, clientVars, loopVars, closing>>

\* ~Acceptor() takes its channel out of the main loop and closes the socket
DestroyAcceptor ==
    /\ server = "clearing"
    /\ connections = {}
    /\ server' = "quitting"
    /\ backlog' = {}
    /\ UNCHANGED <<subLoops, joined, mapVars, hungUp, limit, connVars, loopVars, queue,
                   closing>>

\* mutant: the thread is joined without having been told to quit
QuitThreadForgotten ==
    /\ server = "quitting"
    /\ joined < subLoops
    /\ server' = "joining"
    /\ UNCHANGED <<subLoops, joined, ServerVars>>

\* ~EventLoopThreadPool(): the next ~EventLoopThread() quits its loop ...
QuitThread ==
    /\ server = "quitting"
    /\ joined < subLoops
    /\ quit' = [quit EXCEPT ![joined + 1] = TRUE]
    /\ server' = "joining"
    /\ UNCHANGED <<subLoops, joined, mapVars, clientVars, connVars, pc, functors, ran,
                   queue, closing>>

\* mutant: the thread is detached
DetachThread ==
    /\ server = "joining"
    /\ joined' = joined + 1
    /\ server' = "quitting"
    /\ UNCHANGED <<subLoops, ServerVars>>

\* ... and joins its thread
JoinThread ==
    /\ server = "joining"
    /\ pc[joined + 1] = "exited"
    /\ joined' = joined + 1
    /\ server' = "quitting"
    /\ UNCHANGED <<subLoops, ServerVars>>

ServerGone ==
    /\ server = "quitting"
    /\ joined = subLoops
    /\ server' = "gone"
    /\ UNCHANGED <<subLoops, joined, ServerVars>>

\* The EventLoop is destroyed, with the functors it has not run: by threadFunc()
\* after loop(), or by main() after the server that uses it
DestroyLoop(l) ==
    /\ pc[l] = "left"
    /\ l = Main => server = "gone"
    /\ pc' = [pc EXCEPT ![l] = "exited"]
    /\ queue' = [queue EXCEPT ![l] = <<>>]
    /\ UNCHANGED <<poolVars, mapVars, clientVars, connVars, quit, functors, ran, closing>>

-----------------------------------------------------------------------------
Round(l) ==
    \/ TestQuit(l) \/ BeginFunctors(l) \/ EndFunctors(l) \/ CloseCallback(l)
    \/ \E c \in Conns : RunConnectEstablished(l, c) \/ RunConnectDestroyed(l, c)

MainRound == Round(Main) \/ \E c \in Conns : RunRemoveConnection(c)

Destructor ==
    \/ \E c \in Conns : DestroyConnection(c)
    \/ DestroyAcceptor \/ QuitThread \/ JoinThread \/ ServerGone

SubStep(l) == Round(l) \/ EnterLoop(l) \/ DestroyLoop(l)

\* what epoll_wait() reports
Reported == \E c \in Conns : NewConnection(c) \/ \E l \in Loops : HandleClose(l, c)

Next ==
    \/ \E n \in 0 .. MaxThreads : Start(n)
    \/ MainRound
    \/ EnterLoop(Main) \/ DestroyLoop(Main)
    \/ \E l \in Subs : SubStep(l)
    \/ Reported
    \/ \E c \in Conns : Connect(c) \/ HangUp(c)
    \/ QuitMain \/ DestroyServer \/ Destructor

Spec == Init /\ [][Next]_vars

(* Loops that run keep going round, and threads that were started enter and *)
(* leave them; a destructor goes on; epoll is level triggered, so clients   *)
(* that wait and connections that closed are reported until, each of them   *)
(* once, they are handled.                                                  *)
Fairness ==
    /\ WF_vars(MainRound)
    /\ \A l \in Subs : WF_vars(SubStep(l))
    /\ WF_vars(Destructor)
    /\ SF_vars(Reported)

FairSpec == Spec /\ Fairness

-----------------------------------------------------------------------------
(* Safety                                                                  *)

\* connectDestroyed() calls of c that are queued or still to run in the batch
Pending(c) ==
    LET l == loopOf[c]
        destroyed == Functor("connectDestroyed", c)
    IN Cardinality({i \in 1 .. Len(queue[l]) : queue[l][i] = destroyed})
       + Cardinality({i \in ran[l] + 1 .. Len(functors[l]) : functors[l][i] = destroyed})

\* No connection is forgotten and none is destroyed twice, however handleClose(),
\* the removal on the main loop and ~TcpServer() interleave: as long as its loop
\* exists, an accepted connection is in the map, or one connectDestroyed() is
\* queued on its own loop, or one has run, and only one of the three.  So a poller
\* never holds the Channel of a connection whose last shared_ptr is gone, which
\* ~TcpConnection() would not take out (tcpconnection.cpp:25).
Accounted ==
    \A c \in Conns :
        loopOf[c] # NoLoop /\ pc[loopOf[c]] # "exited" =>
            (IF c \in connections THEN 1 ELSE 0) + Pending(c) + destroys[c] = 1

\* When ~TcpServer() has returned, the threads whose connections hold closeCallbacks
\* into it have ended, and the main loop of a server without threads has no removal left
\* to run.  On that of a server with threads there may be one: a closeCallback that runs
\* while ~TcpServer() waits for its thread queues a removal that comes too late.
CallsFindServer ==
    server = "gone" =>
        /\ \A l \in 1 .. subLoops : pc[l] = "exited"
        /\ subLoops = 0 /\ pc[Main] # "left" => \A c \in Conns :
              Functor("removeConnectionInLoop", c) \notin
                  Range(queue[Main]) \cup Range(functors[Main])

Stage(c) ==
    IF loopOf[c] = NoLoop THEN "none"
    ELSE IF ~Held(c) THEN "freed"
    ELSE IF destroys[c] > 0 THEN "removed"
    ELSE CASE state[c] = "kConnecting" -> "new"
           [] state[c] = "kConnected" -> "up"
           [] state[c] = "kDisconnected" -> "down"

Life == INSTANCE ConnectionLife WITH
            stage <- [c \in Conns |-> Stage(c)],
            ending <- server \notin {"new", "serving"}

\* Each connection goes up, down, out of its loop and out of memory, in this order
\* and never back, although three threads hold references to it.
ImplementsLife == Life!Spec

\* "It must go back to the EventLoop the TcpConnection belongs to and execute
\* connectDestroyed()" (tcpserver.cpp:25): when a loop of the pool is gone, the
\* connections that had been established on it have been destroyed on it.
DestroyedOnOwnLoop ==
    \A c \in Conns :
        loopOf[c] \in Subs /\ pc[loopOf[c]] = "exited" /\ state[c] # "kConnecting" =>
            destroys[c] = 1

-----------------------------------------------------------------------------
(* Liveness                                                                *)

\* Connections whose peers close are destroyed and their memory released, across the
\* two loops, while the server and the main loop live.
Unreleased == {c \in hungUp : destroys[c] = 0 \/ Held(c)}

CloseReleases ==
    Unreleased # {} ~> Unreleased = {} \/ server # "serving" \/ quit[Main]

\* Clients that wait at the limit of descriptors are accepted in the end: the failing
\* accept() loses nothing, and connections that closed give back their descriptors, so
\* that only connections their peers keep open can shut them out (acceptor.cpp:72).
AcceptsWhenRoom ==
    backlog # {} /\ pc[Main] # "created" ~>
        \/ backlog = {}
        \/ server # "serving" \/ quit[Main]
        \/ Cardinality(Descriptors \ hungUp) >= limit

\* ~TcpServer() returns: the main thread, which joins the threads one by one, and
\* threads that still send it removals never wait for each other.  (A thread that
\* has not entered loop() yet can lose its quit, see EventLoopThread.)
DestructionEnds ==
    server = "clearing" /\ (\A l \in Subs : pc[l] # "published") ~> server = "gone"
=============================================================================
