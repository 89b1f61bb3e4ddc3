---------------------------- MODULE EchoServerDemo ----------------------------
(***************************************************************************)
(* snippet/EchoServerDemo: a program that starts an AutoQuitEchoServer and *)
(* as many clients as the server expects, and ends when all of them have   *)
(* verified their echo and gone.                                           *)
(*                                                                         *)
(* The TcpServer is what module ConnectionLife says of it: a connection is *)
(* reported up and then down, by the thread of its loop, or is closed when *)
(* the server is destroyed.  The two counters are atomic, each access is a *)
(* step of its own.  A message is MsgLen units, which TCP may deliver one  *)
(* by one.                                                                 *)
(***************************************************************************)
EXTENDS Naturals, FiniteSets

CONSTANTS
    Clients,     \* the client threads
    IoThreads,   \* threadNum
    MsgLen,      \* units in a message
    MaxAttempts  \* of connectWithRetry()

ASSUME DemoAssumption ==
    /\ IsFiniteSet(Clients) /\ Clients # {}
    /\ {IoThreads, MsgLen, MaxAttempts} \subseteq Nat \ {0}

expectedClients == Cardinality(Clients)

VARIABLES
    main,         \* what main() does, see MainStates
    serverReady,  \* serverReady
    server,       \* what the server's thread does, see ServerStates
    quits,        \* functors that call quit(), queued on the main loop
    client,       \* per client: what its thread does, see ClientStates
    attempts,     \* ... its refused connect() calls
    received,     \* ... the units it has back
    conn,         \* per client: its connection at the server, see ConnStates
    loopOf,       \* ... the thread of its loop
    seen,         \* ... the alive of its down callback
    toServer,     \* ... units on their way to the server
    toClient,     \* ... and back
    total,        \* m_totalConnections
    alive         \* m_aliveConnections

serverVars == <<serverReady, server>>
clientVars == <<client, attempts, received>>
connVars == <<conn, loopOf, seen>>
dataVars == <<toServer, toClient>>
countVars == <<total, alive>>
vars == <<main, serverVars, quits, clientVars, connVars, dataVars, countVars>>

MainStates == {"waiting", "spawning", "joining", "done", "aborted"}
ServerStates == {"new", "listening", "looping", "ending", "gone"}
ClientStates == {"none", "connecting", "connected", "sent", "verified", "closed"}

(* counted: between the two increments of its up callback;                  *)
(* leaving: between the decrement and the test of its down callback         *)
ConnStates == {"none", "backlog", "accepted", "counted", "up", "leaving", "down"}

TypeOK ==
    /\ main \in MainStates
    /\ serverReady \in BOOLEAN
    /\ server \in ServerStates
    /\ client \in [Clients -> ClientStates]
    /\ attempts \in [Clients -> 0 .. MaxAttempts]
    /\ conn \in [Clients -> ConnStates]
    /\ loopOf \in [Clients -> 0 .. IoThreads - 1]
    /\ {received, toClient, toServer} \subseteq [Clients -> Nat]
    /\ \A c \in Clients : received[c] + toClient[c] + toServer[c] <= MsgLen
    /\ total \in 0 .. expectedClients
    /\ alive \in 0 .. total
    /\ seen \in [Clients -> 0 .. expectedClients]
    /\ quits \in 0 .. expectedClients

Init ==
    /\ main = "waiting" /\ serverReady = FALSE /\ server = "new" /\ quits = 0
    /\ client = [c \in Clients |-> "none"]
    /\ attempts = [c \in Clients |-> 0]
    /\ received = [c \in Clients |-> 0]
    /\ conn = [c \in Clients |-> "none"]
    /\ loopOf = [c \in Clients |-> 0]
    /\ seen = [c \in Clients |-> 0]
    /\ toServer = [c \in Clients |-> 0] /\ toClient = [c \in Clients |-> 0]
    /\ total = 0 /\ alive = 0

\* no exception has reached std::terminate()
Running == main # "aborted"

-----------------------------------------------------------------------------
(* main()                                                                  *)

\* readyCond.wait() with its predicate, which is tested under readyMutex
WaitReady ==
    /\ main = "waiting"
    /\ serverReady
    /\ main' = "spawning"
    /\ UNCHANGED <<serverVars, quits, clientVars, connVars, dataVars, countVars>>

SpawnClient(c) ==
    /\ main = "spawning"
    /\ client[c] = "none"
    /\ client' = [client EXCEPT ![c] = "connecting"]
    /\ main' = IF \A d \in Clients \ {c} : client[d] # "none" THEN "joining" ELSE main
    /\ UNCHANGED <<serverVars, quits, attempts, received, connVars, dataVars, countVars>>

\* every client thread, then the server's, has been joined
JoinAll ==
    /\ main = "joining"
    /\ \A c \in Clients : client[c] = "closed"
    /\ server = "gone"
    /\ main' = "done"
    /\ UNCHANGED <<serverVars, quits, clientVars, connVars, dataVars, countVars>>

-----------------------------------------------------------------------------
(* The server's thread, which is the main loop                             *)

\* mutant: the clients are let go before the server listens
StartAnnounces ==
    /\ server = "new"
    /\ server' \in {"new", "listening"}
    /\ serverReady' = TRUE
    /\ UNCHANGED <<main, quits, clientVars, connVars, dataVars, countVars>>

\* start(): the socket listens when it returns, the call being made on the loop's thread
Start ==
    /\ server = "new"
    /\ server' = "listening"
    /\ UNCHANGED <<main, serverReady, quits, clientVars, connVars, dataVars, countVars>>

Announce ==
    /\ server = "listening"
    /\ server' = "looping"
    /\ serverReady' = TRUE
    /\ UNCHANGED <<main, quits, clientVars, connVars, dataVars, countVars>>

Accepted == {c \in Clients : conn[c] \notin {"none", "backlog"}}

\* newConnection(), which deals the connections out in turn
Accept(c) ==
    /\ server = "looping"
    /\ conn[c] = "backlog"
    /\ conn' = [conn EXCEPT ![c] = "accepted"]
    /\ loopOf' = [loopOf EXCEPT ![c] = Cardinality(Accepted) % IoThreads]
    /\ UNCHANGED <<main, serverVars, quits, clientVars, seen, dataVars, countVars>>

\* the functor queued by onConnection(); loop() returns and the server is destroyed
Quit ==
    /\ server = "looping"
    /\ quits > 0
    /\ quits' = quits - 1
    /\ server' = "ending"
    /\ UNCHANGED <<main, serverReady, clientVars, connVars, dataVars, countVars>>

\* ... with the connections it still has.  Their down callbacks, which reach the base's
\* override or still the derived one, no longer matter: loop() has returned.
EndConnection(c) ==
    /\ server = "ending"
    /\ conn[c] \in {"backlog", "accepted", "up"}
    /\ conn' = [conn EXCEPT ![c] = "down"]
    /\ UNCHANGED <<main, serverVars, quits, clientVars, loopOf, seen, dataVars, countVars>>

\* the threads of the pool have been joined
ServerEnds ==
    /\ server = "ending"
    /\ \A c \in Clients : conn[c] \in {"none", "down"}
    /\ server' = "gone"
    /\ UNCHANGED <<main, serverReady, quits, clientVars, connVars, dataVars, countVars>>

-----------------------------------------------------------------------------
(* The callbacks, on the threads of the pool                               *)

\* thread t is not inside a connection callback
Free(t) == \A c \in Clients : loopOf[c] = t => conn[c] \notin {"counted", "leaving"}

\* onConnection() of a new connection: ++m_totalConnections ...
CountTotal(c) ==
    /\ conn[c] = "accepted"
    /\ Free(loopOf[c])
    /\ total' = total + 1
    /\ conn' = [conn EXCEPT ![c] = "counted"]
    /\ UNCHANGED <<main, serverVars, quits, clientVars, loopOf, seen, dataVars, alive>>

\* mutant: only the total is counted
CountAliveForgotten(c) ==
    /\ conn[c] = "counted"
    /\ conn' = [conn EXCEPT ![c] = "up"]
    /\ UNCHANGED <<main, serverVars, quits, clientVars, loopOf, seen, dataVars, countVars>>

\* ... ++m_aliveConnections
CountAlive(c) ==
    /\ conn[c] = "counted"
    /\ alive' = alive + 1
    /\ conn' = [conn EXCEPT ![c] = "up"]
    /\ UNCHANGED <<main, serverVars, quits, clientVars, loopOf, seen, dataVars, total>>

\* onMessage() sends back what has arrived
Echo(c) ==
    /\ conn[c] = "up"
    /\ Free(loopOf[c])
    /\ \E n \in 1 .. toServer[c] :
          /\ toServer' = [toServer EXCEPT ![c] = @ - n]
          /\ toClient' = [toClient EXCEPT ![c] = @ + n]
    /\ UNCHANGED <<main, serverVars, quits, clientVars, connVars, countVars>>

\* onConnection() of a connection its client has closed: alive = --m_aliveConnections ...
Leave(c) ==
    /\ conn[c] = "up"
    /\ Free(loopOf[c])
    /\ client[c] = "closed" /\ toServer[c] = 0
    /\ alive' = alive - 1
    /\ seen' = [seen EXCEPT ![c] = alive']
    /\ conn' = [conn EXCEPT ![c] = "leaving"]
    /\ UNCHANGED <<main, serverVars, quits, clientVars, loopOf, dataVars, total>>

\* mutant: the first client that finds itself alone ends the server
ShouldQuitAlone(c) == seen[c] = 0

\* mutant: one client too many is expected
ShouldQuitLate(c) == total > expectedClients /\ seen[c] = 0

ShouldQuit(c) == total >= expectedClients /\ seen[c] = 0

\* ... and the test, which loads m_totalConnections
TestQuit(c) ==
    /\ conn[c] = "leaving"
    /\ quits' = IF ShouldQuit(c) THEN quits + 1 ELSE quits
    /\ conn' = [conn EXCEPT ![c] = "down"]
    /\ UNCHANGED <<main, serverVars, clientVars, loopOf, seen, dataVars, countVars>>

-----------------------------------------------------------------------------
(* runClient().  An exception in it ends the program.                      *)

Connect(c) ==
    /\ client[c] = "connecting"
    /\ server \in {"listening", "looping", "ending"}
    /\ client' = [client EXCEPT ![c] = "connected"]
    /\ conn' = [conn EXCEPT ![c] = "backlog"]
    /\ UNCHANGED <<main, serverVars, quits, attempts, received, loopOf, seen, dataVars,
                   countVars>>

\* ECONNREFUSED: again, a limited number of times
ConnectRefused(c) ==
    /\ client[c] = "connecting"
    /\ server \notin {"listening", "looping"}
    /\ attempts' = [attempts EXCEPT ![c] = @ + 1]
    /\ main' = IF attempts[c] + 1 = MaxAttempts THEN "aborted" ELSE main
    /\ UNCHANGED <<serverVars, quits, client, received, connVars, dataVars, countVars>>

Send(c) ==
    /\ client[c] = "connected"
    /\ client' = [client EXCEPT ![c] = "sent"]
    /\ toServer' = [toServer EXCEPT ![c] = IF conn[c] = "down" THEN 0 ELSE MsgLen]
    /\ UNCHANGED <<main, serverVars, quits, attempts, received, connVars, toClient,
                   countVars>>

Receive(c) ==
    /\ client[c] = "sent"
    /\ \E n \in 1 .. toClient[c] :
          /\ toClient' = [toClient EXCEPT ![c] = @ - n]
          /\ received' = [received EXCEPT ![c] = @ + n]
    /\ client' = [client EXCEPT ![c] = IF received'[c] = MsgLen THEN "verified" ELSE @]
    /\ UNCHANGED <<main, serverVars, quits, attempts, connVars, toServer, countVars>>

\* recv() reports the end of the stream, or a reset, before the echo is complete
ClosedEarly(c) ==
    /\ client[c] = "sent"
    /\ conn[c] = "down" /\ toClient[c] = 0
    /\ main' = "aborted"
    /\ UNCHANGED <<serverVars, quits, clientVars, connVars, dataVars, countVars>>

\* after a sleep
Close(c) ==
    /\ client[c] = "verified"
    /\ client' = [client EXCEPT ![c] = "closed"]
    /\ UNCHANGED <<main, serverVars, quits, attempts, received, connVars, dataVars,
                   countVars>>

-----------------------------------------------------------------------------
MainStep == Running /\ (WaitReady \/ JoinAll \/ \E c \in Clients : SpawnClient(c))

ServerStep ==
    /\ Running
    /\ \/ Start \/ Announce \/ Quit \/ ServerEnds
       \/ \E c \in Clients : Accept(c) \/ EndConnection(c)

Callback(c) == CountTotal(c) \/ CountAlive(c) \/ Echo(c) \/ Leave(c) \/ TestQuit(c)

IoStep(t) == Running /\ \E c \in Clients : loopOf[c] = t /\ Callback(c)

ClientStep(c) ==
    /\ Running
    /\ \/ Connect(c) \/ ConnectRefused(c) \/ Send(c) \/ Receive(c) \/ ClosedEarly(c)
       \/ Close(c)

Next ==
    \/ MainStep \/ ServerStep
    \/ \E t \in 0 .. IoThreads - 1 : IoStep(t)
    \/ \E c \in Clients : ClientStep(c)

Spec == Init /\ [][Next]_vars

(* Every thread goes on when it can.                                       *)
Fairness ==
    /\ WF_vars(MainStep) /\ WF_vars(ServerStep)
    /\ \A t \in 0 .. IoThreads - 1 : WF_vars(IoStep(t))
    /\ \A c \in Clients : WF_vars(ClientStep(c))

FairSpec == Spec /\ Fairness

-----------------------------------------------------------------------------
\* No connect() of a client is refused: the clients wait until start() has returned
\* (main2.cpp:130), and as long as one of them has not connected the others may come and go
\* without ending the server, "so that a client that leaves early does not stop it"
\* (autoquitechoserver.cpp:18).
NeverRefused == \A c \in Clients : attempts[c] = 0

\* The server is told to quit "only when all expected clients have connected and there is
\* no live connection" (autoquitechoserver.cpp:18; autoquitechoserver.h:9, main2.cpp:140).
QuitsAfterAllLeft == quits > 0 => \A c \in Clients : conn[c] \in {"leaving", "down"}

\* The program ends: however the counts of the threads interleave, one down callback
\* sees that it is the last, and the server's thread is joined.
DemoEnds == <>(main \in {"done", "aborted"})
=============================================================================
