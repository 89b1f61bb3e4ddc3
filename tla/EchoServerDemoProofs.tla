------------------------- MODULE EchoServerDemoProofs -------------------------
(***************************************************************************)
(* Proofs about EchoServerDemo, for every finite set of clients and every  *)
(* number of threads, length of message and limit of attempts.             *)
(***************************************************************************)
EXTENDS EchoServerDemo, FiniteSetTheorems, TLAPS

\* how many connections are in one of the states S, under the assignment f
InState(f, S) == Cardinality({c \in Clients : f[c] \in S})

\* not counted yet
Uncounted == {"none", "backlog", "accepted"}

\* not down yet
Busy == ConnStates \ {"down"}

\* The counters and the connections: each connection is counted once, m_totalConnections
\* first, and taken back once.
CountsAgree ==
    /\ total + InState(conn, Uncounted) <= expectedClients
    /\ InState(conn, {"up"}) <= alive
    /\ alive + InState(conn, {"counted"}) <= total
    /\ quits + InState(conn, Busy) <= expectedClients

\* Nobody tells the server to quit before every client has been counted.
QuitsLast == quits > 0 \/ server \in {"ending", "gone"} => total = expectedClients

\* How far a client and its connection can be apart.
ClientsFollow ==
    \A c \in Clients :
        /\ client[c] # "none" => serverReady
        /\ client[c] \in {"none", "connecting"} => conn[c] = "none"
        /\ client[c] \in {"none", "connecting", "connected"} =>
              received[c] = 0 /\ toClient[c] = 0 /\ toServer[c] = 0

\* Clients are let go when the server listens.
ReadyWhenListening ==
    /\ main = "spawning" => serverReady
    /\ serverReady => server \notin {"new", "listening"}

DemoInv ==
    /\ TypeOK /\ CountsAgree /\ QuitsLast /\ ClientsFollow /\ ReadyWhenListening
    /\ NeverRefused

-----------------------------------------------------------------------------
LEMMA InStateType ==
    ASSUME NEW f, NEW S
    PROVE  /\ IsFiniteSet({c \in Clients : f[c] \in S})
           /\ InState(f, S) \in Nat /\ InState(f, S) <= expectedClients
           /\ InState(f, S) = 0 => \A c \in Clients : f[c] \notin S
<1> DEFINE T == {c \in Clients : f[c] \in S}
<1>1. T \in SUBSET Clients /\ IsFiniteSet(Clients)
  BY DemoAssumption
<1>2. IsFiniteSet(T) /\ Cardinality(T) <= Cardinality(Clients)
  BY <1>1, FS_Subset
<1>3. Cardinality(T) \in Nat /\ (Cardinality(T) = 0 <=> T = {})
  BY <1>2, FS_CardinalityType, FS_EmptySet
<1>4. QED  BY <1>2, <1>3 DEF InState, expectedClients

\* the number of connections in S, when the one of c changes from f to g
Moved(f, g, c, S) ==
    /\ InState(f, S) \in Nat /\ InState(g, S) \in Nat
    /\ g[c] \in S /\ f[c] \notin S => InState(g, S) = InState(f, S) + 1
    /\ g[c] \notin S /\ f[c] \in S => InState(f, S) = InState(g, S) + 1
    /\ (g[c] \in S <=> f[c] \in S) => InState(g, S) = InState(f, S)

LEMMA InStateMoves ==
    ASSUME NEW f, NEW g, NEW c \in Clients, NEW S,
           \A d \in Clients \ {c} : g[d] = f[d]
    PROVE  Moved(f, g, c, S)
<1> DEFINE A == {d \in Clients : f[d] \in S}
           B == {d \in Clients : g[d] \in S}
<1>1. /\ IsFiniteSet(A) /\ Cardinality(A) \in Nat /\ InState(f, S) = Cardinality(A)
      /\ IsFiniteSet(B) /\ Cardinality(B) \in Nat /\ InState(g, S) = Cardinality(B)
  BY InStateType DEF InState
<1>2. CASE g[c] \in S /\ f[c] \notin S
  <2>1. B = A \cup {c} /\ c \notin A
    BY <1>2
  <2> HIDE DEF A, B
  <2>2. Cardinality(B) = Cardinality(A) + 1
    BY <1>1, <2>1, FS_AddElement
  <2>3. QED  BY <1>1, <1>2, <2>2 DEF Moved
<1>3. CASE g[c] \notin S /\ f[c] \in S
  <2>1. A = B \cup {c} /\ c \notin B
    BY <1>3
  <2> HIDE DEF A, B
  <2>2. Cardinality(A) = Cardinality(B) + 1
    BY <1>1, <2>1, FS_AddElement
  <2>3. QED  BY <1>1, <1>3, <2>2 DEF Moved
<1>4. CASE g[c] \in S <=> f[c] \in S
  <2>1. B = A
    BY <1>4
  <2> HIDE DEF A, B
  <2>2. QED  BY <1>1, <1>4, <2>1 DEF Moved
<1>5. QED  BY <1>2, <1>3, <1>4

\* a client that is not counted keeps the total below the number of clients
LEMMA NotAllCounted ==
    ASSUME TypeOK, CountsAgree, NEW c \in Clients, conn[c] \in Uncounted
    PROVE  total < expectedClients
<1>1. InState(conn, Uncounted) \in Nat /\ InState(conn, Uncounted) # 0
  BY InStateType
<1>2. total \in Nat /\ expectedClients \in Nat
  BY InStateType, FS_CardinalityType, DemoAssumption DEF TypeOK, expectedClients
<1>3. QED  BY <1>1, <1>2 DEF CountsAgree

\* A refused client is not counted, but the server has quit, which it does when all are.
LEMMA RefusesNobody ==
    ASSUME DemoInv, NEW c \in Clients, ConnectRefused(c)
    PROVE  FALSE
<1>1. conn[c] = "none" /\ server \in {"ending", "gone"}
  BY DEF DemoInv, TypeOK, ConnectRefused, ClientsFollow, ReadyWhenListening, ServerStates
<1>2. total < expectedClients /\ total \in Nat /\ expectedClients \in Nat
  <2>1. expectedClients \in Nat
    BY FS_CardinalityType, DemoAssumption DEF expectedClients
  <2>2. QED  BY <1>1, <2>1, NotAllCounted DEF DemoInv, TypeOK, Uncounted
<1>3. QED  BY <1>1, <1>2 DEF DemoInv, QuitsLast

LEMMA DemoInit == Init => DemoInv
<1> SUFFICES ASSUME Init PROVE DemoInv
  OBVIOUS
<1>1. expectedClients \in Nat
  BY FS_CardinalityType, DemoAssumption DEF expectedClients
<1>2. /\ InState(conn, Uncounted) \in Nat /\ InState(conn, Uncounted) <= expectedClients
      /\ InState(conn, Busy) \in Nat
      /\ InState(conn, Busy) <= expectedClients
  BY InStateType
<1>3. InState(conn, {"up"}) = 0 /\ InState(conn, {"counted"}) = 0
  <2>1. {c \in Clients : conn[c] \in {"up"}} = {} /\ {c \in Clients : conn[c] \in {"counted"}} = {}
    BY DEF Init
  <2>2. QED  BY <2>1, FS_EmptySet DEF InState
<1>4. TypeOK
  <2>1. 0 \in 0 .. IoThreads - 1 /\ 0 \in 0 .. MaxAttempts /\ MsgLen \in Nat
    BY DemoAssumption
  <2>2. {received, toClient, toServer} \subseteq [Clients -> Nat]
    BY DEF Init
  <2>3. \A c \in Clients : received[c] + toClient[c] + toServer[c] <= MsgLen
    BY <2>1 DEF Init
  <2>4. /\ 0 \in 0 .. expectedClients /\ total \in 0 .. expectedClients /\ alive \in 0 .. total
        /\ quits \in 0 .. expectedClients
    BY <1>1 DEF Init
  <2>5. /\ attempts \in [Clients -> 0 .. MaxAttempts] /\ loopOf \in [Clients -> 0 .. IoThreads - 1]
        /\ seen \in [Clients -> 0 .. expectedClients]
    BY <2>1, <2>4 DEF Init
  <2>6. /\ main \in MainStates /\ serverReady \in BOOLEAN /\ server \in ServerStates
        /\ client \in [Clients -> ClientStates] /\ conn \in [Clients -> ConnStates]
    BY DEF Init, MainStates, ServerStates, ClientStates, ConnStates
  <2>7. QED  BY <2>2, <2>3, <2>4, <2>5, <2>6 DEF TypeOK
<1>5. CountsAgree
  BY <1>1, <1>2, <1>3 DEF Init, CountsAgree
<1>6. QuitsLast /\ ClientsFollow /\ ReadyWhenListening /\ NeverRefused
  BY DEF Init, QuitsLast, ClientsFollow, ReadyWhenListening, NeverRefused
<1>7. QED  BY <1>4, <1>5, <1>6 DEF DemoInv

-----------------------------------------------------------------------------
(* Steps                                                                   *)

LEMMA TypesKept == DemoInv /\ [Next]_vars => TypeOK'
<1> SUFFICES ASSUME DemoInv, [Next]_vars PROVE TypeOK'
  OBVIOUS
<1> USE DEF serverVars, clientVars, connVars, dataVars, countVars
<1>1. /\ main \in MainStates /\ serverReady \in BOOLEAN /\ server \in ServerStates
      /\ client \in [Clients -> ClientStates] /\ conn \in [Clients -> ConnStates]
      /\ attempts \in [Clients -> 0 .. MaxAttempts] /\ loopOf \in [Clients -> 0 .. IoThreads - 1]
      /\ seen \in [Clients -> 0 .. expectedClients]
      /\ received \in [Clients -> Nat] /\ toClient \in [Clients -> Nat]
      /\ toServer \in [Clients -> Nat]
      /\ \A c \in Clients : received[c] + toClient[c] + toServer[c] <= MsgLen
      /\ total \in 0 .. expectedClients /\ alive \in 0 .. total /\ quits \in 0 .. expectedClients
  BY DEF DemoInv, TypeOK
<1>2. /\ expectedClients \in Nat /\ MaxAttempts \in Nat /\ MsgLen \in Nat
      /\ IoThreads \in Nat /\ IoThreads > 0
  BY FS_CardinalityType, DemoAssumption DEF expectedClients
<1>3. TypeOK /\ CountsAgree /\ QuitsLast /\ ClientsFollow /\ ReadyWhenListening
  BY DEF DemoInv
<1>4. CASE UNCHANGED vars
  BY <1>3, <1>4 DEF vars, TypeOK
<1>5. CASE WaitReady \/ JoinAll \/ Start \/ Announce \/ ServerEnds
  BY <1>3, <1>5
  DEF WaitReady, JoinAll, Start, Announce, ServerEnds, TypeOK, MainStates, ServerStates
<1>6. ASSUME NEW c \in Clients, SpawnClient(c) PROVE TypeOK'
  BY <1>3, <1>6 DEF SpawnClient, TypeOK, MainStates, ClientStates
<1>7. ASSUME NEW c \in Clients, Accept(c) PROVE TypeOK'
  <2>1. Cardinality(Accepted) \in Nat
    BY DemoAssumption, FS_Subset, FS_CardinalityType DEF Accepted
  <2>2. Cardinality(Accepted) % IoThreads \in 0 .. IoThreads - 1
    BY <1>2, <2>1
  <2>3. QED  BY <1>3, <1>7, <2>2 DEF Accept, TypeOK, ConnStates
<1>8. CASE Quit
  BY <1>2, <1>3, <1>8 DEF Quit, TypeOK, ServerStates
<1>9. ASSUME NEW c \in Clients, EndConnection(c) \/ Connect(c) \/ Close(c) PROVE TypeOK'
  BY <1>3, <1>9 DEF EndConnection, Connect, Close, TypeOK, ConnStates, ClientStates
<1>10. ASSUME NEW c \in Clients, CountTotal(c) PROVE TypeOK'
  <2>1. total < expectedClients
    BY <1>3, <1>10, NotAllCounted DEF CountTotal, Uncounted
  <2>2. total' \in 0 .. expectedClients /\ alive' \in 0 .. total'
    BY <1>1, <1>2, <1>10, <2>1 DEF CountTotal
  <2>3. QED  BY <1>3, <1>10, <2>2 DEF CountTotal, TypeOK, ConnStates
<1>11. ASSUME NEW c \in Clients, CountAlive(c) PROVE TypeOK'
  <2>1. InState(conn, {"counted"}) \in Nat /\ InState(conn, {"counted"}) # 0
    BY <1>11, InStateType DEF CountAlive
  <2>2. alive' \in 0 .. total'
    <3>1. alive + InState(conn, {"counted"}) <= total /\ alive \in Nat /\ total \in Nat
      BY <1>1, <1>2, <1>3 DEF CountsAgree
    <3>2. alive + 1 \in 0 .. total
      BY <2>1, <3>1
    <3>3. QED  BY <1>11, <3>2 DEF CountAlive
  <2>3. QED  BY <1>3, <1>11, <2>2 DEF CountAlive, TypeOK, ConnStates
<1>12. ASSUME NEW c \in Clients, Echo(c) PROVE TypeOK'
  <2>1. PICK n \in 1 .. toServer[c] : /\ toServer' = [toServer EXCEPT ![c] = @ - n]
                                      /\ toClient' = [toClient EXCEPT ![c] = @ + n]
    BY <1>12 DEF Echo
  <2>2. /\ n \in Nat /\ n <= toServer[c] /\ toServer[c] \in Nat /\ toClient[c] \in Nat
        /\ received[c] \in Nat /\ received[c] + toClient[c] + toServer[c] <= MsgLen
    BY <1>1, <2>1
  <2>3. /\ toServer[c] - n \in Nat /\ toClient[c] + n \in Nat
        /\ received[c] + (toClient[c] + n) + (toServer[c] - n) <= MsgLen
    BY <1>2, <2>2
  <2>4. /\ toServer' \in [Clients -> Nat] /\ toClient' \in [Clients -> Nat]
        /\ \A d \in Clients : received[d] + toClient'[d] + toServer'[d] <= MsgLen
    BY <1>1, <2>1, <2>3
  <2>5. QED  BY <1>3, <1>12, <2>4 DEF Echo, TypeOK
<1>13. ASSUME NEW c \in Clients, Leave(c) PROVE TypeOK'
  <2>1. InState(conn, {"up"}) \in Nat /\ InState(conn, {"up"}) # 0
    BY <1>13, InStateType DEF Leave
  <2>2. alive > 0
    BY <1>1, <1>3, <2>1 DEF CountsAgree
  <2>3. alive - 1 \in 0 .. total /\ alive - 1 \in 0 .. expectedClients
    BY <1>1, <1>2, <2>2
  <2>4. QED  BY <1>3, <1>13, <2>3 DEF Leave, TypeOK, ConnStates
<1>14. ASSUME NEW c \in Clients, TestQuit(c) PROVE TypeOK'
  <2>1. InState(conn, Busy) \in Nat /\ InState(conn, Busy) # 0
    BY <1>14, InStateType DEF TestQuit, Busy, ConnStates
  <2>2. quits' \in 0 .. expectedClients
    <3>1. /\ quits + InState(conn, Busy) <= expectedClients
          /\ quits \in Nat
      BY <1>1, <1>2, <1>3 DEF CountsAgree
    <3>2. quits \in 0 .. expectedClients /\ quits + 1 \in 0 .. expectedClients
      BY <1>2, <2>1, <3>1
    <3>3. QED  BY <1>14, <3>2 DEF TestQuit
  <2>3. QED  BY <1>3, <1>14, <2>2 DEF TestQuit, TypeOK, ConnStates
<1>15. ASSUME NEW c \in Clients, ConnectRefused(c) PROVE TypeOK'
  BY <1>15, RefusesNobody
<1>16. ASSUME NEW c \in Clients, Send(c) PROVE TypeOK'
  <2>1. received[c] = 0 /\ toClient[c] = 0
    BY <1>3, <1>16 DEF Send, ClientsFollow
  <2>2. /\ toServer' \in [Clients -> Nat]
        /\ \A d \in Clients : received[d] + toClient[d] + toServer'[d] <= MsgLen
    BY <1>1, <1>2, <1>16, <2>1 DEF Send
  <2>3. QED  BY <1>3, <1>16, <2>2 DEF Send, TypeOK, ClientStates
<1>17. ASSUME NEW c \in Clients, Receive(c) PROVE TypeOK'
  <2>1. PICK n \in 1 .. toClient[c] : /\ toClient' = [toClient EXCEPT ![c] = @ - n]
                                      /\ received' = [received EXCEPT ![c] = @ + n]
    BY <1>17 DEF Receive
  <2>2. /\ n \in Nat /\ n <= toClient[c] /\ toServer[c] \in Nat /\ toClient[c] \in Nat
        /\ received[c] \in Nat /\ received[c] + toClient[c] + toServer[c] <= MsgLen
    BY <1>1, <2>1
  <2>3. /\ toClient[c] - n \in Nat /\ received[c] + n \in Nat
        /\ (received[c] + n) + (toClient[c] - n) + toServer[c] <= MsgLen
    BY <1>2, <2>2
  <2>4. /\ toClient' \in [Clients -> Nat] /\ received' \in [Clients -> Nat]
        /\ \A d \in Clients : received'[d] + toClient'[d] + toServer[d] <= MsgLen
    BY <1>1, <2>1, <2>3
  <2>5. client' \in [Clients -> ClientStates]
    BY <1>1, <1>17 DEF Receive, ClientStates
  <2>6. QED  BY <1>3, <1>17, <2>4, <2>5 DEF Receive, TypeOK
<1>18. ASSUME NEW c \in Clients, ClosedEarly(c) PROVE TypeOK'
  BY <1>3, <1>18 DEF ClosedEarly, TypeOK, MainStates
<1>19. QED
  BY <1>4, <1>5, <1>6, <1>7, <1>8, <1>9, <1>10, <1>11, <1>12, <1>13, <1>14, <1>15, <1>16,
     <1>17, <1>18
  DEF Next, MainStep, ServerStep, IoStep, Callback, ClientStep

LEMMA CountsMove ==
    ASSUME TypeOK, NEW c \in Clients, NEW v, conn' = [conn EXCEPT ![c] = v]
    PROVE  conn'[c] = v /\ \A S : Moved(conn, conn', c, S)
<1>1. conn'[c] = v /\ \A d \in Clients \ {c} : conn'[d] = conn[d]
  BY DEF TypeOK
<1>2. c \in Clients
  OBVIOUS
<1>3. \A S : Moved(conn, conn', c, S)
  BY ONLY <1>1, <1>2, InStateMoves
<1>4. QED  BY <1>1, <1>3

LEMMA CountsKept == DemoInv /\ [Next]_vars => CountsAgree'
<1> SUFFICES ASSUME DemoInv, [Next]_vars PROVE CountsAgree'
  OBVIOUS
<1> USE DEF serverVars, clientVars, connVars, dataVars, countVars
<1>1. /\ TypeOK /\ CountsAgree /\ ClientsFollow /\ expectedClients \in Nat
      /\ total \in Nat /\ alive \in Nat /\ quits \in Nat
      /\ conn \in [Clients -> ConnStates]
  <2>1. expectedClients \in Nat
    BY FS_CardinalityType, DemoAssumption DEF expectedClients
  <2>2. total \in Nat
    BY <2>1 DEF DemoInv, TypeOK
  <2>3. QED  BY <2>1, <2>2 DEF DemoInv, TypeOK
<1>2. /\ expectedClients' = expectedClients
      /\ \A S : InState(conn, S) \in Nat /\ InState(conn', S) \in Nat
  BY InStateType DEF expectedClients
<1>3. ASSUME NEW c \in Clients, Accept(c) PROVE CountsAgree'
  <2>1. conn[c] = "backlog" /\ conn' = [conn EXCEPT ![c] = "accepted"]
    BY <1>1, <1>3 DEF Accept
  <2>2. conn'[c] = "accepted" /\ \A S : Moved(conn, conn', c, S)
    BY <1>1, <2>1, CountsMove
  <2>3. /\ InState(conn', Uncounted) = InState(conn, Uncounted)
        /\ InState(conn', {"up"}) = InState(conn, {"up"})
        /\ InState(conn', {"counted"}) = InState(conn, {"counted"})
        /\ InState(conn', Busy) = InState(conn, Busy)
    BY ONLY <2>1, <2>2 DEF Moved, Uncounted, Busy, ConnStates
  <2>4. total' = total /\ alive' = alive /\ quits' = quits
    BY <1>1, <1>3 DEF Accept
  <2>5. QED  BY <1>1, <1>2, <2>3, <2>4 DEF CountsAgree
<1>4. ASSUME NEW c \in Clients, CountTotal(c) PROVE CountsAgree'
  <2>1. conn[c] = "accepted" /\ conn' = [conn EXCEPT ![c] = "counted"]
    BY <1>1, <1>4 DEF CountTotal
  <2>2. conn'[c] = "counted" /\ \A S : Moved(conn, conn', c, S)
    BY <1>1, <2>1, CountsMove
  <2>3. /\ InState(conn, Uncounted) = InState(conn', Uncounted) + 1
        /\ InState(conn', {"up"}) = InState(conn, {"up"})
        /\ InState(conn', {"counted"}) = InState(conn, {"counted"}) + 1
        /\ InState(conn', Busy) = InState(conn, Busy)
    BY ONLY <2>1, <2>2 DEF Moved, Uncounted, Busy, ConnStates
  <2>4. total' = total + 1 /\ alive' = alive /\ quits' = quits
    BY <1>1, <1>4 DEF CountTotal
  <2>5. QED  BY <1>1, <1>2, <2>3, <2>4 DEF CountsAgree
<1>5. ASSUME NEW c \in Clients, CountAlive(c) PROVE CountsAgree'
  <2>1. conn[c] = "counted" /\ conn' = [conn EXCEPT ![c] = "up"]
    BY <1>1, <1>5 DEF CountAlive
  <2>2. conn'[c] = "up" /\ \A S : Moved(conn, conn', c, S)
    BY <1>1, <2>1, CountsMove
  <2>3. /\ InState(conn', Uncounted) = InState(conn, Uncounted)
        /\ InState(conn', {"up"}) = InState(conn, {"up"}) + 1
        /\ InState(conn, {"counted"}) = InState(conn', {"counted"}) + 1
        /\ InState(conn', Busy) = InState(conn, Busy)
    BY ONLY <2>1, <2>2 DEF Moved, Uncounted, Busy, ConnStates
  <2>4. total' = total /\ alive' = alive + 1 /\ quits' = quits
    BY <1>1, <1>5 DEF CountAlive
  <2>5. QED  BY <1>1, <1>2, <2>3, <2>4 DEF CountsAgree
<1>6. ASSUME NEW c \in Clients, Connect(c) PROVE CountsAgree'
  <2>1. conn[c] = "none" /\ conn' = [conn EXCEPT ![c] = "backlog"]
    BY <1>1, <1>6 DEF Connect, ClientsFollow
  <2>2. conn'[c] = "backlog" /\ \A S : Moved(conn, conn', c, S)
    BY <1>1, <2>1, CountsMove
  <2>3. /\ InState(conn', Uncounted) = InState(conn, Uncounted)
        /\ InState(conn', {"up"}) = InState(conn, {"up"})
        /\ InState(conn', {"counted"}) = InState(conn, {"counted"})
        /\ InState(conn', Busy) = InState(conn, Busy)
    BY ONLY <2>1, <2>2 DEF Moved, Uncounted, Busy, ConnStates
  <2>4. total' = total /\ alive' = alive /\ quits' = quits
    BY <1>1, <1>6 DEF Connect
  <2>5. QED  BY <1>1, <1>2, <2>3, <2>4 DEF CountsAgree
<1>7. ASSUME NEW c \in Clients, Leave(c) PROVE CountsAgree'
  <2>1. conn[c] = "up" /\ conn' = [conn EXCEPT ![c] = "leaving"]
    BY <1>1, <1>7 DEF Leave
  <2>2. conn'[c] = "leaving" /\ \A S : Moved(conn, conn', c, S)
    BY <1>1, <2>1, CountsMove
  <2>3. /\ InState(conn', Uncounted) = InState(conn, Uncounted)
        /\ InState(conn, {"up"}) = InState(conn', {"up"}) + 1
        /\ InState(conn', {"counted"}) = InState(conn, {"counted"})
        /\ InState(conn', Busy) = InState(conn, Busy)
    BY ONLY <2>1, <2>2 DEF Moved, Uncounted, Busy, ConnStates
  <2>4. total' = total /\ alive' = alive - 1 /\ quits' = quits
    BY <1>1, <1>7 DEF Leave
  <2>5. QED  BY <1>1, <1>2, <2>3, <2>4 DEF CountsAgree
<1>8. ASSUME NEW c \in Clients, TestQuit(c) PROVE CountsAgree'
  <2>1. conn[c] = "leaving" /\ conn' = [conn EXCEPT ![c] = "down"]
    BY <1>1, <1>8 DEF TestQuit
  <2>2. conn'[c] = "down" /\ \A S : Moved(conn, conn', c, S)
    BY <1>1, <2>1, CountsMove
  <2>3. /\ InState(conn', Uncounted) = InState(conn, Uncounted)
        /\ InState(conn', {"up"}) = InState(conn, {"up"})
        /\ InState(conn', {"counted"}) = InState(conn, {"counted"})
        /\ InState(conn, Busy) = InState(conn', Busy) + 1
    BY ONLY <2>1, <2>2 DEF Moved, Uncounted, Busy, ConnStates
  <2>4. total' = total /\ alive' = alive /\ quits' \in {quits, quits + 1}
    BY <1>1, <1>8 DEF TestQuit
  <2>5. QED  BY <1>1, <1>2, <2>3, <2>4 DEF CountsAgree
<1>9. ASSUME NEW c \in Clients, EndConnection(c) PROVE CountsAgree'
  <2>1. /\ conn[c] \in {"backlog", "accepted", "up"} /\ conn' = [conn EXCEPT ![c] = "down"]
        /\ total' = total /\ alive' = alive /\ quits' = quits
    BY <1>9 DEF EndConnection
  <2>2. /\ InState(conn', Uncounted) <= InState(conn, Uncounted)
        /\ InState(conn', {"up"}) <= InState(conn, {"up"})
        /\ InState(conn', {"counted"}) <= InState(conn, {"counted"})
        /\ InState(conn', Busy) <= InState(conn, Busy)
    <3>1. ASSUME NEW S, "down" \notin S PROVE InState(conn', S) <= InState(conn, S)
      <4>1. conn'[c] = "down" /\ Moved(conn, conn', c, S)
        BY <1>1, <2>1, CountsMove
      <4>2. QED  BY ONLY <3>1, <4>1 DEF Moved
    <3>2. QED  BY <3>1 DEF Uncounted, Busy
  <2>3. /\ InState(conn', Uncounted) \in Nat /\ InState(conn', {"up"}) \in Nat
        /\ InState(conn', {"counted"}) \in Nat /\ InState(conn', Busy) \in Nat
        /\ InState(conn, Uncounted) \in Nat /\ InState(conn, {"up"}) \in Nat
        /\ InState(conn, {"counted"}) \in Nat /\ InState(conn, Busy) \in Nat
    BY <1>2
  <2>4. QED  BY ONLY <1>1, <1>2, <2>1, <2>2, <2>3 DEF CountsAgree
<1>10. CASE Quit
  <2>1. /\ total' = total /\ alive' = alive /\ quits' = quits - 1 /\ conn' = conn
    BY <1>10 DEF Quit
  <2>2. QED  BY <1>1, <1>2, <2>1 DEF CountsAgree
<1>11. CASE UNCHANGED <<conn, countVars, quits>>
  BY <1>1, <1>2, <1>11 DEF CountsAgree
<1>12. QED
  BY <1>3, <1>4, <1>5, <1>6, <1>7, <1>8, <1>9, <1>10, <1>11
  DEF Next, MainStep, ServerStep, IoStep, Callback, ClientStep, vars, WaitReady, SpawnClient,
      JoinAll, Start, Announce, ServerEnds, Echo, ConnectRefused, Send, Receive, ClosedEarly,
      Close

LEMMA ClientsKept == DemoInv /\ [Next]_vars => ClientsFollow' /\ ReadyWhenListening'
<1> SUFFICES ASSUME DemoInv, [Next]_vars PROVE ClientsFollow' /\ ReadyWhenListening'
  OBVIOUS
<1> USE DEF serverVars, clientVars, connVars, dataVars, countVars, ClientsFollow,
            ReadyWhenListening
<1>1. /\ ClientsFollow /\ ReadyWhenListening
      /\ server \in ServerStates /\ client \in [Clients -> ClientStates]
      /\ conn \in [Clients -> ConnStates] /\ received \in [Clients -> Nat]
      /\ toClient \in [Clients -> Nat] /\ toServer \in [Clients -> Nat]
  BY DEF DemoInv, TypeOK
<1>2. CASE UNCHANGED vars
  BY <1>1, <1>2 DEF vars
<1>3. CASE WaitReady \/ JoinAll \/ Start \/ Announce \/ ServerEnds \/ Quit
  BY <1>1, <1>3 DEF WaitReady, JoinAll, Start, Announce, ServerEnds, Quit
<1>4. ASSUME NEW c \in Clients, SpawnClient(c) PROVE ClientsFollow' /\ ReadyWhenListening'
  BY <1>1, <1>4 DEF SpawnClient
<1>5. ASSUME NEW c \in Clients, Accept(c) \/ EndConnection(c)
      PROVE  ClientsFollow' /\ ReadyWhenListening'
  BY <1>1, <1>5 DEF Accept, EndConnection
<1>6. ASSUME NEW c \in Clients, CountTotal(c) \/ CountAlive(c) \/ Leave(c) \/ TestQuit(c)
      PROVE  ClientsFollow' /\ ReadyWhenListening'
  BY <1>1, <1>6 DEF CountTotal, CountAlive, Leave, TestQuit
<1>7. ASSUME NEW c \in Clients, Echo(c) PROVE ClientsFollow' /\ ReadyWhenListening'
  <2>1. client[c] \notin {"none", "connecting", "connected"}
    BY <1>1, <1>7 DEF Echo
  <2>2. QED  BY <1>1, <1>7, <2>1 DEF Echo
<1>8. ASSUME NEW c \in Clients, Connect(c) \/ ConnectRefused(c)
      PROVE  ClientsFollow' /\ ReadyWhenListening'
  BY <1>1, <1>8 DEF Connect, ConnectRefused
<1>9. ASSUME NEW c \in Clients, Send(c) \/ Receive(c) \/ ClosedEarly(c) \/ Close(c)
      PROVE  ClientsFollow' /\ ReadyWhenListening'
  BY <1>1, <1>9 DEF Send, Receive, ClosedEarly, Close
<1>10. QED
  BY <1>2, <1>3, <1>4, <1>5, <1>6, <1>7, <1>8, <1>9
  DEF Next, MainStep, ServerStep, IoStep, Callback, ClientStep

LEMMA QuitsKept == DemoInv /\ [Next]_vars => QuitsLast'
<1> SUFFICES ASSUME DemoInv, [Next]_vars PROVE QuitsLast'
  OBVIOUS
<1> USE DEF serverVars, clientVars, connVars, dataVars, countVars
<1>1. /\ TypeOK /\ CountsAgree /\ QuitsLast
      /\ expectedClients \in Nat /\ total \in 0 .. expectedClients
      /\ quits \in 0 .. expectedClients /\ expectedClients' = expectedClients
  BY FS_CardinalityType, DemoAssumption DEF DemoInv, TypeOK, expectedClients
<1>2. ASSUME NEW c \in Clients, CountTotal(c) PROVE QuitsLast'
  <2>1. total < expectedClients
    BY <1>1, <1>2, NotAllCounted DEF CountTotal, Uncounted
  <2>2. quits = 0 /\ server \notin {"ending", "gone"}
    BY <1>1, <2>1 DEF QuitsLast
  <2>3. QED  BY <1>2, <2>2 DEF CountTotal, QuitsLast
<1>3. ASSUME NEW c \in Clients, TestQuit(c) PROVE QuitsLast'
  <2>1. ShouldQuit(c) => total = expectedClients
    BY <1>1 DEF ShouldQuit
  <2>2. QED  BY <1>1, <1>3, <2>1 DEF TestQuit, QuitsLast
<1>4. CASE Start \/ Announce \/ ServerEnds \/ Quit
  BY <1>1, <1>4 DEF Start, Announce, ServerEnds, Quit, QuitsLast
<1>5. CASE UNCHANGED <<server, quits, total>>
  BY <1>1, <1>5 DEF QuitsLast
<1>6. QED
  BY <1>2, <1>3, <1>4, <1>5
  DEF Next, MainStep, ServerStep, IoStep, Callback, ClientStep, vars, WaitReady, SpawnClient,
      JoinAll, Accept, EndConnection, CountAlive, Echo, Leave, Connect, ConnectRefused, Send,
      Receive, ClosedEarly, Close

LEMMA RefusedKept == DemoInv /\ [Next]_vars => NeverRefused'
<1> SUFFICES ASSUME DemoInv, [Next]_vars PROVE NeverRefused'
  OBVIOUS
<1>1. \A c \in Clients : ~ConnectRefused(c)
  BY RefusesNobody
<1>2. attempts' = attempts
  BY <1>1
  DEF Next, MainStep, ServerStep, IoStep, Callback, ClientStep, WaitReady, JoinAll,
      SpawnClient, Start, Announce, Quit, ServerEnds, Accept, EndConnection, CountTotal,
      CountAlive, Echo, Leave, TestQuit, Connect, Send, Receive, ClosedEarly, Close,
      vars, clientVars
<1>3. QED  BY <1>2 DEF DemoInv, NeverRefused

-----------------------------------------------------------------------------
(* Theorems                                                                *)

LEMMA DemoInvariant == Spec => []DemoInv
<1>1. DemoInv /\ [Next]_vars => DemoInv'
  BY TypesKept, CountsKept, QuitsKept, ClientsKept, RefusedKept DEF DemoInv
<1>2. QED  BY DemoInit, <1>1, PTL DEF Spec

\* Type correctness of the demo: the units of a message are somewhere on their way, and the
\* counters of AutoQuitEchoServer never leave the range of its clients, alive <= total.
THEOREM DemoTypeCorrect == Spec => []TypeOK
<1>1. DemoInv => TypeOK
  BY DEF DemoInv
<1>2. QED  BY DemoInvariant, <1>1, PTL

\* However the threads interleave, connect() is refused to no client: main() lets the
\* clients go when start() has returned (main2.cpp), and onConnection() quits the loop for
\* nobody as long as a client is still to come (autoquitechoserver.cpp).
THEOREM NoClientRefused == Spec => []NeverRefused
<1>1. DemoInv => NeverRefused
  BY DEF DemoInv
<1>2. QED  BY DemoInvariant, <1>1, PTL

\* The half of the comment at autoquitechoserver.cpp:18 that holds: the server is not told
\* to quit, and does not end, before every expected client has been counted.  The other
\* half, that no connection is live then, does not (QuitsAfterAllLeft).
THEOREM QuitWaitsForAll == Spec => []QuitsLast
<1>1. DemoInv => QuitsLast
  BY DEF DemoInv
<1>2. QED  BY DemoInvariant, <1>1, PTL
=============================================================================
