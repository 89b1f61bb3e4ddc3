--------------------------- MODULE TcpServerProofs ---------------------------
(***************************************************************************)
(* Proofs about TcpServer, for every finite set of clients and every       *)
(* number of threads.                                                      *)
(***************************************************************************)
EXTENDS TcpServer, SequenceTheorems, FiniteSetTheorems, TLAPS

\* ~TcpServer() has not begun
Alive == server \in {"new", "serving"}

\* What the threads of the pool and ~TcpServer() have come to.
PoolInv ==
    /\ server = "new" =>
          /\ subLoops = 0 /\ next = 0 /\ joined = 0
          /\ connections = {} /\ backlog = {} /\ \A c \in Conns : loopOf[c] = NoLoop
    /\ server = "joining" => joined < subLoops
    /\ ~(Alive \/ server = "clearing") => connections = {}
    /\ server = "gone" => joined = subLoops
    /\ Alive => joined = 0
    /\ \A l \in Subs : /\ l > subLoops => pc[l] = "none"
                       /\ l <= joined => pc[l] = "exited"
                       /\ quit[l] \/ pc[l] \in {"left", "exited"} =>
                             ~(Alive \/ server = "clearing")
    /\ pc[Main] = "exited" => server = "gone"
    /\ pc[Main] # "none"

\* Clients that wait are not accepted yet, and what is accepted is on a loop.
BacklogInv ==
    /\ \A c \in backlog : loopOf[c] = NoLoop
    /\ \A c \in connections : loopOf[c] # NoLoop

\* A batch exists while functors run, and a handleClose() while events are dispatched.
LoopInv ==
    \A l \in Loops : /\ closing[l] # NoConn => pc[l] = "dispatch"
                     /\ pc[l] # "functors" => functors[l] = <<>> /\ ran[l] = 0

ServerTypes == TypeOK /\ PoolInv /\ BacklogInv /\ LoopInv

LEMMA FunctorType ==
    \A op \in {"connectEstablished", "connectDestroyed", "removeConnectionInLoop"} :
        \A c \in Conns : /\ Functor(op, c) \in Functors
                         /\ Functor(op, c)[1] = op /\ Functor(op, c)[2] = c
  BY DEF Functor, Functors

LEMMA LoopFacts ==
    /\ Main \in Loops /\ Subs \subseteq Loops /\ Main \notin Subs /\ NoLoop \notin Loops
    /\ \A l \in Loops : l = Main \/ l \in Subs
  BY ServerAssumption DEF Main, Subs, Loops, NoLoop

LEMMA EnqueueTypes ==
    ASSUME TypeOK, NEW l, NEW f \in Functors, Enqueue(l, f)
    PROVE  queue' \in [Loops -> Seq(Functors)]
<1>1. queue \in [Loops -> Seq(Functors)]
  BY DEF TypeOK
<1>2. CASE l \in Loops
  <2>1. Append(queue[l], f) \in Seq(Functors)
    BY <1>1, <1>2
  <2>2. QED  BY <1>1, <1>2, <2>1 DEF Enqueue
<1>3. CASE l \notin Loops
  BY <1>1, <1>3 DEF Enqueue
<1>4. QED  BY <1>2, <1>3

LEMMA TypesInit == Init => ServerTypes
<1> SUFFICES ASSUME Init PROVE ServerTypes
  OBVIOUS
<1>1. <<>> \in Seq(Functors) /\ Len(<<>>) = 0 /\ MaxThreads \in Nat
  BY ServerAssumption
<1>2. TypeOK
  BY <1>1, ServerAssumption DEF Init, TypeOK, ServerStates, Pcs, Loops, Main, NoLoop
<1>3. PoolInv
  BY <1>1, LoopFacts DEF Init, PoolInv, Alive, Subs, Main
<1>4. BacklogInv
  BY DEF Init, BacklogInv
<1>5. LoopInv
  BY DEF Init, LoopInv, Alive
<1>6. QED  BY <1>2, <1>3, <1>4, <1>5 DEF ServerTypes

LEMMA TypesKept == ServerTypes /\ [Next]_vars => TypeOK'
<1> SUFFICES ASSUME ServerTypes, [Next]_vars PROVE TypeOK'
  OBVIOUS
<1> USE DEF poolVars, mapVars, clientVars, connVars, loopVars, ServerVars
<1>1. TypeOK /\ PoolInv /\ BacklogInv /\ LoopInv /\ MaxThreads \in Nat
  BY ServerAssumption DEF ServerTypes
<1>2. CASE UNCHANGED vars
  BY <1>1, <1>2 DEF vars, TypeOK
<1>3. ASSUME NEW n \in 0 .. MaxThreads, Start(n) PROVE TypeOK'
  BY <1>1, <1>3 DEF Start, StartPool, Listen, TypeOK, PoolInv, ServerStates, Pcs, Loops
<1>4. ASSUME NEW l \in Loops, EnterLoop(l) \/ TestQuit(l) \/ DestroyLoop(l) PROVE TypeOK'
  <2>1. CASE EnterLoop(l)
    BY <1>1, <2>1 DEF EnterLoop, TypeOK, Pcs
  <2>2. CASE TestQuit(l)
    BY <1>1, <2>2 DEF TestQuit, TypeOK, Pcs
  <2>3. CASE DestroyLoop(l)
    <3>1. queue' \in [Loops -> Seq(Functors)]
      BY <1>1, <2>3 DEF DestroyLoop, TypeOK
    <3>2. pc' \in [Loops -> Pcs]
      BY <1>1, <2>3 DEF DestroyLoop, TypeOK, Pcs
    <3>3. QED  BY <1>1, <2>3, <3>1, <3>2 DEF DestroyLoop, TypeOK
  <2>4. QED  BY <1>4, <2>1, <2>2, <2>3
<1>5. ASSUME NEW l \in Loops, BeginFunctors(l) PROVE TypeOK'
  <2>1. queue' \in [Loops -> Seq(Functors)] /\ functors' \in [Loops -> Seq(Functors)]
    BY <1>1, <1>5 DEF BeginFunctors, TypeOK
  <2>2. pc' \in [Loops -> Pcs]
    BY <1>1, <1>5 DEF BeginFunctors, TypeOK, Pcs
  <2>3. ASSUME NEW k \in Loops PROVE ran'[k] <= Len(functors'[k])
    <3>1. CASE k = l
      <4>1. ran'[k] = 0 /\ Len(functors'[k]) \in Nat
        BY <1>1, <1>5, <2>1, <3>1, LenProperties DEF BeginFunctors, Dispatching, LoopInv
      <4>2. QED  BY <4>1
    <3>2. CASE k # l
      BY <1>1, <1>5, <3>2 DEF BeginFunctors, TypeOK
    <3>3. QED  BY <3>1, <3>2
  <2>4. QED  BY <1>1, <1>5, <2>1, <2>2, <2>3 DEF BeginFunctors, TypeOK
<1>6. ASSUME NEW l \in Loops, EndFunctors(l) PROVE TypeOK'
  BY <1>1, <1>6 DEF EndFunctors, TypeOK, Pcs
<1>7. ASSUME NEW l \in Loops, NEW c \in Conns, RunConnectEstablished(l, c) PROVE TypeOK'
  BY <1>1, <1>7 DEF RunConnectEstablished, connectEstablished, Runs, TypeOK
<1>8. ASSUME NEW l \in Loops, NEW c \in Conns, RunConnectDestroyed(l, c) PROVE TypeOK'
  BY <1>1, <1>8 DEF RunConnectDestroyed, connectDestroyed, Runs, TypeOK
<1>9. ASSUME NEW c \in Conns, NewConnection(c) PROVE TypeOK'
  <2>1. NextLoop \in {Main} \cup 1 .. subLoops
    BY <1>1 DEF NextLoop, TypeOK
  <2>2. NextIndex \in 0 .. MaxThreads /\ (subLoops > 0 => NextIndex < subLoops)
    BY <1>1 DEF NextIndex, TypeOK
  <2>3. queue' \in [Loops -> Seq(Functors)]
    <3>1. CASE queue' = queue
      BY <1>1, <3>1 DEF TypeOK
    <3>2. CASE Enqueue(NextLoop, Functor("connectEstablished", c))
      BY <1>1, <3>2, EnqueueTypes, FunctorType
    <3>3. QED  BY <1>9, <3>1, <3>2 DEF NewConnection
  <2>4. /\ state' \in [Conns -> {"kConnecting", "kConnected", "kDisconnected"}]
        /\ registered' \subseteq Conns /\ destroys' = destroys
    BY <1>1, <1>9 DEF NewConnection, connectEstablished, TypeOK
  <2>5. loopOf' \in [Conns -> {NoLoop, Main} \cup 1 .. subLoops]
    BY <1>1, <1>9, <2>1 DEF NewConnection, TypeOK
  <2>6. backlog' \cap connections' = {} /\ connections' \cup backlog' \subseteq Conns
    BY <1>1, <1>9 DEF NewConnection, AcceptorHandleRead, TypeOK
  <2>7. QED  BY <1>1, <1>9, <2>2, <2>3, <2>4, <2>5, <2>6 DEF NewConnection, TypeOK
<1>10. ASSUME NEW c \in Conns, NEW l \in Loops, HandleClose(l, c) PROVE TypeOK'
  BY <1>1, <1>10 DEF HandleClose, TypeOK
<1>11. ASSUME NEW l \in Loops, CloseCallback(l) PROVE TypeOK'
  <2>1. closing[l] \in Conns
    BY <1>1, <1>11 DEF CloseCallback, TypeOK
  <2>2. queue' \in [Loops -> Seq(Functors)] /\ connections' \subseteq connections
    BY <1>1, <1>11, <2>1, EnqueueTypes, FunctorType
    DEF CloseCallback, removeConnection, removeConnectionInLoop
  <2>3. closing' \in [Loops -> Conns \cup {NoConn}]
    BY <1>1, <1>11 DEF CloseCallback, TypeOK
  <2>4. QED  BY <1>1, <1>11, <2>2, <2>3 DEF CloseCallback, TypeOK
<1>12. ASSUME NEW c \in Conns, RunRemoveConnection(c) PROVE TypeOK'
  <2>1. queue' \in [Loops -> Seq(Functors)] /\ connections' \subseteq connections
    BY <1>1, <1>12, EnqueueTypes, FunctorType DEF RunRemoveConnection, removeConnectionInLoop
  <2>2. ran' \in [Loops -> Nat] /\ \A l \in Loops : ran'[l] <= Len(functors'[l])
    <3>1. /\ ran[Main] < Len(functors[Main]) /\ ran' = [ran EXCEPT ![Main] = @ + 1]
          /\ functors' = functors
      BY <1>12 DEF RunRemoveConnection, Runs
    <3>2. /\ ran \in [Loops -> Nat] /\ \A l \in Loops : ran[l] <= Len(functors[l])
          /\ \A l \in Loops : Len(functors[l]) \in Nat
      BY <1>1, LenProperties DEF TypeOK
    <3>3. ran' \in [Loops -> Nat]
      BY <3>1, <3>2, LoopFacts
    <3>4. ASSUME NEW l \in Loops PROVE ran'[l] <= Len(functors'[l])
      <4>1. CASE l = Main
        <5>1. ran'[Main] = ran[Main] + 1 /\ Main \in Loops
          BY <3>1, <3>2, LoopFacts
        <5>2. ran[Main] \in Nat /\ Len(functors[Main]) \in Nat
          BY <3>2, <5>1
        <5>3. QED  BY <3>1, <4>1, <5>1, <5>2
      <4>2. CASE l # Main
        BY <3>1, <3>2, <4>2
      <4>3. QED  BY <4>1, <4>2
    <3>5. QED  BY <3>3, <3>4
  <2>3. QED  BY <1>1, <1>12, <2>1, <2>2 DEF RunRemoveConnection, Runs, TypeOK
<1>13. ASSUME NEW c \in Conns, Connect(c) \/ HangUp(c) PROVE TypeOK'
  BY <1>1, <1>13 DEF Connect, HangUp, TypeOK, BacklogInv
<1>14. CASE QuitMain
  BY <1>1, <1>14 DEF QuitMain, TypeOK
<1>15. CASE DestroyServer
  BY <1>1, <1>15 DEF DestroyServer, TypeOK, ServerStates
<1>16. ASSUME NEW c \in Conns, DestroyConnection(c) PROVE TypeOK'
  <2>1. queue' \in [Loops -> Seq(Functors)]
    <3>1. CASE queue' = queue
      BY <1>1, <3>1 DEF TypeOK
    <3>2. CASE Enqueue(loopOf[c], Functor("connectDestroyed", c))
      BY <1>1, <3>2, EnqueueTypes, FunctorType
    <3>3. QED  BY <1>16, <3>1, <3>2 DEF DestroyConnection
  <2>2. /\ state' \in [Conns -> {"kConnecting", "kConnected", "kDisconnected"}]
        /\ registered' \subseteq Conns /\ destroys' \in [Conns -> Nat]
    <3>1. CASE UNCHANGED connVars
      BY <1>1, <3>1 DEF TypeOK
    <3>2. CASE connectDestroyed(c)
      BY <1>1, <3>2 DEF connectDestroyed, TypeOK
    <3>3. QED  BY <1>16, <3>1, <3>2 DEF DestroyConnection
  <2>3. QED  BY <1>1, <1>16, <2>1, <2>2 DEF DestroyConnection, TypeOK
<1>17. CASE DestroyAcceptor
  BY <1>1, <1>17 DEF DestroyAcceptor, TypeOK, ServerStates
<1>18. CASE QuitThread
  BY <1>1, <1>18 DEF QuitThread, TypeOK, ServerStates
<1>19. CASE JoinThread
  BY <1>1, <1>19 DEF JoinThread, TypeOK, ServerStates, PoolInv
<1>20. CASE ServerGone
  BY <1>1, <1>20 DEF ServerGone, TypeOK, ServerStates
<1>21. QED
  BY <1>2, <1>3, <1>4, <1>5, <1>6, <1>7, <1>8, <1>9, <1>10, <1>11, <1>12, <1>13, <1>14,
     <1>15, <1>16, <1>17, <1>18, <1>19, <1>20, LoopFacts
  DEF Next, MainRound, Round, SubStep, Reported, Destructor

LEMMA PoolKept == ServerTypes /\ [Next]_vars => PoolInv' /\ BacklogInv'
<1> SUFFICES ASSUME ServerTypes, [Next]_vars PROVE PoolInv' /\ BacklogInv'
  OBVIOUS
<1> USE DEF poolVars, mapVars, clientVars, connVars, loopVars, ServerVars, Alive
<1>1. /\ TypeOK /\ PoolInv /\ BacklogInv /\ LoopInv /\ MaxThreads \in Nat
      /\ Main \in Loops /\ Main = 0 /\ Subs = 1 .. MaxThreads /\ Subs \subseteq Loops
      /\ joined \in Nat /\ subLoops \in 0 .. MaxThreads /\ joined <= subLoops
      /\ pc \in [Loops -> Pcs] /\ quit \in [Loops -> BOOLEAN]
      /\ server \in ServerStates /\ connections \subseteq Conns /\ backlog \subseteq Conns
      /\ backlog \cap connections = {}
      /\ loopOf \in [Conns -> {NoLoop, Main} \cup 1 .. subLoops]
  BY ServerAssumption, LoopFacts DEF ServerTypes, TypeOK, Main, Subs
<1> USE DEF PoolInv, BacklogInv
<1>2. CASE UNCHANGED vars
  BY <1>1, <1>2 DEF vars
<1>3. ASSUME NEW n \in 0 .. MaxThreads, Start(n) PROVE PoolInv' /\ BacklogInv'
  BY <1>1, <1>3 DEF Start, StartPool, Listen, BetweenFunctors, ServerStates
<1>4. ASSUME NEW l \in Loops, EnterLoop(l) PROVE PoolInv' /\ BacklogInv'
  BY <1>1, <1>4 DEF EnterLoop
<1>5. ASSUME NEW l \in Loops, TestQuit(l) PROVE PoolInv' /\ BacklogInv'
  BY <1>1, <1>5 DEF TestQuit
<1>6. ASSUME NEW l \in Loops, DestroyLoop(l) PROVE PoolInv' /\ BacklogInv'
  BY <1>1, <1>6 DEF DestroyLoop
<1>7. ASSUME NEW l \in Loops, BeginFunctors(l) \/ EndFunctors(l) PROVE PoolInv' /\ BacklogInv'
  BY <1>1, <1>7 DEF BeginFunctors, EndFunctors, Dispatching, BetweenFunctors
<1>8. ASSUME NEW l \in Loops, NEW c \in Conns,
             RunConnectEstablished(l, c) \/ RunConnectDestroyed(l, c)
      PROVE  PoolInv' /\ BacklogInv'
  BY <1>1, <1>8 DEF RunConnectEstablished, RunConnectDestroyed, Runs
<1>9. ASSUME NEW c \in Conns, NewConnection(c) PROVE PoolInv' /\ BacklogInv'
  <2>1. NextLoop # NoLoop
    BY <1>1 DEF NextLoop, NoLoop, TypeOK
  <2>2. /\ server = "serving" /\ connections' = connections \cup {c} /\ backlog' = backlog \ {c}
        /\ loopOf' = [loopOf EXCEPT ![c] = NextLoop]
        /\ UNCHANGED <<server, subLoops, joined, pc, quit>>
    BY <1>9 DEF NewConnection, AcceptorHandleRead
  <2>3. QED  BY <1>1, <2>1, <2>2
<1>10. ASSUME NEW c \in Conns, NEW l \in Loops, HandleClose(l, c) PROVE PoolInv' /\ BacklogInv'
  BY <1>1, <1>10 DEF HandleClose
<1>11. ASSUME NEW l \in Loops, CloseCallback(l) PROVE PoolInv' /\ BacklogInv'
  <2>1. connections' \subseteq connections
    BY <1>11 DEF CloseCallback, removeConnection, removeConnectionInLoop
  <2>2. QED  BY <1>1, <1>11, <2>1 DEF CloseCallback
<1>12. ASSUME NEW c \in Conns, RunRemoveConnection(c) PROVE PoolInv' /\ BacklogInv'
  <2>1. connections' \subseteq connections
    BY <1>12 DEF RunRemoveConnection, removeConnectionInLoop
  <2>2. QED  BY <1>1, <1>12, <2>1 DEF RunRemoveConnection, Runs
<1>13. ASSUME NEW c \in Conns, Connect(c) \/ HangUp(c) PROVE PoolInv' /\ BacklogInv'
  BY <1>1, <1>13 DEF Connect, HangUp
<1>14. CASE QuitMain
  BY <1>1, <1>14, LoopFacts DEF QuitMain
<1>15. CASE DestroyServer
  BY <1>1, <1>15 DEF DestroyServer
<1>16. ASSUME NEW c \in Conns, DestroyConnection(c) PROVE PoolInv' /\ BacklogInv'
  BY <1>1, <1>16 DEF DestroyConnection
<1>17. CASE DestroyAcceptor
  BY <1>1, <1>17 DEF DestroyAcceptor
<1>18. CASE QuitThread
  BY <1>1, <1>18 DEF QuitThread
<1>19. CASE JoinThread
  BY <1>1, <1>19 DEF JoinThread
<1>20. CASE ServerGone
  BY <1>1, <1>20 DEF ServerGone
<1>21. QED
  BY <1>2, <1>3, <1>4, <1>5, <1>6, <1>7, <1>8, <1>9, <1>10, <1>11, <1>12, <1>13, <1>14,
     <1>15, <1>16, <1>17, <1>18, <1>19, <1>20, LoopFacts
  DEF Next, MainRound, Round, SubStep, Reported, Destructor

LEMMA LoopKept == ServerTypes /\ [Next]_vars => LoopInv'
<1> SUFFICES ASSUME ServerTypes, [Next]_vars PROVE LoopInv'
  OBVIOUS
<1> USE DEF poolVars, mapVars, clientVars, connVars, loopVars, ServerVars, Alive, LoopInv
<1>1. /\ TypeOK /\ PoolInv /\ LoopInv /\ Main \in Loops
      /\ pc \in [Loops -> Pcs] /\ closing \in [Loops -> Conns \cup {NoConn}]
      /\ functors \in [Loops -> Seq(Functors)] /\ ran \in [Loops -> Nat]
      /\ server \in ServerStates
  BY LoopFacts DEF ServerTypes, TypeOK
<1>2. CASE UNCHANGED vars
  BY <1>1, <1>2 DEF vars
<1>3. ASSUME NEW n \in 0 .. MaxThreads, Start(n) PROVE LoopInv'
  <2>1. \A l \in 1 .. n : l \in Subs /\ pc[l] = "none"
    BY <1>1, <1>3, ServerAssumption DEF Start, PoolInv, Subs
  <2>2. QED  BY <1>1, <1>3, <2>1 DEF Start, StartPool, Listen
<1>4. ASSUME NEW l \in Loops, EnterLoop(l) \/ TestQuit(l) \/ DestroyLoop(l) PROVE LoopInv'
  BY <1>1, <1>4 DEF EnterLoop, TestQuit, DestroyLoop
<1>5. ASSUME NEW l \in Loops, BeginFunctors(l) PROVE LoopInv'
  BY <1>1, <1>5 DEF BeginFunctors, Dispatching
<1>6. ASSUME NEW l \in Loops, EndFunctors(l) PROVE LoopInv'
  BY <1>1, <1>6 DEF EndFunctors, BetweenFunctors
<1>7. ASSUME NEW l \in Loops, NEW op, NEW c \in Conns, Runs(l, op, c), UNCHANGED <<closing, server>>
      PROVE  LoopInv'
  BY <1>1, <1>7 DEF Runs, BetweenFunctors
<1>8. ASSUME NEW l \in Loops, NEW c \in Conns,
             RunConnectEstablished(l, c) \/ RunConnectDestroyed(l, c)
      PROVE  LoopInv'
  BY <1>7, <1>8 DEF RunConnectEstablished, RunConnectDestroyed
<1>9. ASSUME NEW c \in Conns, NewConnection(c) PROVE LoopInv'
  BY <1>1, <1>9 DEF NewConnection
<1>10. ASSUME NEW c \in Conns, NEW l \in Loops, HandleClose(l, c) PROVE LoopInv'
  BY <1>1, <1>10 DEF HandleClose, Dispatching
<1>11. ASSUME NEW l \in Loops, CloseCallback(l) PROVE LoopInv'
  BY <1>1, <1>11 DEF CloseCallback
<1>12. ASSUME NEW c \in Conns, RunRemoveConnection(c) PROVE LoopInv'
  BY <1>1, <1>7, <1>12 DEF RunRemoveConnection
<1>13. ASSUME NEW c \in Conns, Connect(c) \/ HangUp(c) \/ DestroyConnection(c) PROVE LoopInv'
  BY <1>1, <1>13 DEF Connect, HangUp, DestroyConnection
<1>14. CASE QuitMain
  BY <1>1, <1>14 DEF QuitMain
<1>15. CASE DestroyServer
  BY <1>1, <1>15 DEF DestroyServer, BetweenFunctors
<1>16. CASE DestroyAcceptor \/ ServerGone
  BY <1>1, <1>16 DEF DestroyAcceptor, ServerGone
<1>17. CASE QuitThread \/ JoinThread
  BY <1>1, <1>17 DEF QuitThread, JoinThread
<1>18. QED
  BY <1>2, <1>3, <1>4, <1>5, <1>6, <1>8, <1>9, <1>10, <1>11, <1>12, <1>13, <1>14,
     <1>15, <1>16, <1>17, LoopFacts
  DEF Next, MainRound, Round, SubStep, Reported, Destructor

-----------------------------------------------------------------------------
(* How often a functor waits                                               *)

\* the elements of q after the first k that are f
CountFrom(q, k, f) == Cardinality({i \in k + 1 .. Len(q) : q[i] = f})

\* per loop and connection: how often op of it is queued or still to run
WaitsFor(op) ==
    [l \in Loops |-> [c \in Conns |-> CountFrom(queue[l], 0, Functor(op, c))
                                      + CountFrom(functors[l], ran[l], Functor(op, c))]]

toEstablish == WaitsFor("connectEstablished")
toDestroy == WaitsFor("connectDestroyed")
toRemove == WaitsFor("removeConnectionInLoop")

Ops == {"connectEstablished", "connectDestroyed", "removeConnectionInLoop"}

LEMMA CountFinite ==
    ASSUME NEW q \in Seq(Functors), NEW k \in Nat, NEW f
    PROVE  /\ IsFiniteSet({i \in k + 1 .. Len(q) : q[i] = f})
           /\ CountFrom(q, k, f) \in Nat
<1>1. Len(q) \in Int /\ k + 1 \in Int
  BY LenProperties
<1>2. IsFiniteSet(k + 1 .. Len(q))
  BY <1>1, FS_Interval
<1>3. IsFiniteSet({i \in k + 1 .. Len(q) : q[i] = f})
  BY <1>2, FS_Subset
<1>4. QED  BY <1>3, FS_CardinalityType DEF CountFrom

LEMMA CountAppend ==
    ASSUME NEW q \in Seq(Functors), NEW g \in Functors, NEW f \in Functors
    PROVE  CountFrom(Append(q, g), 0, f) = CountFrom(q, 0, f) + (IF f = g THEN 1 ELSE 0)
<1> DEFINE r == Append(q, g)
           S == {i \in 0 + 1 .. Len(q) : q[i] = f}
           T == {i \in 0 + 1 .. Len(r) : r[i] = f}
<1>1. /\ Len(q) \in Nat /\ Len(r) = Len(q) + 1 /\ r[Len(q) + 1] = g
      /\ \A i \in 1 .. Len(q) : r[i] = q[i]
  BY LenProperties, AppendProperties
<1>2. IsFiniteSet(S) /\ CountFrom(q, 0, f) \in Nat
  BY CountFinite, 0 \in Nat
<1>3. Cardinality(S) = CountFrom(q, 0, f) /\ Cardinality(T) = CountFrom(r, 0, f)
  BY DEF CountFrom
<1>4. CASE f = g
  <2>1. T = S \cup {Len(q) + 1} /\ Len(q) + 1 \notin S
    BY <1>1, <1>4
  <2>2. Cardinality(T) = Cardinality(S) + 1
    BY <1>2, <2>1, FS_AddElement
  <2>3. QED  BY <1>3, <1>4, <2>2
<1>5. CASE f # g
  <2>1. T = S
    BY <1>1, <1>5
  <2>2. Cardinality(T) = Cardinality(S)
    BY ONLY <2>1
  <2> HIDE DEF S, T
  <2>3. QED  BY <1>2, <1>3, <1>5, <2>2
<1>6. QED  BY <1>4, <1>5

LEMMA CountAdvance ==
    ASSUME NEW q \in Seq(Functors), NEW k \in Nat, k < Len(q), NEW f \in Functors
    PROVE  CountFrom(q, k + 1, f) = CountFrom(q, k, f) - (IF f = q[k + 1] THEN 1 ELSE 0)
<1> DEFINE S == {i \in k + 1 .. Len(q) : q[i] = f}
           T == {i \in (k + 1) + 1 .. Len(q) : q[i] = f}
<1>1. Len(q) \in Nat /\ k + 1 \in Nat
  BY LenProperties
<1>2. IsFiniteSet(S) /\ CountFrom(q, k, f) \in Nat
  BY CountFinite
<1>3. Cardinality(S) = CountFrom(q, k, f) /\ Cardinality(T) = CountFrom(q, k + 1, f)
  BY DEF CountFrom
<1>4. CASE f = q[k + 1]
  <2>1. T = S \ {k + 1} /\ k + 1 \in S
    BY <1>1, <1>4
  <2>2. Cardinality(T) = Cardinality(S) - 1
    BY <1>2, <2>1, FS_RemoveElement
  <2>3. QED  BY <1>3, <1>4, <2>2
<1>5. CASE f # q[k + 1]
  <2>1. T = S
    BY <1>1, <1>5
  <2>2. Cardinality(T) = Cardinality(S)
    BY ONLY <2>1
  <2> HIDE DEF S, T
  <2>3. QED  BY <1>2, <1>3, <1>5, <2>2
<1>6. QED  BY <1>4, <1>5

LEMMA CountNone ==
    ASSUME NEW q \in Seq(Functors), NEW f
    PROVE  CountFrom(q, Len(q), f) = 0 /\ CountFrom(<<>>, 0, f) = 0
<1>1. Len(q) \in Nat /\ Len(<<>>) = 0
  BY LenProperties
<1>2. /\ {i \in Len(q) + 1 .. Len(q) : q[i] = f} = {}
      /\ {i \in 0 + 1 .. Len(<<>>) : <<>>[i] = f} = {}
  BY <1>1
<1>3. QED  BY <1>2, FS_EmptySet DEF CountFrom

LEMMA EnqueueCounts ==
    ASSUME TypeOK, NEW l \in Loops, NEW f \in Functors, Enqueue(l, f)
    PROVE  \A k \in Loops, g \in Functors :
              CountFrom(queue'[k], 0, g)
                = CountFrom(queue[k], 0, g) + (IF k = l /\ g = f THEN 1 ELSE 0)
<1> SUFFICES ASSUME NEW k \in Loops, NEW g \in Functors
             PROVE  CountFrom(queue'[k], 0, g)
                      = CountFrom(queue[k], 0, g) + (IF k = l /\ g = f THEN 1 ELSE 0)
  OBVIOUS
<1>1. queue[k] \in Seq(Functors) /\ queue' = [queue EXCEPT ![l] = Append(@, f)]
      /\ queue \in [Loops -> Seq(Functors)]
  BY DEF TypeOK, Enqueue
<1>2. CountFrom(queue[k], 0, g) \in Nat
  BY <1>1, CountFinite, 0 \in Nat
<1>3. CASE k = l
  <2>1. queue'[k] = Append(queue[k], f)
    BY <1>1, <1>3
  <2>2. CountFrom(Append(queue[k], f), 0, g)
          = CountFrom(queue[k], 0, g) + (IF g = f THEN 1 ELSE 0)
    BY <1>1, CountAppend
  <2>3. QED  BY <1>3, <2>1, <2>2
<1>4. CASE k # l
  <2>1. queue'[k] = queue[k]
    BY <1>1, <1>4
  <2>2. QED  BY <1>2, <1>4, <2>1
<1>5. QED  BY <1>3, <1>4

LEMMA RunsCounts ==
    ASSUME TypeOK, NEW l \in Loops, NEW op \in Ops, NEW c \in Conns, Runs(l, op, c)
    PROVE  \A k \in Loops, g \in Functors :
              CountFrom(functors'[k], ran'[k], g)
                = CountFrom(functors[k], ran[k], g)
                  - (IF k = l /\ g = Functor(op, c) THEN 1 ELSE 0)
<1> SUFFICES ASSUME NEW k \in Loops, NEW g \in Functors
             PROVE  CountFrom(functors'[k], ran'[k], g)
                      = CountFrom(functors[k], ran[k], g)
                        - (IF k = l /\ g = Functor(op, c) THEN 1 ELSE 0)
  OBVIOUS
<1>1. /\ functors[k] \in Seq(Functors) /\ ran[k] \in Nat /\ ran \in [Loops -> Nat]
      /\ functors' = functors /\ ran' = [ran EXCEPT ![l] = @ + 1]
      /\ ran[l] < Len(functors[l]) /\ functors[l][ran[l] + 1] = Functor(op, c)
  BY DEF TypeOK, Runs
<1>2. CountFrom(functors[k], ran[k], g) \in Nat
  BY <1>1, CountFinite
<1>3. CASE k = l
  <2>1. ran'[k] = ran[k] + 1 /\ ran[k] < Len(functors[k])
        /\ functors[k][ran[k] + 1] = Functor(op, c)
    BY <1>1, <1>3
  <2>2. CountFrom(functors[k], ran[k] + 1, g)
          = CountFrom(functors[k], ran[k], g)
            - (IF g = functors[k][ran[k] + 1] THEN 1 ELSE 0)
    BY <1>1, <2>1, CountAdvance
  <2>3. QED  BY <1>1, <1>3, <2>1, <2>2
<1>4. CASE k # l
  <2>1. ran'[k] = ran[k]
    BY <1>1, <1>4
  <2>2. QED  BY <1>1, <1>2, <1>4, <2>1
<1>5. QED  BY <1>3, <1>4

LEMMA SameFunctor ==
    \A o, op \in Ops, c, d \in Conns :
        /\ Functor(o, d) \in Functors
        /\ Functor(o, d) = Functor(op, c) <=> o = op /\ d = c
  BY DEF Functor, Functors, Ops

LEMMA WaitsTypes ==
    ASSUME TypeOK
    PROVE  /\ toEstablish \in [Loops -> [Conns -> Nat]]
           /\ toDestroy \in [Loops -> [Conns -> Nat]]
           /\ toRemove \in [Loops -> [Conns -> Nat]]
<1>1. ASSUME NEW l \in Loops, NEW f
      PROVE  CountFrom(queue[l], 0, f) + CountFrom(functors[l], ran[l], f) \in Nat
  <2>1. queue[l] \in Seq(Functors) /\ functors[l] \in Seq(Functors) /\ ran[l] \in Nat
    BY DEF TypeOK
  <2>2. CountFrom(queue[l], 0, f) \in Nat /\ CountFrom(functors[l], ran[l], f) \in Nat
    BY <2>1, CountFinite, 0 \in Nat
  <2>3. QED  BY <2>2
<1>2. QED  BY <1>1 DEF toEstablish, toDestroy, toRemove, WaitsFor

LEMMA WaitsEnqueue ==
    ASSUME TypeOK, NEW l \in Loops, NEW op \in Ops, NEW c \in Conns,
           Enqueue(l, Functor(op, c)), UNCHANGED <<functors, ran>>
    PROVE  \A k \in Loops, d \in Conns :
              /\ toEstablish'[k][d] = toEstablish[k][d]
                    + (IF op = "connectEstablished" /\ k = l /\ d = c THEN 1 ELSE 0)
              /\ toDestroy'[k][d] = toDestroy[k][d]
                    + (IF op = "connectDestroyed" /\ k = l /\ d = c THEN 1 ELSE 0)
              /\ toRemove'[k][d] = toRemove[k][d]
                    + (IF op = "removeConnectionInLoop" /\ k = l /\ d = c THEN 1 ELSE 0)
<1>1. ASSUME NEW k \in Loops, NEW d \in Conns, NEW o \in Ops
      PROVE  CountFrom(queue'[k], 0, Functor(o, d))
                + CountFrom(functors'[k], ran'[k], Functor(o, d))
             = CountFrom(queue[k], 0, Functor(o, d))
                + CountFrom(functors[k], ran[k], Functor(o, d))
                + (IF op = o /\ k = l /\ d = c THEN 1 ELSE 0)
  <2> DEFINE F == Functor(o, d)
  <2>1. F \in Functors /\ Functor(op, c) \in Functors /\ (F = Functor(op, c) <=> o = op /\ d = c)
    BY SameFunctor
  <2>2. CountFrom(queue'[k], 0, F)
          = CountFrom(queue[k], 0, F) + (IF k = l /\ F = Functor(op, c) THEN 1 ELSE 0)
    BY <2>1, EnqueueCounts
  <2>3. queue[k] \in Seq(Functors) /\ functors[k] \in Seq(Functors) /\ ran[k] \in Nat
    BY DEF TypeOK
  <2>4. CountFrom(queue[k], 0, F) \in Nat /\ CountFrom(functors[k], ran[k], F) \in Nat
    BY <2>3, CountFinite, 0 \in Nat
  <2>5. CountFrom(functors'[k], ran'[k], F) = CountFrom(functors[k], ran[k], F)
    OBVIOUS
  <2> HIDE DEF F
  <2>6. CountFrom(queue'[k], 0, F) + CountFrom(functors'[k], ran'[k], F)
          = CountFrom(queue[k], 0, F) + CountFrom(functors[k], ran[k], F)
            + (IF op = o /\ k = l /\ d = c THEN 1 ELSE 0)
    BY <2>1, <2>2, <2>4, <2>5
  <2>7. QED  BY <2>6 DEF F
<1>2. QED  BY <1>1 DEF toEstablish, toDestroy, toRemove, WaitsFor, Ops

LEMMA WaitsRun ==
    ASSUME TypeOK, NEW l \in Loops, NEW op \in Ops, NEW c \in Conns,
           Runs(l, op, c), UNCHANGED queue
    PROVE  \A k \in Loops, d \in Conns :
              /\ toEstablish'[k][d] = toEstablish[k][d]
                    - (IF op = "connectEstablished" /\ k = l /\ d = c THEN 1 ELSE 0)
              /\ toDestroy'[k][d] = toDestroy[k][d]
                    - (IF op = "connectDestroyed" /\ k = l /\ d = c THEN 1 ELSE 0)
              /\ toRemove'[k][d] = toRemove[k][d]
                    - (IF op = "removeConnectionInLoop" /\ k = l /\ d = c THEN 1 ELSE 0)
<1>1. ASSUME NEW k \in Loops, NEW d \in Conns, NEW o \in Ops
      PROVE  CountFrom(queue'[k], 0, Functor(o, d))
                + CountFrom(functors'[k], ran'[k], Functor(o, d))
             = (CountFrom(queue[k], 0, Functor(o, d))
                + CountFrom(functors[k], ran[k], Functor(o, d)))
                - (IF op = o /\ k = l /\ d = c THEN 1 ELSE 0)
  <2> DEFINE F == Functor(o, d)
  <2>1. F \in Functors /\ (F = Functor(op, c) <=> o = op /\ d = c)
    BY SameFunctor
  <2>2. CountFrom(functors'[k], ran'[k], F)
          = CountFrom(functors[k], ran[k], F) - (IF k = l /\ F = Functor(op, c) THEN 1 ELSE 0)
    BY <2>1, RunsCounts
  <2>3. queue[k] \in Seq(Functors) /\ functors[k] \in Seq(Functors) /\ ran[k] \in Nat
    BY DEF TypeOK
  <2>4. CountFrom(queue[k], 0, F) \in Nat /\ CountFrom(functors[k], ran[k], F) \in Nat
    BY <2>3, CountFinite, 0 \in Nat
  <2>5. CountFrom(queue'[k], 0, F) = CountFrom(queue[k], 0, F)
    OBVIOUS
  <2> HIDE DEF F
  <2>6. CountFrom(queue'[k], 0, F) + CountFrom(functors'[k], ran'[k], F)
          = (CountFrom(queue[k], 0, F) + CountFrom(functors[k], ran[k], F))
            - (IF op = o /\ k = l /\ d = c THEN 1 ELSE 0)
    BY <2>1, <2>2, <2>4, <2>5
  <2>7. QED  BY <2>6 DEF F
<1>2. QED  BY <1>1 DEF toEstablish, toDestroy, toRemove, WaitsFor, Ops

\* a functor that is run has been waiting
LEMMA RunsWaits ==
    ASSUME TypeOK, NEW l \in Loops, NEW op \in Ops, NEW c \in Conns, Runs(l, op, c)
    PROVE  WaitsFor(op)[l][c] > 0
<1> DEFINE F == Functor(op, c)
<1>1. F \in Functors
  BY SameFunctor
<1>2. /\ queue[l] \in Seq(Functors) /\ functors[l] \in Seq(Functors) /\ ran[l] \in Nat
      /\ ran[l] + 1 \in Nat /\ ran[l] < Len(functors[l]) /\ functors[l][ran[l] + 1] = F
  BY DEF TypeOK, Runs
<1>3. /\ CountFrom(queue[l], 0, F) \in Nat /\ CountFrom(functors[l], ran[l], F) \in Nat
      /\ CountFrom(functors[l], ran[l] + 1, F) \in Nat
  BY <1>2, CountFinite, 0 \in Nat
<1>4. CountFrom(functors[l], ran[l] + 1, F)
        = CountFrom(functors[l], ran[l], F) - (IF F = functors[l][ran[l] + 1] THEN 1 ELSE 0)
  BY <1>1, <1>2, CountAdvance
<1>5. CountFrom(queue[l], 0, F) + CountFrom(functors[l], ran[l], F) > 0
  BY <1>2, <1>3, <1>4
<1>6. QED  BY <1>5 DEF WaitsFor

\* a removal that runs on the main loop queues the destruction
LEMMA WaitsRemove ==
    ASSUME TypeOK, NEW l \in Loops, NEW c \in Conns,
           Runs(Main, "removeConnectionInLoop", c), Enqueue(l, Functor("connectDestroyed", c))
    PROVE  \A k \in Loops, d \in Conns :
              /\ toEstablish'[k][d] = toEstablish[k][d]
              /\ toDestroy'[k][d] = toDestroy[k][d] + (IF k = l /\ d = c THEN 1 ELSE 0)
              /\ toRemove'[k][d] = toRemove[k][d] - (IF k = Main /\ d = c THEN 1 ELSE 0)
<1>1. ASSUME NEW k \in Loops, NEW d \in Conns, NEW o \in Ops
      PROVE  CountFrom(queue'[k], 0, Functor(o, d))
                + CountFrom(functors'[k], ran'[k], Functor(o, d))
             = CountFrom(queue[k], 0, Functor(o, d))
                + CountFrom(functors[k], ran[k], Functor(o, d))
                + (IF o = "connectDestroyed" /\ k = l /\ d = c THEN 1 ELSE 0)
                - (IF o = "removeConnectionInLoop" /\ k = Main /\ d = c THEN 1 ELSE 0)
  <2> DEFINE F == Functor(o, d)
             A == Functor("connectDestroyed", c)
             B == Functor("removeConnectionInLoop", c)
  <2>1. /\ F \in Functors /\ A \in Functors
        /\ F = A <=> o = "connectDestroyed" /\ d = c
        /\ F = B <=> o = "removeConnectionInLoop" /\ d = c
    BY SameFunctor DEF Ops
  <2>2. CountFrom(functors'[k], ran'[k], F)
          = CountFrom(functors[k], ran[k], F) - (IF k = Main /\ F = B THEN 1 ELSE 0)
    BY <2>1, RunsCounts, LoopFacts DEF Ops
  <2>3. queue[k] \in Seq(Functors) /\ functors[k] \in Seq(Functors) /\ ran[k] \in Nat
    BY DEF TypeOK
  <2>4. CountFrom(queue[k], 0, F) \in Nat /\ CountFrom(functors[k], ran[k], F) \in Nat
    BY <2>3, CountFinite, 0 \in Nat
  <2>5. CountFrom(queue'[k], 0, F)
          = CountFrom(queue[k], 0, F) + (IF k = l /\ F = A THEN 1 ELSE 0)
    BY <2>1, EnqueueCounts
  <2> HIDE DEF F, A, B
  <2>6. CountFrom(queue'[k], 0, F) + CountFrom(functors'[k], ran'[k], F)
          = CountFrom(queue[k], 0, F) + CountFrom(functors[k], ran[k], F)
            + (IF o = "connectDestroyed" /\ k = l /\ d = c THEN 1 ELSE 0)
            - (IF o = "removeConnectionInLoop" /\ k = Main /\ d = c THEN 1 ELSE 0)
    BY <2>1, <2>2, <2>4, <2>5
  <2>7. QED  BY <2>6 DEF F
<1>2. ASSUME NEW k \in Loops, NEW d \in Conns
      PROVE  /\ toEstablish[k][d] \in Nat /\ toDestroy[k][d] \in Nat /\ toRemove[k][d] \in Nat
  BY WaitsTypes
<1>3. ASSUME NEW k \in Loops, NEW d \in Conns
      PROVE  toEstablish'[k][d] = toEstablish[k][d] + 0 - 0
  BY <1>1, "connectEstablished" \in Ops DEF toEstablish, WaitsFor, Ops
<1>4. ASSUME NEW k \in Loops, NEW d \in Conns
      PROVE  toDestroy'[k][d] = toDestroy[k][d] + (IF k = l /\ d = c THEN 1 ELSE 0) - 0
  BY <1>1, "connectDestroyed" \in Ops DEF toDestroy, WaitsFor, Ops
<1>5. ASSUME NEW k \in Loops, NEW d \in Conns
      PROVE  toRemove'[k][d] = toRemove[k][d] + 0 - (IF k = Main /\ d = c THEN 1 ELSE 0)
  BY <1>1, "removeConnectionInLoop" \in Ops DEF toRemove, WaitsFor, Ops
<1>6. QED  BY <1>2, <1>3, <1>4, <1>5

\* a loop that takes its queue, or drops a batch that has run, loses nothing
LEMMA WaitsRound ==
    ASSUME TypeOK, LoopInv, NEW l \in Loops, BeginFunctors(l) \/ EndFunctors(l)
    PROVE  UNCHANGED <<toEstablish, toDestroy, toRemove>>
<1>1. ASSUME NEW k \in Loops, NEW f
      PROVE  CountFrom(queue'[k], 0, f) + CountFrom(functors'[k], ran'[k], f)
             = CountFrom(queue[k], 0, f) + CountFrom(functors[k], ran[k], f)
  <2>1. /\ queue[k] \in Seq(Functors) /\ functors[k] \in Seq(Functors) /\ ran[k] \in Nat
        /\ queue \in [Loops -> Seq(Functors)] /\ functors \in [Loops -> Seq(Functors)]
        /\ ran \in [Loops -> Nat]
    BY DEF TypeOK
  <2>2. CountFrom(queue[k], 0, f) \in Nat /\ CountFrom(functors[k], ran[k], f) \in Nat
    BY <2>1, CountFinite, 0 \in Nat
  <2>3. CountFrom(<<>>, 0, f) = 0 /\ CountFrom(functors[k], Len(functors[k]), f) = 0
    BY <2>1, CountNone
  <2>4. CASE k # l
    BY <2>1, <2>4 DEF BeginFunctors, EndFunctors, loopVars
  <2>5. CASE k = l /\ BeginFunctors(l)
    <3>1. /\ functors[k] = <<>> /\ ran[k] = 0 /\ queue'[k] = <<>> /\ functors'[k] = queue[k]
          /\ ran'[k] = 0
      BY <2>1, <2>5 DEF BeginFunctors, Dispatching, LoopInv
    <3>2. QED  BY <2>2, <2>3, <3>1
  <2>6. CASE k = l /\ EndFunctors(l)
    <3>1. /\ ran[k] = Len(functors[k]) /\ queue'[k] = queue[k] /\ functors'[k] = <<>>
          /\ ran'[k] = 0
      BY <2>1, <2>6 DEF EndFunctors
    <3>2. QED  BY <2>2, <2>3, <3>1
  <2>7. QED  BY <2>4, <2>5, <2>6
<1>2. QED  BY <1>1 DEF toEstablish, toDestroy, toRemove, WaitsFor

LEMMA WaitsSame ==
    UNCHANGED <<queue, functors, ran>> => UNCHANGED <<toEstablish, toDestroy, toRemove>>
  BY DEF toEstablish, toDestroy, toRemove, WaitsFor

\* the EventLoop of a loop that has left is destroyed between two rounds
LEMMA WaitsDestroyed ==
    ASSUME TypeOK, LoopInv, NEW l \in Loops, DestroyLoop(l)
    PROVE  \A k \in Loops, d \in Conns :
              /\ toEstablish'[k][d] = IF k = l THEN 0 ELSE toEstablish[k][d]
              /\ toDestroy'[k][d] = IF k = l THEN 0 ELSE toDestroy[k][d]
              /\ toRemove'[k][d] = IF k = l THEN 0 ELSE toRemove[k][d]
<1>1. ASSUME NEW k \in Loops, NEW f
      PROVE  CountFrom(queue'[k], 0, f) + CountFrom(functors'[k], ran'[k], f)
             = IF k = l THEN 0 ELSE CountFrom(queue[k], 0, f) + CountFrom(functors[k], ran[k], f)
  <2>1. /\ queue \in [Loops -> Seq(Functors)] /\ functors[k] \in Seq(Functors)
        /\ queue' = [queue EXCEPT ![l] = <<>>] /\ functors' = functors /\ ran' = ran
        /\ k = l => functors[k] = <<>> /\ ran[k] = 0
    BY DEF TypeOK, DestroyLoop, LoopInv
  <2>2. CountFrom(<<>>, 0, f) = 0
    BY <2>1, CountNone
  <2>3. CASE k # l
    BY <2>1, <2>3
  <2>4. CASE k = l
    BY <2>1, <2>2, <2>4
  <2>5. QED  BY <2>3, <2>4
<1>2. QED  BY <1>1 DEF toEstablish, toDestroy, toRemove, WaitsFor

-----------------------------------------------------------------------------
(* Every connection is destroyed exactly once                              *)

\* Nothing has happened to a connection that is not accepted.
UntouchedBefore ==
    \A c \in Conns : loopOf[c] = NoLoop => destroys[c] = 0 /\ state[c] = "kConnecting"

\* What is done to a connection on a loop is done on its own.
OwnLoop ==
    \A c \in Conns, l \in Loops :
        closing[l] = c \/ toEstablish[l][c] > 0 \/ toDestroy[l][c] > 0 => loopOf[c] = l

\* A connection is established once, by a functor only if its loop is another thread's.
EstablishedOnce ==
    \A c \in Conns, l \in Loops :
        toEstablish[l][c] > 0 =>
            l # Main /\ toEstablish[l][c] = 1 /\ state[c] = "kConnecting"

\* While the server lives, a connection is on the way from its handleClose() to its
\* removal at most once, and is in the map until then.
RemovedOnce ==
    Alive => \A c \in Conns :
        /\ toRemove[Main][c] > 0 =>
              /\ toRemove[Main][c] = 1
              /\ c \in connections /\ state[c] = "kDisconnected"
              /\ \A l \in Loops : closing[l] # c
        /\ \A l \in Loops :
              closing[l] = c => c \in connections /\ state[c] = "kDisconnected"

\* A connection leaves the map when it is down, and one of the main loop also when
\* ~TcpServer() takes it down.
KeptUntilDown ==
    \A c \in Conns \ connections :
        /\ Alive /\ loopOf[c] # NoLoop => state[c] = "kDisconnected"
        /\ loopOf[c] = Main => state[c] # "kConnected"

\* No closeCallback of the main loop is under way when ~TcpServer() has begun.
MainQuiet == ~Alive => closing[Main] = NoConn

\* Accounted, with the functors counted by the loop they are on
OneAccount ==
    \A c \in Conns :
        loopOf[c] # NoLoop /\ pc[loopOf[c]] # "exited" =>
            (IF c \in connections THEN 1 ELSE 0) + toDestroy[loopOf[c]][c] + destroys[c] = 1

AccountInv ==
    /\ UntouchedBefore /\ OwnLoop /\ EstablishedOnce
    /\ RemovedOnce /\ KeptUntilDown /\ MainQuiet /\ OneAccount

LEMMA AccountInit == Init => AccountInv
<1> SUFFICES ASSUME Init PROVE AccountInv
  OBVIOUS
<1>1. ASSUME NEW l \in Loops, NEW c \in Conns
      PROVE  toEstablish[l][c] = 0 /\ toDestroy[l][c] = 0 /\ toRemove[l][c] = 0
  <2>1. <<>> \in Seq(Functors)
    OBVIOUS
  <2>2. ASSUME NEW f PROVE CountFrom(<<>>, 0, f) = 0
    BY <2>1, CountNone
  <2>3. queue[l] = <<>> /\ functors[l] = <<>> /\ ran[l] = 0
    BY DEF Init
  <2>4. QED  BY <2>2, <2>3 DEF toEstablish, toDestroy, toRemove, WaitsFor
<1>2. NoConn \notin Conns /\ Main \in Loops
  BY ServerAssumption, LoopFacts
<1>3. QED
  BY <1>1, <1>2
  DEF Init, AccountInv, UntouchedBefore, OwnLoop, EstablishedOnce, RemovedOnce,
      KeptUntilDown, MainQuiet, OneAccount, Alive, Main, NoLoop

LEMMA AccountKept == ServerTypes /\ AccountInv /\ [Next]_vars => AccountInv'
<1> SUFFICES ASSUME ServerTypes, AccountInv, [Next]_vars PROVE AccountInv'
  OBVIOUS
<1> USE DEF poolVars, mapVars, clientVars, connVars, loopVars, ServerVars, Alive
<1>1. /\ TypeOK /\ PoolInv /\ LoopInv /\ BacklogInv
      /\ UntouchedBefore /\ OwnLoop /\ EstablishedOnce
      /\ RemovedOnce /\ KeptUntilDown /\ MainQuiet /\ OneAccount
  BY DEF ServerTypes, AccountInv
<1>2. /\ toEstablish \in [Loops -> [Conns -> Nat]] /\ toDestroy \in [Loops -> [Conns -> Nat]]
      /\ toRemove \in [Loops -> [Conns -> Nat]]
  BY <1>1, WaitsTypes
<1>3. /\ closing \in [Loops -> Conns \cup {NoConn}] /\ NoConn \notin Conns
      /\ loopOf \in [Conns -> Loops \cup {NoLoop}] /\ pc \in [Loops -> Pcs]
      /\ state \in [Conns -> {"kConnecting", "kConnected", "kDisconnected"}]
      /\ destroys \in [Conns -> Nat] /\ server \in ServerStates
      /\ Main \in Loops /\ NoLoop \notin Loops
  <2>1. {NoLoop, Main} \cup 1 .. subLoops \subseteq Loops \cup {NoLoop}
    BY <1>1, ServerAssumption DEF TypeOK, Loops, Subs
  <2>2. QED  BY <1>1, <2>1, LoopFacts, ServerAssumption DEF TypeOK
<1> USE DEF AccountInv, UntouchedBefore, OwnLoop, EstablishedOnce, RemovedOnce,
            KeptUntilDown, MainQuiet, OneAccount
<1>4. CASE UNCHANGED vars
  BY <1>1, <1>4, WaitsSame DEF vars
<1>5. ASSUME NEW n \in 0 .. MaxThreads, Start(n) PROVE AccountInv'
  BY <1>1, <1>5, WaitsSame DEF Start, StartPool, Listen, PoolInv
<1>6. ASSUME NEW l \in Loops, EnterLoop(l) \/ TestQuit(l) PROVE AccountInv'
  BY <1>1, <1>3, <1>6, WaitsSame DEF EnterLoop, TestQuit
<1>7. ASSUME NEW l \in Loops, DestroyLoop(l) PROVE AccountInv'
  <2>1. \A k \in Loops, d \in Conns :
           /\ toEstablish'[k][d] = IF k = l THEN 0 ELSE toEstablish[k][d]
           /\ toDestroy'[k][d] = IF k = l THEN 0 ELSE toDestroy[k][d]
           /\ toRemove'[k][d] = IF k = l THEN 0 ELSE toRemove[k][d]
    BY <1>1, <1>7, WaitsDestroyed
  <2>a. \A k \in Loops, d \in Conns :
           /\ toEstablish'[k][d] > 0 =>
                 toEstablish[k][d] > 0 /\ toEstablish'[k][d] = toEstablish[k][d]
           /\ toDestroy'[k][d] > 0 => toDestroy[k][d] > 0
    BY <2>1
  <2>b. UNCHANGED <<loopOf, closing, state>>
    BY <1>7 DEF DestroyLoop
  <2>2. UntouchedBefore'
    BY <1>1, <1>2, <1>3, <1>7, <2>1 DEF DestroyLoop
  <2>3. OwnLoop'
    BY <1>1, <2>a, <2>b
  <2>4. EstablishedOnce'
    BY <1>1, <2>a, <2>b
  <2>5. RemovedOnce'
    BY <1>1, <1>2, <1>3, <1>7, <2>1 DEF DestroyLoop
  <2>6. KeptUntilDown'
    BY <1>1, <1>2, <1>3, <1>7, <2>1 DEF DestroyLoop
  <2>7. MainQuiet'
    BY <1>1, <1>2, <1>3, <1>7, <2>1 DEF DestroyLoop
  <2>8. OneAccount'
    BY <1>1, <1>2, <1>3, <1>7, <2>1 DEF DestroyLoop
  <2>9. QED  BY <2>2, <2>3, <2>4, <2>5, <2>6, <2>7, <2>8
<1>8. ASSUME NEW l \in Loops, BeginFunctors(l) \/ EndFunctors(l) PROVE AccountInv'
  <2>1. UNCHANGED <<toEstablish, toDestroy, toRemove>>
    BY <1>1, <1>8, WaitsRound
  <2>2. UntouchedBefore'
    BY <1>1, <1>3, <1>8, <2>1 DEF BeginFunctors, EndFunctors, Dispatching, BetweenFunctors
  <2>3. OwnLoop'
    BY <1>1, <1>3, <1>8, <2>1 DEF BeginFunctors, EndFunctors, Dispatching, BetweenFunctors
  <2>4. EstablishedOnce'
    BY <1>1, <1>3, <1>8, <2>1 DEF BeginFunctors, EndFunctors, Dispatching, BetweenFunctors
  <2>5. RemovedOnce'
    BY <1>1, <1>3, <1>8, <2>1 DEF BeginFunctors, EndFunctors, Dispatching, BetweenFunctors
  <2>6. KeptUntilDown'
    BY <1>1, <1>3, <1>8, <2>1 DEF BeginFunctors, EndFunctors, Dispatching, BetweenFunctors
  <2>7. MainQuiet'
    BY <1>1, <1>3, <1>8, <2>1 DEF BeginFunctors, EndFunctors, Dispatching, BetweenFunctors
  <2>8. OneAccount'
    BY <1>1, <1>3, <1>8, <2>1 DEF BeginFunctors, EndFunctors, Dispatching, BetweenFunctors
  <2>9. QED  BY <2>2, <2>3, <2>4, <2>5, <2>6, <2>7, <2>8
<1>9. ASSUME NEW l \in Loops, NEW c \in Conns, RunConnectEstablished(l, c) PROVE AccountInv'
  <2>1. /\ Runs(l, "connectEstablished", c) /\ UNCHANGED queue
        /\ state' = [state EXCEPT ![c] = "kConnected"]
        /\ UNCHANGED <<server, connections, loopOf, destroys, pc, closing>>
    BY <1>9 DEF RunConnectEstablished, connectEstablished, Runs
  <2>2. \A k \in Loops, d \in Conns :
           /\ toEstablish'[k][d] = toEstablish[k][d] - (IF k = l /\ d = c THEN 1 ELSE 0)
           /\ toDestroy'[k][d] = toDestroy[k][d] - 0
           /\ toRemove'[k][d] = toRemove[k][d] - 0
    BY <1>1, <2>1, WaitsRun DEF Ops
  <2>3. toEstablish[l][c] > 0
    BY <1>1, <2>1, RunsWaits DEF Ops, toEstablish, toDestroy, toRemove
  <2>a. /\ \A k \in Loops, d \in Conns :
               /\ toEstablish[k][d] \in Nat /\ toDestroy[k][d] \in Nat /\ toRemove[k][d] \in Nat
               /\ toDestroy'[k][d] = toDestroy[k][d] /\ toRemove'[k][d] = toRemove[k][d]
               /\ toEstablish'[k][d] > 0 =>
                     /\ toEstablish[k][d] > 0 /\ (k # l \/ d # c)
                     /\ toEstablish'[k][d] = toEstablish[k][d]
        /\ state[c] = "kConnecting" /\ loopOf[c] = l
        /\ \A d \in Conns : d # c => state'[d] = state[d]
    <3>1. \A k \in Loops, d \in Conns :
             /\ toEstablish[k][d] \in Nat /\ toDestroy[k][d] \in Nat /\ toRemove[k][d] \in Nat
      BY <1>2
    <3>2. toEstablish[l][c] = 1 /\ state[c] = "kConnecting" /\ loopOf[c] = l
      BY <1>1, <2>3
    <3>3. \A d \in Conns : d # c => state'[d] = state[d]
      BY <1>3, <2>1
    <3>4. ASSUME NEW k \in Loops, NEW d \in Conns
          PROVE  /\ toDestroy'[k][d] = toDestroy[k][d] /\ toRemove'[k][d] = toRemove[k][d]
                 /\ toEstablish'[k][d] > 0 =>
                       /\ toEstablish[k][d] > 0 /\ (k # l \/ d # c)
                       /\ toEstablish'[k][d] = toEstablish[k][d]
      BY <2>2, <3>1, <3>2
    <3>5. QED  BY <3>1, <3>2, <3>3, <3>4
  <2>4. UntouchedBefore'
    BY <1>1, <1>2, <1>3, <2>1, <2>2, <2>3
  <2>5. OwnLoop'
    BY <1>1, <2>1, <2>a
  <2>6. EstablishedOnce'
    BY <1>1, <2>1, <2>a
  <2>7. RemovedOnce'
    BY <1>1, <1>3, <2>1, <2>a
  <2>8. KeptUntilDown'
    BY <1>1, <1>2, <1>3, <2>1, <2>2, <2>3
  <2>9. MainQuiet'
    BY <1>1, <1>2, <1>3, <2>1, <2>2, <2>3
  <2>10. OneAccount'
    BY <1>1, <1>2, <1>3, <2>1, <2>2, <2>3
  <2>11. QED  BY <2>4, <2>5, <2>6, <2>7, <2>8, <2>9, <2>10
<1>10. ASSUME NEW l \in Loops, NEW c \in Conns, RunConnectDestroyed(l, c) PROVE AccountInv'
  <2>1. /\ Runs(l, "connectDestroyed", c) /\ UNCHANGED queue
        /\ state' = [state EXCEPT ![c] = IF @ = "kConnected" THEN "kDisconnected" ELSE @]
        /\ destroys' = [destroys EXCEPT ![c] = @ + 1]
        /\ UNCHANGED <<server, connections, loopOf, pc, closing>>
    BY <1>10 DEF RunConnectDestroyed, connectDestroyed, Runs
  <2>2. \A k \in Loops, d \in Conns :
           /\ toEstablish'[k][d] = toEstablish[k][d] - 0
           /\ toDestroy'[k][d] = toDestroy[k][d] - (IF k = l /\ d = c THEN 1 ELSE 0)
           /\ toRemove'[k][d] = toRemove[k][d] - 0
    BY <1>1, <2>1, WaitsRun DEF Ops
  <2>3. toDestroy[l][c] > 0
    BY <1>1, <2>1, RunsWaits DEF Ops, toEstablish, toDestroy, toRemove
  <2>4. QED  BY <1>1, <1>2, <1>3, <2>1, <2>2, <2>3
<1>11. ASSUME NEW c \in Conns, NewConnection(c) PROVE AccountInv'
  <2>1. /\ server = "serving" /\ loopOf[c] = NoLoop /\ connections' = connections \cup {c}
        /\ loopOf' = [loopOf EXCEPT ![c] = NextLoop]
        /\ UNCHANGED <<server, pc, closing, functors, ran>>
    BY <1>1, <1>11 DEF NewConnection, AcceptorHandleRead, BacklogInv
  <2>2. NextLoop \in Loops
    BY <1>1, <1>3, ServerAssumption DEF NextLoop, TypeOK, Loops, Subs
  <2>3. CASE NextLoop = Main
    <3>1. /\ state' = [state EXCEPT ![c] = "kConnected"] /\ UNCHANGED <<queue, destroys>>
      BY <1>11, <2>3 DEF NewConnection, connectEstablished
    <3>2. UNCHANGED <<toEstablish, toDestroy, toRemove>>
      BY <2>1, <3>1, WaitsSame
    <3>3. QED  BY <1>1, <1>2, <1>3, <2>1, <2>3, <3>1, <3>2
  <2>4. CASE NextLoop # Main
    <3>1. Enqueue(NextLoop, Functor("connectEstablished", c)) /\ UNCHANGED <<state, destroys>>
      BY <1>11, <2>4 DEF NewConnection
    <3>2. \A k \in Loops, d \in Conns :
             /\ toEstablish'[k][d] = toEstablish[k][d] + (IF k = NextLoop /\ d = c THEN 1 ELSE 0)
             /\ toDestroy'[k][d] = toDestroy[k][d] + 0
             /\ toRemove'[k][d] = toRemove[k][d] + 0
      BY <1>1, <2>1, <2>2, <3>1, WaitsEnqueue DEF Ops
    <3>a. /\ toEstablish'[NextLoop][c] = 1
           /\ \A k \in Loops, d \in Conns :
                 (k # NextLoop \/ d # c) => toEstablish'[k][d] = toEstablish[k][d]
      <4>1. \A k \in Loops, d \in Conns : toEstablish[k][d] \in Nat
        BY <1>2
      <4>2. loopOf[c] # NextLoop
        BY <1>3, <2>1, <2>2
      <4>3. ~ (toEstablish[NextLoop][c] > 0)
        BY <1>1, <2>2, <4>2
      <4>4. QED  BY <2>2, <3>2, <4>1, <4>3
    <3>3. UntouchedBefore'
      BY <1>1, <1>2, <1>3, <2>1, <2>2, <2>4, <3>1, <3>2
    <3>4. OwnLoop'
      BY <1>1, <1>2, <1>3, <2>1, <2>2, <2>4, <3>1, <3>2
    <3>5. EstablishedOnce'
      BY <1>1, <2>1, <2>4, <3>1, <3>a
    <3>6. RemovedOnce'
      BY <1>1, <1>2, <1>3, <2>1, <2>2, <2>4, <3>1, <3>2
    <3>7. KeptUntilDown'
      BY <1>1, <1>2, <1>3, <2>1, <2>2, <2>4, <3>1, <3>2
    <3>8. MainQuiet'
      BY <1>1, <1>2, <1>3, <2>1, <2>2, <2>4, <3>1, <3>2
    <3>9. OneAccount'
      BY <1>1, <1>2, <1>3, <2>1, <2>2, <2>4, <3>1, <3>2
    <3>10. QED  BY <3>3, <3>4, <3>5, <3>6, <3>7, <3>8, <3>9
  <2>5. QED  BY <2>3, <2>4
<1>12. ASSUME NEW c \in Conns, NEW l \in Loops, HandleClose(l, c) PROVE AccountInv'
  <2>1. /\ loopOf[c] = l /\ state[c] = "kConnected" /\ closing[l] = NoConn
        /\ state' = [state EXCEPT ![c] = "kDisconnected"]
        /\ closing' = [closing EXCEPT ![l] = c]
        /\ UNCHANGED <<server, connections, loopOf, destroys, pc, queue, functors, ran>>
    BY <1>12 DEF HandleClose, Dispatching
  <2>2. UNCHANGED <<toEstablish, toDestroy, toRemove>>
    BY <2>1, WaitsSame
  <2>3. l = Main => Alive
    <3>1. SUFFICES ASSUME l = Main, ~Alive PROVE FALSE
      OBVIOUS
    <3>2. server = "gone" /\ connections = {}
      BY <1>1, <1>3, <1>12, <3>1 DEF HandleClose, Dispatching, Free, ServerStates, PoolInv
    <3>3. QED  BY <1>1, <2>1, <3>1, <3>2
  <2>4. QED  BY <1>1, <1>2, <1>3, <2>1, <2>2, <2>3
<1>13. ASSUME NEW l \in Loops, CloseCallback(l) PROVE AccountInv'
  <2> DEFINE c == closing[l]
  <2>1. /\ c \in Conns /\ closing' = [closing EXCEPT ![l] = NoConn]
        /\ loopOf[c] = l
        /\ UNCHANGED <<server, loopOf, destroys, state, pc, functors, ran>>
    BY <1>1, <1>3, <1>13 DEF CloseCallback
  <2>2. CASE l = Main
    <3>1. /\ connections' = connections \ {c} /\ Enqueue(Main, Functor("connectDestroyed", c))
      BY <1>13, <2>1, <2>2 DEF CloseCallback, removeConnection, removeConnectionInLoop
    <3>2. \A k \in Loops, d \in Conns :
             /\ toEstablish'[k][d] = toEstablish[k][d] + 0
             /\ toDestroy'[k][d] = toDestroy[k][d] + (IF k = Main /\ d = c THEN 1 ELSE 0)
             /\ toRemove'[k][d] = toRemove[k][d] + 0
      BY <1>1, <1>3, <2>1, <3>1, WaitsEnqueue DEF Ops
    <3>3. QED  BY <1>1, <1>2, <1>3, <2>1, <2>2, <3>1, <3>2
  <2>3. CASE l # Main
    <3>1. UNCHANGED connections /\ Enqueue(Main, Functor("removeConnectionInLoop", c))
      BY <1>13, <2>1, <2>3 DEF CloseCallback, removeConnection
    <3>2. \A k \in Loops, d \in Conns :
             /\ toEstablish'[k][d] = toEstablish[k][d] + 0
             /\ toDestroy'[k][d] = toDestroy[k][d] + 0
             /\ toRemove'[k][d] = toRemove[k][d] + (IF k = Main /\ d = c THEN 1 ELSE 0)
      BY <1>1, <1>3, <2>1, <3>1, WaitsEnqueue DEF Ops
    <3>3. UntouchedBefore'
      BY <1>1, <1>2, <1>3, <2>1, <2>3, <3>1, <3>2
    <3>4. OwnLoop'
      BY <1>1, <1>2, <1>3, <2>1, <2>3, <3>1, <3>2
    <3>5. EstablishedOnce'
      BY <1>1, <1>2, <1>3, <2>1, <2>3, <3>1, <3>2
    <3>6. RemovedOnce'
      BY <1>1, <1>2, <1>3, <2>1, <2>3, <3>1, <3>2
    <3>7. KeptUntilDown'
      BY <1>1, <1>2, <1>3, <2>1, <2>3, <3>1, <3>2
    <3>8. MainQuiet'
      BY <1>1, <1>2, <1>3, <2>1, <2>3, <3>1, <3>2
    <3>9. OneAccount'
      BY <1>1, <1>2, <1>3, <2>1, <2>3, <3>1, <3>2
    <3>10. QED  BY <3>3, <3>4, <3>5, <3>6, <3>7, <3>8, <3>9
  <2>4. QED  BY <2>2, <2>3
<1>14. ASSUME NEW c \in Conns, RunRemoveConnection(c) PROVE AccountInv'
  <2>1. /\ Runs(Main, "removeConnectionInLoop", c)
        /\ connections' = connections \ {c} /\ Enqueue(loopOf[c], Functor("connectDestroyed", c))
        /\ UNCHANGED <<server, loopOf, destroys, state, pc, closing>>
    BY <1>14 DEF RunRemoveConnection, removeConnectionInLoop, Runs
  <2>2. Alive
    BY <1>3, <1>14 DEF RunRemoveConnection, Runs, BetweenFunctors, Free, ServerStates
  <2>3. toRemove[Main][c] > 0
    BY <1>1, <1>3, <2>1, RunsWaits DEF Ops, toEstablish, toDestroy, toRemove
  <2>4. loopOf[c] \in Loops
    BY <1>1, <1>3, <2>2, <2>3 DEF BacklogInv
  <2>5. \A k \in Loops, d \in Conns :
           /\ toEstablish'[k][d] = toEstablish[k][d]
           /\ toDestroy'[k][d] = toDestroy[k][d] + (IF k = loopOf[c] /\ d = c THEN 1 ELSE 0)
           /\ toRemove'[k][d] = toRemove[k][d] - (IF k = Main /\ d = c THEN 1 ELSE 0)
    BY <1>1, <2>1, <2>4, WaitsRemove
  <2>6. UntouchedBefore'
    BY <1>1, <1>2, <1>3, <2>1, <2>2, <2>3, <2>4, <2>5
  <2>a. \A k \in Loops, d \in Conns :
            /\ toEstablish'[k][d] = toEstablish[k][d]
            /\ toDestroy'[k][d] > 0 => toDestroy[k][d] > 0 \/ (k = loopOf[c] /\ d = c)
    BY <1>2, <2>5
  <2>7. OwnLoop'
    BY <1>1, <2>1, <2>a
  <2>8. EstablishedOnce'
    BY <1>1, <1>2, <1>3, <2>1, <2>2, <2>3, <2>4, <2>5
  <2>9. RemovedOnce'
    BY <1>1, <1>2, <1>3, <2>1, <2>2, <2>3, <2>4, <2>5
  <2>10. KeptUntilDown'
    BY <1>1, <1>2, <1>3, <2>1, <2>2, <2>3, <2>4, <2>5
  <2>11. MainQuiet'
    BY <1>1, <1>2, <1>3, <2>1, <2>2, <2>3, <2>4, <2>5
  <2>12. OneAccount'
    BY <1>1, <1>2, <1>3, <2>1, <2>2, <2>3, <2>4, <2>5
  <2>13. QED  BY <2>6, <2>7, <2>8, <2>9, <2>10, <2>11, <2>12
<1>15. ASSUME NEW c \in Conns, Connect(c) \/ HangUp(c) PROVE AccountInv'
  BY <1>1, <1>15, WaitsSame DEF Connect, HangUp
<1>16. CASE QuitMain
  BY <1>1, <1>16, WaitsSame DEF QuitMain
<1>17. CASE DestroyServer
  <2>1. closing[Main] = NoConn
    BY <1>1, <1>3, <1>17 DEF DestroyServer, BetweenFunctors, LoopInv
  <2>2. QED  BY <1>1, <1>17, <2>1, WaitsSame DEF DestroyServer
<1>18. ASSUME NEW c \in Conns, DestroyConnection(c) PROVE AccountInv'
  <2>1. /\ server = "clearing" /\ c \in connections /\ connections' = connections \ {c}
        /\ loopOf[c] \in Loops
        /\ UNCHANGED <<server, loopOf, pc, closing, functors, ran>>
    BY <1>1, <1>3, <1>18 DEF DestroyConnection, BacklogInv
  <2>2. CASE loopOf[c] = Main
    <3>1. /\ state' = [state EXCEPT ![c] = IF @ = "kConnected" THEN "kDisconnected" ELSE @]
          /\ destroys' = [destroys EXCEPT ![c] = @ + 1]
          /\ UNCHANGED queue
      BY <1>18, <2>2 DEF DestroyConnection, connectDestroyed
    <3>2. UNCHANGED <<toEstablish, toDestroy, toRemove>>
      BY <2>1, <3>1, WaitsSame
    <3>3. QED  BY <1>1, <1>2, <1>3, <2>1, <2>2, <3>1, <3>2
  <2>3. CASE loopOf[c] # Main
    <3>1. /\ Enqueue(loopOf[c], Functor("connectDestroyed", c)) /\ UNCHANGED <<state, destroys>>
      BY <1>18, <2>3 DEF DestroyConnection
    <3>2. \A k \in Loops, d \in Conns :
             /\ toEstablish'[k][d] = toEstablish[k][d] + 0
             /\ toDestroy'[k][d] = toDestroy[k][d] + (IF k = loopOf[c] /\ d = c THEN 1 ELSE 0)
             /\ toRemove'[k][d] = toRemove[k][d] + 0
      BY <1>1, <2>1, <3>1, WaitsEnqueue DEF Ops
    <3>3. QED  BY <1>1, <1>2, <1>3, <2>1, <2>3, <3>1, <3>2
  <2>4. QED  BY <2>2, <2>3
<1>19. CASE DestroyAcceptor \/ QuitThread \/ JoinThread \/ ServerGone
  BY <1>1, <1>19, WaitsSame DEF DestroyAcceptor, QuitThread, JoinThread, ServerGone
<1>20. QED
  BY <1>4, <1>5, <1>6, <1>7, <1>8, <1>9, <1>10, <1>11, <1>12, <1>13, <1>14, <1>15,
     <1>16, <1>17, <1>18, <1>19, LoopFacts
  DEF Next, MainRound, Round, SubStep, Reported, Destructor

-----------------------------------------------------------------------------
(* Calls into the server                                                   *)

\* Without threads every connection is the main loop's, which removes it without a
\* functor.
NoRemovals ==
    subLoops = 0 => \A c \in Conns :
        Functor("removeConnectionInLoop", c) \notin Range(queue[Main]) \cup Range(functors[Main])

LEMMA RangeAppend ==
    ASSUME NEW q \in Seq(Functors), NEW g \in Functors, NEW f, f # g, f \notin Range(q)
    PROVE  f \notin Range(Append(q, g))
<1>1. /\ Len(q) \in Nat /\ Len(Append(q, g)) = Len(q) + 1 /\ Append(q, g)[Len(q) + 1] = g
      /\ DOMAIN Append(q, g) = 1 .. Len(q) + 1 /\ DOMAIN q = 1 .. Len(q)
      /\ \A i \in 1 .. Len(q) : Append(q, g)[i] = q[i]
  BY LenProperties, AppendProperties
<1>2. QED  BY <1>1 DEF Range

LEMMA EnqueueOther ==
    ASSUME TypeOK, NEW l, NEW f \in Functors, Enqueue(l, f), NEW g,
           g # f \/ l # Main, g \notin Range(queue[Main])
    PROVE  g \notin Range(queue'[Main])
<1>1. queue \in [Loops -> Seq(Functors)] /\ Main \in Loops
      /\ queue' = [queue EXCEPT ![l] = Append(@, f)]
  BY LoopFacts DEF TypeOK, Enqueue
<1>2. CASE l = Main
  <2>1. queue'[Main] = Append(queue[Main], f) /\ queue[Main] \in Seq(Functors)
    BY <1>1, <1>2
  <2>2. QED  BY <1>2, <2>1, RangeAppend
<1>3. CASE l # Main
  BY <1>1, <1>3
<1>4. QED  BY <1>2, <1>3

LEMMA NoRemovalsKept == ServerTypes /\ NoRemovals /\ [Next]_vars => NoRemovals'
<1> SUFFICES ASSUME ServerTypes, NoRemovals, [Next]_vars, subLoops' = 0, NEW c \in Conns
             PROVE  Functor("removeConnectionInLoop", c)
                       \notin Range(queue'[Main]) \cup Range(functors'[Main])
  BY DEF NoRemovals
<1> USE DEF poolVars, mapVars, clientVars, connVars, loopVars, ServerVars
<1> DEFINE R == Functor("removeConnectionInLoop", c)
<1>1. /\ TypeOK /\ PoolInv /\ LoopInv /\ Main \in Loops
      /\ queue \in [Loops -> Seq(Functors)] /\ functors \in [Loops -> Seq(Functors)]
  BY LoopFacts DEF ServerTypes, TypeOK
<1>2. subLoops = 0
  <2>1. ASSUME NEW n \in 0 .. MaxThreads, Start(n) PROVE subLoops = 0
    BY <1>1, <2>1 DEF Start, PoolInv
  <2>2. CASE UNCHANGED subLoops
    BY <2>2
  <2>3. CASE ~UNCHANGED subLoops
    BY <2>1, <2>3
    DEF Next, MainRound, Round, SubStep, Reported, Destructor, vars, EnterLoop, TestQuit,
        DestroyLoop, BeginFunctors, EndFunctors, RunConnectEstablished, RunConnectDestroyed,
        NewConnection, HandleClose, CloseCallback, RunRemoveConnection, Connect, HangUp,
        QuitMain, DestroyServer, DestroyConnection, DestroyAcceptor, QuitThread, JoinThread,
        ServerGone
  <2>4. QED  BY <2>2, <2>3
<1>3. R \notin Range(queue[Main]) /\ R \notin Range(functors[Main])
  BY <1>2 DEF NoRemovals
<1>4. R \notin Range(<<>>)
  BY DEF Range
<1>5. \A op \in Ops, d \in Conns :
         Functor(op, d) \in Functors /\ (op # "removeConnectionInLoop" => R # Functor(op, d))
  BY SameFunctor DEF Ops
<1> HIDE DEF R
<1> SUFFICES R \notin Range(queue'[Main]) /\ R \notin Range(functors'[Main])
  BY DEF R
<1>6. CASE UNCHANGED <<queue, functors>>
  BY <1>3, <1>6
<1>7. ASSUME NEW l \in Loops, BeginFunctors(l) \/ EndFunctors(l) \/ DestroyLoop(l)
      PROVE  R \notin Range(queue'[Main]) /\ R \notin Range(functors'[Main])
  BY <1>1, <1>3, <1>4, <1>7 DEF BeginFunctors, EndFunctors, DestroyLoop
<1>8. ASSUME NEW d \in Conns, NEW l, NEW op \in Ops \ {"removeConnectionInLoop"},
             Enqueue(l, Functor(op, d)), UNCHANGED functors
      PROVE  R \notin Range(queue'[Main]) /\ R \notin Range(functors'[Main])
  <2>1. Functor(op, d) \in Functors /\ R # Functor(op, d)
    BY <1>5
  <2>2. QED  BY <1>1, <1>3, <1>8, <2>1, EnqueueOther
<1>9. ASSUME NEW d \in Conns, NewConnection(d)
      PROVE  R \notin Range(queue'[Main]) /\ R \notin Range(functors'[Main])
  BY <1>6, <1>8, <1>9 DEF NewConnection, Ops
<1>10. ASSUME NEW l \in Loops, CloseCallback(l)
       PROVE  R \notin Range(queue'[Main]) /\ R \notin Range(functors'[Main])
  <2>1. l = Main
    <3>1. pc[l] = "dispatch"
      BY <1>1, <1>10 DEF CloseCallback, LoopInv
    <3>2. ASSUME l \in Subs PROVE pc[l] = "none"
      <4>1. l > subLoops
        BY <1>2, <3>2, ServerAssumption DEF Subs
      <4>2. QED  BY <1>1, <3>2, <4>1 DEF PoolInv
    <3>3. QED  BY <3>1, <3>2, LoopFacts
  <2>2. closing[l] \in Conns
    BY <1>1, <1>10 DEF CloseCallback, TypeOK
  <2>3. Enqueue(loopOf[closing[l]], Functor("connectDestroyed", closing[l])) /\ UNCHANGED functors
    BY <1>10, <2>1 DEF CloseCallback, removeConnection, removeConnectionInLoop
  <2>4. QED  BY <1>8, <2>2, <2>3 DEF Ops
<1>11. ASSUME NEW d \in Conns, RunRemoveConnection(d)
       PROVE  R \notin Range(queue'[Main]) /\ R \notin Range(functors'[Main])
  BY <1>8, <1>11 DEF RunRemoveConnection, removeConnectionInLoop, Runs, Ops
<1>12. ASSUME NEW d \in Conns, DestroyConnection(d)
       PROVE  R \notin Range(queue'[Main]) /\ R \notin Range(functors'[Main])
  BY <1>6, <1>8, <1>12 DEF DestroyConnection, Ops
<1>13. QED
  BY <1>6, <1>7, <1>9, <1>10, <1>11, <1>12, LoopFacts
  DEF Next, MainRound, Round, SubStep, Reported, Destructor, vars, Start, EnterLoop, TestQuit,
      RunConnectEstablished, RunConnectDestroyed, Runs, HandleClose, Connect, HangUp, QuitMain,
      DestroyServer, DestroyAcceptor, QuitThread, JoinThread, ServerGone

-----------------------------------------------------------------------------
ServerInv == ServerTypes /\ AccountInv /\ NoRemovals

LEMMA ServerInvariant == Spec => []ServerInv
<1>1. Init => ServerInv
  <2> SUFFICES ASSUME Init PROVE ServerInv
    OBVIOUS
  <2>1. queue[Main] = <<>> /\ functors[Main] = <<>>
    BY LoopFacts DEF Init
  <2>2. NoRemovals
    BY <2>1 DEF NoRemovals, Range
  <2>3. QED  BY <2>2, TypesInit, AccountInit DEF ServerInv
<1>2. ServerInv /\ [Next]_vars => ServerInv'
  <2>1. ServerTypes /\ [Next]_vars => ServerTypes'
    BY TypesKept, PoolKept, LoopKept DEF ServerTypes
  <2>2. QED  BY <2>1, AccountKept, NoRemovalsKept DEF ServerInv
<1>3. QED  BY <1>1, <1>2, PTL DEF Spec

\* The variables of the server, of its loops and of its connections keep their types:
\* m_next stays an index of m_subLoops, and no client is both waiting and accepted.
THEOREM ServerTypeCorrect == Spec => []TypeOK
<1>1. ServerInv => TypeOK
  BY DEF ServerInv, ServerTypes
<1>2. QED  BY <1>1, ServerInvariant, PTL

\* However handleClose() on the connections' loops, the removals on the main loop and
\* ~TcpServer() interleave, a connection is destroyed exactly once on its own loop:
\* until then it is in the map, or its connectDestroyed() is queued, and never both.
\* This is so as long as that loop exists: one that ends can take the call with it
\* (DestroyedOnOwnLoop).
THEOREM DestroyedExactlyOnce == Spec => []Accounted
<1>1. ServerInv => Accounted
  <2> SUFFICES ASSUME ServerInv, NEW c \in Conns, loopOf[c] # NoLoop, pc[loopOf[c]] # "exited"
               PROVE (IF c \in connections THEN 1 ELSE 0) + Pending(c) + destroys[c] = 1
    BY DEF Accounted
  <2>1. TypeOK /\ OneAccount
    BY DEF ServerInv, ServerTypes, AccountInv
  <2>2. loopOf[c] \in Loops
    BY <2>1, ServerAssumption DEF TypeOK, Loops, Subs
  <2>3. Pending(c) = toDestroy[loopOf[c]][c]
    BY <2>2 DEF Pending, toDestroy, WaitsFor, CountFrom
  <2>4. QED  BY <2>1, <2>3 DEF OneAccount
<1>2. QED  BY <1>1, ServerInvariant, PTL

\* When ~TcpServer() has returned, the threads that could call into the server have
\* ended, and the main loop of a server without threads has no removal left to run.  That
\* of a server with threads may have one.
THEOREM PoolEndsFirst == Spec => []CallsFindServer
<1>1. ServerInv => CallsFindServer
  <2> SUFFICES ASSUME ServerInv, server = "gone" PROVE CallsFindServer
    BY DEF CallsFindServer
  <2>1. TypeOK /\ PoolInv /\ NoRemovals
    BY DEF ServerInv, ServerTypes
  <2>2. ASSUME NEW l \in 1 .. subLoops PROVE pc[l] = "exited"
    BY <2>1, ServerAssumption DEF PoolInv, TypeOK, Subs
  <2>3. QED  BY <2>1, <2>2 DEF CallsFindServer, NoRemovals
<1>2. QED  BY <1>1, ServerInvariant, PTL
=============================================================================
