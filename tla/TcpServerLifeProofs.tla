------------------------- MODULE TcpServerLifeProofs -------------------------
(***************************************************************************)
(* TcpServer implements ConnectionLife: proofs for every finite set of     *)
(* clients and every number of threads.                                    *)
(***************************************************************************)
EXTENDS TcpServerProofs

-----------------------------------------------------------------------------
(* The order of two functors                                               *)

\* d is behind e in the queue q or in what is left of the batch fs, of which the first
\* r have run
Ordered(q, fs, r, e, d) ==
    /\ \A j \in r + 1 .. Len(fs) :
          fs[j] = d => \E i \in r + 1 .. Len(fs) : i < j /\ fs[i] = e
    /\ \A j \in 1 .. Len(q) :
          q[j] = d => \/ \E i \in 1 .. Len(q) : i < j /\ q[i] = e
                      \/ \E i \in r + 1 .. Len(fs) : fs[i] = e

LEMMA OrderedAppend ==
    ASSUME NEW q \in Seq(Functors), NEW fs \in Seq(Functors), NEW r \in Nat, NEW e, NEW d,
           NEW g \in Functors, Ordered(q, fs, r, e, d),
           g = d => \/ \E i \in 1 .. Len(q) : q[i] = e
                    \/ \E i \in r + 1 .. Len(fs) : fs[i] = e
    PROVE  Ordered(Append(q, g), fs, r, e, d)
<1> DEFINE p == Append(q, g)
<1>1. /\ Len(q) \in Nat /\ Len(p) = Len(q) + 1 /\ p[Len(q) + 1] = g
      /\ \A i \in 1 .. Len(q) : p[i] = q[i] /\ i \in 1 .. Len(p)
  BY LenProperties, AppendProperties
<1> HIDE DEF p
<1>2. ASSUME NEW j \in 1 .. Len(p), p[j] = d
      PROVE  \/ \E i \in 1 .. Len(p) : i < j /\ p[i] = e
             \/ \E i \in r + 1 .. Len(fs) : fs[i] = e
  <2>1. CASE j \in 1 .. Len(q)
    <3>1. \/ \E i \in 1 .. Len(q) : i < j /\ q[i] = e
          \/ \E i \in r + 1 .. Len(fs) : fs[i] = e
      BY <1>1, <1>2, <2>1 DEF Ordered
    <3>2. QED  BY <1>1, <3>1
  <2>2. CASE j = Len(q) + 1
    <3>1. \/ \E i \in 1 .. Len(q) : q[i] = e
          \/ \E i \in r + 1 .. Len(fs) : fs[i] = e
      BY <1>1, <1>2, <2>2
    <3>2. QED  BY <1>1, <2>2, <3>1
  <2>3. QED  BY <1>1, <2>1, <2>2
<1>3. Ordered(p, fs, r, e, d)
  BY <1>2 DEF Ordered
<1>4. QED  BY <1>3 DEF p

LEMMA OrderedAdvance ==
    ASSUME NEW q \in Seq(Functors), NEW fs \in Seq(Functors), NEW r \in Nat, NEW e, NEW d,
           r < Len(fs), fs[r + 1] # e, Ordered(q, fs, r, e, d)
    PROVE  Ordered(q, fs, r + 1, e, d)
<1>1. Len(fs) \in Nat /\ Len(q) \in Nat
  BY LenProperties
<1>2. \A i \in r + 1 .. Len(fs) : fs[i] = e => i \in (r + 1) + 1 .. Len(fs)
  BY <1>1
<1>3. \A i \in (r + 1) + 1 .. Len(fs) : i \in r + 1 .. Len(fs)
  BY <1>1
<1>4. QED  BY <1>2, <1>3 DEF Ordered

\* what is run next is no d before e
LEMMA OrderedNext ==
    ASSUME NEW q, NEW fs \in Seq(Functors), NEW r \in Nat, NEW e, NEW d,
           r < Len(fs), Ordered(q, fs, r, e, d)
    PROVE  fs[r + 1] # d
<1>1. Len(fs) \in Nat /\ r + 1 \in r + 1 .. Len(fs)
  BY LenProperties
<1>2. \A i \in r + 1 .. Len(fs) : ~(i < r + 1)
  BY <1>1
<1>3. QED  BY <1>1, <1>2 DEF Ordered

LEMMA OrderedBatch ==
    ASSUME NEW q \in Seq(Functors), NEW e, NEW d, Ordered(q, <<>>, 0, e, d)
    PROVE  Ordered(<<>>, q, 0, e, d)
<1>1. Len(<<>>) = 0 /\ Len(q) \in Nat
  BY LenProperties
<1>2. 0 + 1 .. Len(<<>>) = {} /\ 1 .. Len(<<>>) = {} /\ 0 + 1 .. Len(q) = 1 .. Len(q)
  BY <1>1
<1>3. QED  BY <1>2 DEF Ordered

LEMMA OrderedEnd ==
    ASSUME NEW q \in Seq(Functors), NEW fs \in Seq(Functors), NEW e, NEW d,
           Ordered(q, fs, Len(fs), e, d)
    PROVE  Ordered(q, <<>>, 0, e, d)
<1>1. Len(<<>>) = 0 /\ Len(fs) \in Nat
  BY LenProperties
<1>2. 0 + 1 .. Len(<<>>) = {} /\ Len(fs) + 1 .. Len(fs) = {}
  BY <1>1
<1>3. QED  BY <1>2 DEF Ordered

LEMMA OrderedNone ==
    ASSUME NEW e, NEW d
    PROVE  Ordered(<<>>, <<>>, 0, e, d)
<1>1. 0 + 1 .. Len(<<>>) = {} /\ 1 .. Len(<<>>) = {}
  BY LenProperties
<1>2. QED  BY <1>1 DEF Ordered

\* what waits is in the queue or in what is left of the batch
LEMMA WaitsWhere ==
    ASSUME TypeOK, NEW l \in Loops, NEW op, NEW c \in Conns
    PROVE  WaitsFor(op)[l][c] > 0 <=>
              \/ \E i \in 1 .. Len(queue[l]) : queue[l][i] = Functor(op, c)
              \/ \E i \in ran[l] + 1 .. Len(functors[l]) : functors[l][i] = Functor(op, c)
<1> DEFINE f == Functor(op, c)
           A == {i \in 0 + 1 .. Len(queue[l]) : queue[l][i] = f}
           B == {i \in ran[l] + 1 .. Len(functors[l]) : functors[l][i] = f}
<1>1. queue[l] \in Seq(Functors) /\ functors[l] \in Seq(Functors) /\ ran[l] \in Nat
  BY DEF TypeOK
<1>2. IsFiniteSet(A) /\ IsFiniteSet(B)
  BY <1>1, CountFinite, 0 \in Nat
<1>3. /\ Cardinality(A) \in Nat /\ Cardinality(B) \in Nat
      /\ Cardinality(A) = 0 <=> A = {}
      /\ Cardinality(B) = 0 <=> B = {}
  BY <1>2, FS_CardinalityType, FS_EmptySet
<1>4. WaitsFor(op)[l][c] = Cardinality(A) + Cardinality(B)
  BY DEF WaitsFor, CountFrom
<1>5. WaitsFor(op)[l][c] > 0 <=> A # {} \/ B # {}
  <2> HIDE DEF A, B
  <2>1. QED  BY <1>3, <1>4
<1>6. QED  BY <1>5

-----------------------------------------------------------------------------
(* Established, then destroyed                                             *)

\* A connection that is not established yet will be, if its loop goes on.
EstablishmentComes ==
    \A c \in Conns :
        loopOf[c] # NoLoop /\ pc[loopOf[c]] # "exited" /\ state[c] = "kConnecting" =>
            toEstablish[loopOf[c]][c] > 0

\* ... before it is destroyed: what is queued on a loop is run in order.
EstablishedFirst ==
    \A c \in Conns, l \in Loops :
        state[c] = "kConnecting" =>
            Ordered(queue[l], functors[l], ran[l],
                    Functor("connectEstablished", c), Functor("connectDestroyed", c))

DestroyedIsDown == \A c \in Conns : destroys[c] > 0 => state[c] = "kDisconnected"

LifeInv == EstablishmentComes /\ EstablishedFirst /\ DestroyedIsDown

LEMMA StatesForward ==
    ASSUME TypeOK, [Next]_vars
    PROVE  \A c \in Conns : state'[c] = "kConnecting" => state[c] = "kConnecting"
<1> USE DEF poolVars, mapVars, clientVars, connVars, loopVars, ServerVars
<1>1. state \in [Conns -> {"kConnecting", "kConnected", "kDisconnected"}]
  BY DEF TypeOK
<1>2. CASE UNCHANGED state
  BY <1>2
<1>3. ASSUME NEW c \in Conns, connectEstablished(c) \/ connectDestroyed(c)
      PROVE  \A d \in Conns : state'[d] = "kConnecting" => state[d] = "kConnecting"
  BY <1>1, <1>3 DEF connectEstablished, connectDestroyed
<1>4. ASSUME NEW c \in Conns, NEW l \in Loops, HandleClose(l, c)
      PROVE  \A d \in Conns : state'[d] = "kConnecting" => state[d] = "kConnecting"
  BY <1>1, <1>4 DEF HandleClose
<1>5. CASE ~UNCHANGED state
  BY <1>3, <1>4, <1>5
  DEF Next, MainRound, Round, SubStep, Reported, Destructor, vars, Start, EnterLoop, TestQuit,
      DestroyLoop, BeginFunctors, EndFunctors, RunConnectEstablished, RunConnectDestroyed,
      NewConnection, CloseCallback, RunRemoveConnection, Connect, HangUp, QuitMain,
      DestroyServer, DestroyConnection, DestroyAcceptor, QuitThread, JoinThread, ServerGone
<1>6. QED  BY <1>2, <1>5

\* m_loop is set once
LEMMA LoopStays ==
    ASSUME ServerTypes, [Next]_vars
    PROVE  \A c \in Conns : loopOf[c] # NoLoop => loopOf'[c] = loopOf[c]
<1> USE DEF poolVars, mapVars, clientVars, connVars, loopVars, ServerVars
<1>1. ASSUME NEW c \in Conns, NewConnection(c)
      PROVE  \A d \in Conns : loopOf[d] # NoLoop => loopOf'[d] = loopOf[d]
  <2>1. loopOf[c] = NoLoop /\ loopOf' = [loopOf EXCEPT ![c] = NextLoop]
    BY <1>1 DEF NewConnection, AcceptorHandleRead, ServerTypes, BacklogInv
  <2>2. QED  BY <2>1 DEF ServerTypes, TypeOK
<1>2. CASE UNCHANGED loopOf
  BY <1>2
<1>3. CASE ~UNCHANGED loopOf
  BY <1>1, <1>3
  DEF Next, MainRound, Round, SubStep, Reported, Destructor, vars, Start, EnterLoop, TestQuit,
      DestroyLoop, BeginFunctors, EndFunctors, RunConnectEstablished, RunConnectDestroyed,
      HandleClose, CloseCallback, RunRemoveConnection, Connect, HangUp, QuitMain,
      DestroyServer, DestroyConnection, DestroyAcceptor, QuitThread, JoinThread, ServerGone
<1>4. QED  BY <1>2, <1>3

LEMMA OrderKept == ServerInv /\ LifeInv /\ [Next]_vars => EstablishedFirst'
<1> SUFFICES ASSUME ServerInv, LifeInv, [Next]_vars,
                    NEW d \in Conns, NEW k \in Loops, state'[d] = "kConnecting"
             PROVE  Ordered(queue'[k], functors'[k], ran'[k],
                            Functor("connectEstablished", d), Functor("connectDestroyed", d))
  BY DEF EstablishedFirst
<1> DEFINE e == Functor("connectEstablished", d)
           x == Functor("connectDestroyed", d)
           Q == queue[k]
           F == functors[k]
           r == ran[k]
           Goal == Ordered(queue'[k], functors'[k], ran'[k], e, x)
<1> USE DEF poolVars, mapVars, clientVars, connVars, loopVars, ServerVars
<1>1. /\ TypeOK /\ PoolInv /\ LoopInv /\ BacklogInv /\ OwnLoop /\ RemovedOnce /\ MainQuiet
      /\ EstablishmentComes /\ Main \in Loops
      /\ queue \in [Loops -> Seq(Functors)] /\ functors \in [Loops -> Seq(Functors)]
      /\ ran \in [Loops -> Nat] /\ server \in ServerStates
      /\ loopOf \in [Conns -> Loops \cup {NoLoop}]
  <2>1. {NoLoop, Main} \cup 1 .. subLoops \subseteq Loops \cup {NoLoop}
    BY ServerAssumption DEF ServerInv, ServerTypes, TypeOK, Loops, Subs
  <2>2. QED  BY <2>1, LoopFacts DEF ServerInv, ServerTypes, TypeOK, AccountInv, LifeInv
<1>2. state[d] = "kConnecting" /\ Ordered(Q, F, r, e, x)
  BY <1>1, StatesForward DEF LifeInv, EstablishedFirst
<1>3. Q \in Seq(Functors) /\ F \in Seq(Functors) /\ r \in Nat
  BY <1>1
<1>4. \A op, o \in Ops, c \in Conns :
         /\ Functor(op, c) \in Functors
         /\ Functor(op, c) = Functor(o, d) <=> op = o /\ c = d
  BY SameFunctor
<1> HIDE DEF e, x, Q, F, r
<1>5. ASSUME UNCHANGED <<queue, functors, ran>> PROVE Goal
  BY <1>2, <1>5 DEF e, x, Q, F, r
<1>6. ASSUME NEW l \in Loops, BeginFunctors(l) PROVE Goal
  <2>1. CASE k = l
    <3>1. F = <<>> /\ r = 0 /\ queue'[k] = <<>> /\ functors'[k] = Q /\ ran'[k] = 0
      BY <1>1, <1>6, <2>1 DEF BeginFunctors, Dispatching, LoopInv, Q, F, r
    <3>2. Ordered(Q, <<>>, 0, e, x)
      BY <1>2, <3>1
    <3>3. Ordered(<<>>, Q, 0, e, x)
      BY <1>3, <3>2, OrderedBatch
    <3>4. QED  BY <3>1, <3>3
  <2>2. CASE k # l
    <3>1. queue'[k] = Q /\ functors'[k] = F /\ ran'[k] = r
      BY <1>1, <1>6, <2>2 DEF BeginFunctors, Q, F, r
    <3>2. QED  BY <1>2, <3>1
  <2>3. QED  BY <2>1, <2>2
<1>7. ASSUME NEW l \in Loops, EndFunctors(l) PROVE Goal
  <2>1. CASE k = l
    <3>1. r = Len(F) /\ queue'[k] = Q /\ functors'[k] = <<>> /\ ran'[k] = 0
      BY <1>1, <1>7, <2>1 DEF EndFunctors, Q, F, r
    <3>2. Ordered(Q, F, Len(F), e, x)
      BY <1>2, <3>1
    <3>3. Ordered(Q, <<>>, 0, e, x)
      BY <1>3, <3>2, OrderedEnd
    <3>4. QED  BY <3>1, <3>3
  <2>2. CASE k # l
    <3>1. queue'[k] = Q /\ functors'[k] = F /\ ran'[k] = r
      BY <1>1, <1>7, <2>2 DEF EndFunctors, Q, F, r
    <3>2. QED  BY <1>2, <3>1
  <2>3. QED  BY <2>1, <2>2
<1>8. ASSUME NEW l \in Loops, DestroyLoop(l) PROVE Goal
  <2>1. CASE k = l
    <3>1. queue'[k] = <<>> /\ functors'[k] = <<>> /\ ran'[k] = 0
      BY <1>1, <1>8, <2>1 DEF DestroyLoop, LoopInv
    <3>2. QED  BY <3>1, OrderedNone
  <2>2. CASE k # l
    <3>1. queue'[k] = Q /\ functors'[k] = F /\ ran'[k] = r
      BY <1>1, <1>8, <2>2 DEF DestroyLoop, Q, F, r
    <3>2. QED  BY <1>2, <3>1
  <2>3. QED  BY <2>1, <2>2
\* a functor runs that is not the establishment of d
<1>9. ASSUME NEW l \in Loops, NEW op \in Ops, NEW c \in Conns, Runs(l, op, c),
             op = "connectEstablished" => c # d
      PROVE  Ordered(Q, functors'[k], ran'[k], e, x)
  <2>1. CASE k = l
    <3>1. /\ r < Len(F) /\ F[r + 1] = Functor(op, c) /\ functors'[k] = F /\ ran'[k] = r + 1
      BY <1>1, <1>9, <2>1 DEF Runs, F, r
    <3>2. F[r + 1] # e
      BY <1>4, <1>9, <3>1 DEF e, Ops
    <3>3. Ordered(Q, F, r + 1, e, x)
      BY <1>2, <1>3, <3>1, <3>2, OrderedAdvance
    <3>4. QED  BY <3>1, <3>3
  <2>2. CASE k # l
    <3>1. functors'[k] = F /\ ran'[k] = r
      BY <1>1, <1>9, <2>2 DEF Runs, F, r
    <3>2. QED  BY <1>2, <3>1
  <2>3. QED  BY <2>1, <2>2
\* a functor is queued that is not the destruction of d
<1>10. ASSUME NEW l \in Loops, NEW op \in Ops, NEW c \in Conns, Enqueue(l, Functor(op, c)),
              op = "connectDestroyed" => c # d,
              Ordered(Q, functors'[k], ran'[k], e, x),
              functors'[k] \in Seq(Functors), ran'[k] \in Nat
       PROVE  Goal
  <2>1. CASE k = l
    <3>1. queue'[k] = Append(Q, Functor(op, c))
      BY <1>1, <1>10, <2>1 DEF Enqueue, Q
    <3>2. Functor(op, c) \in Functors /\ Functor(op, c) # x
      BY <1>4, <1>10 DEF x, Ops
    <3>3. Ordered(Append(Q, Functor(op, c)), functors'[k], ran'[k], e, x)
      BY <1>3, <1>10, <3>2, OrderedAppend
    <3>4. QED  BY <3>1, <3>3
  <2>2. CASE k # l
    <3>1. queue'[k] = Q
      BY <1>1, <1>10, <2>2 DEF Enqueue, Q
    <3>2. QED  BY <1>10, <3>1
  <2>3. QED  BY <2>1, <2>2
<1>11. ASSUME NEW l \in Loops, NEW c \in Conns, RunConnectEstablished(l, c) PROVE Goal
  <2>1. c # d
    BY <1>11 DEF RunConnectEstablished, connectEstablished, ServerInv, ServerTypes, TypeOK
  <2>2. Ordered(Q, functors'[k], ran'[k], e, x) /\ UNCHANGED queue
    BY <1>9, <1>11, <2>1 DEF RunConnectEstablished, Ops
  <2>3. QED  BY <2>2 DEF Q
<1>12. ASSUME NEW l \in Loops, NEW c \in Conns, RunConnectDestroyed(l, c) PROVE Goal
  <2>1. Ordered(Q, functors'[k], ran'[k], e, x) /\ UNCHANGED queue
    BY <1>9, <1>12 DEF RunConnectDestroyed, Ops
  <2>2. QED  BY <2>1 DEF Q
<1>13. ASSUME NEW c \in Conns, NewConnection(c) PROVE Goal
  <2>1. CASE Enqueue(NextLoop, Functor("connectEstablished", c))
    <3>1. NextLoop \in Loops
      BY <1>1, ServerAssumption DEF NextLoop, TypeOK, Loops, Subs
    <3>2. functors'[k] = F /\ ran'[k] = r
      BY <1>13 DEF NewConnection, F, r
    <3>3. QED  BY <1>2, <1>3, <1>10, <2>1, <3>1, <3>2 DEF Ops
  <2>2. QED  BY <1>5, <1>13, <2>1 DEF NewConnection
<1>14. ASSUME NEW l \in Loops, CloseCallback(l) PROVE Goal
  <2>1. closing[l] \in Conns /\ functors'[k] = F /\ ran'[k] = r
    BY <1>1, <1>14 DEF CloseCallback, TypeOK, F, r
  <2>2. CASE l = Main
    <3>1. Alive /\ state[closing[l]] = "kDisconnected"
      BY <1>1, <1>14, <2>1, <2>2 DEF CloseCallback, MainQuiet, RemovedOnce
    <3>2. Enqueue(loopOf[closing[l]], Functor("connectDestroyed", closing[l]))
      BY <1>14, <2>2 DEF CloseCallback, removeConnection, removeConnectionInLoop
    <3>3. loopOf[closing[l]] \in Loops /\ closing[l] # d
      BY <1>1, <1>2, <2>1, <2>2, <3>1 DEF OwnLoop
    <3>4. QED  BY <1>2, <1>3, <1>10, <2>1, <3>2, <3>3 DEF Ops
  <2>3. CASE l # Main
    <3>1. Enqueue(Main, Functor("removeConnectionInLoop", closing[l]))
      BY <1>14, <2>3 DEF CloseCallback, removeConnection
    <3>2. QED  BY <1>1, <1>2, <1>3, <1>10, <2>1, <3>1 DEF Ops
  <2>4. QED  BY <2>2, <2>3
<1>15. ASSUME NEW c \in Conns, RunRemoveConnection(c) PROVE Goal
  <2>1. /\ Runs(Main, "removeConnectionInLoop", c)
        /\ Enqueue(loopOf[c], Functor("connectDestroyed", c))
    BY <1>15 DEF RunRemoveConnection, removeConnectionInLoop
  <2>2. Alive
    BY <1>1, <1>15 DEF RunRemoveConnection, Runs, BetweenFunctors, Free, ServerStates, Alive
  <2>3. toRemove[Main][c] > 0
    BY <1>1, <2>1, RunsWaits DEF Ops, toRemove
  <2>4. c # d /\ loopOf[c] \in Loops
    BY <1>1, <1>2, <2>2, <2>3 DEF RemovedOnce, BacklogInv
  <2>5. Ordered(Q, functors'[k], ran'[k], e, x)
    BY <1>1, <1>9, <2>1 DEF Ops
  <2>6. functors'[k] \in Seq(Functors) /\ ran'[k] \in Nat
    BY <1>1, <2>1 DEF Runs
  <2>7. QED  BY <1>10, <2>1, <2>4, <2>5, <2>6 DEF Ops
<1>16. ASSUME NEW c \in Conns, DestroyConnection(c) PROVE Goal
  <2>1. CASE UNCHANGED queue
    BY <1>5, <1>16, <2>1 DEF DestroyConnection
  <2>2. CASE ~UNCHANGED queue
    <3>1. /\ Enqueue(loopOf[c], x) \/ c # d
          /\ Enqueue(loopOf[c], Functor("connectDestroyed", c))
          /\ functors'[k] = F /\ ran'[k] = r /\ loopOf[c] # Main
      BY <1>16, <2>2 DEF DestroyConnection, F, r, x
    <3>2. loopOf[c] \in Loops /\ pc[loopOf[c]] # "exited"
      BY <1>1, <1>16, <3>1, LoopFacts DEF DestroyConnection, BacklogInv, PoolInv, Alive
    <3>3. CASE c # d
      BY <1>2, <1>3, <1>10, <3>1, <3>2, <3>3 DEF Ops
    <3>4. CASE c = d /\ k = loopOf[c]
      <4>1. toEstablish[k][d] > 0
        BY <1>1, <1>2, <3>2, <3>4, LoopFacts DEF EstablishmentComes
      <4>2. \/ \E i \in 1 .. Len(Q) : Q[i] = e
            \/ \E i \in r + 1 .. Len(F) : F[i] = e
        BY <1>1, <4>1, WaitsWhere DEF toEstablish, Q, F, r, e
      <4>3. x \in Functors
        BY <1>4 DEF x, Ops
      <4>4. Ordered(Append(Q, x), F, r, e, x)
        BY <1>2, <1>3, <4>2, <4>3, OrderedAppend
      <4>5. queue'[k] = Append(Q, x)
        BY <1>1, <3>1, <3>2, <3>4 DEF Enqueue, Q, x
      <4>6. QED  BY <3>1, <4>4, <4>5
    <3>5. CASE c = d /\ k # loopOf[c]
      <4>1. queue'[k] = Q
        BY <1>1, <3>1, <3>5 DEF Enqueue, Q
      <4>2. QED  BY <1>2, <3>1, <4>1
    <3>6. QED  BY <3>3, <3>4, <3>5
  <2>3. QED  BY <2>1, <2>2
<1>17. Goal
  BY <1>5, <1>6, <1>7, <1>8, <1>11, <1>12, <1>13, <1>14, <1>15, <1>16, LoopFacts
  DEF Next, MainRound, Round, SubStep, Reported, Destructor, vars, Start, EnterLoop, TestQuit,
      HandleClose, Connect, HangUp, QuitMain, DestroyServer, DestroyAcceptor, QuitThread,
      JoinThread, ServerGone
<1>18. QED  BY <1>17 DEF e, x

LEMMA ExitedStays ==
    ASSUME ServerTypes, [Next]_vars
    PROVE  \A l \in Loops : pc[l] = "exited" => pc'[l] = "exited"
<1> USE DEF poolVars, mapVars, clientVars, connVars, loopVars, ServerVars
<1>1. pc \in [Loops -> Pcs] /\ PoolInv /\ TypeOK
  BY DEF ServerTypes, TypeOK
<1>2. CASE UNCHANGED pc
  BY <1>2
<1>3. ASSUME NEW n \in 0 .. MaxThreads, Start(n)
      PROVE  \A l \in Loops : pc[l] = "exited" => pc'[l] = "exited"
  <2>1. \A l \in 1 .. n : l \in Subs /\ pc[l] = "none"
    BY <1>1, <1>3, ServerAssumption DEF Start, PoolInv, Subs
  <2>2. QED  BY <1>1, <1>3, <2>1 DEF Start, StartPool
<1>4. ASSUME NEW k \in Loops,
             EnterLoop(k) \/ TestQuit(k) \/ DestroyLoop(k) \/ BeginFunctors(k) \/ EndFunctors(k)
      PROVE  \A l \in Loops : pc[l] = "exited" => pc'[l] = "exited"
  BY <1>1, <1>4
  DEF EnterLoop, TestQuit, DestroyLoop, BeginFunctors, EndFunctors, Dispatching, BetweenFunctors
<1>5. CASE ~UNCHANGED pc
  BY <1>3, <1>4, <1>5, LoopFacts
  DEF Next, MainRound, Round, SubStep, Reported, Destructor, vars, RunConnectEstablished,
      RunConnectDestroyed, Runs, NewConnection, HandleClose, CloseCallback,
      RunRemoveConnection, Connect, HangUp, QuitMain, DestroyServer, DestroyConnection,
      DestroyAcceptor, QuitThread, JoinThread, ServerGone
<1>6. QED  BY <1>2, <1>5

LEMMA ComesKept == ServerInv /\ LifeInv /\ [Next]_vars => EstablishmentComes'
<1> SUFFICES ASSUME ServerInv, LifeInv, [Next]_vars, NEW c \in Conns, loopOf'[c] # NoLoop,
                    pc'[loopOf'[c]] # "exited", state'[c] = "kConnecting"
             PROVE  toEstablish'[loopOf'[c]][c] > 0
  BY DEF EstablishmentComes
<1> DEFINE k == loopOf[c]
           Goal == toEstablish'[loopOf'[c]][c] > 0
<1> USE DEF poolVars, mapVars, clientVars, connVars, loopVars, ServerVars
<1>1. /\ TypeOK /\ PoolInv /\ LoopInv /\ BacklogInv /\ ServerTypes /\ UntouchedBefore
      /\ OwnLoop /\ RemovedOnce /\ Main \in Loops
      /\ loopOf \in [Conns -> Loops \cup {NoLoop}] /\ server \in ServerStates
      /\ closing \in [Loops -> Conns \cup {NoConn}]
      /\ state \in [Conns -> {"kConnecting", "kConnected", "kDisconnected"}]
  <2>1. {NoLoop, Main} \cup 1 .. subLoops \subseteq Loops \cup {NoLoop}
    BY ServerAssumption DEF ServerInv, ServerTypes, TypeOK, Loops, Subs
  <2>2. QED  BY <2>1, LoopFacts DEF ServerInv, ServerTypes, TypeOK, AccountInv
<1>2. toEstablish \in [Loops -> [Conns -> Nat]]
  BY <1>1, WaitsTypes
<1>3. state[c] = "kConnecting"
  BY <1>1, StatesForward
\* for a connection that is accepted already
<1>4. ASSUME k # NoLoop
      PROVE  /\ k \in Loops /\ loopOf'[c] = k /\ pc'[k] # "exited"
             /\ toEstablish[k][c] > 0 /\ toEstablish[k][c] \in Nat
  <2>1. k \in Loops /\ loopOf'[c] = k
    BY <1>1, <1>4, LoopStays
  <2>2. pc[k] # "exited"
    BY <1>1, <2>1, ExitedStays
  <2>3. QED  BY <1>2, <1>3, <1>4, <2>1, <2>2 DEF LifeInv, EstablishmentComes
<1>5. ASSUME NEW d \in Conns, NewConnection(d) PROVE Goal
  <2>1. NextLoop \in Loops
    BY <1>1, ServerAssumption DEF NextLoop, TypeOK, Loops, Subs
  <2>2. CASE NextLoop = Main
    <3>1. d # c /\ UNCHANGED <<queue, functors, ran>> /\ loopOf' = [loopOf EXCEPT ![d] = Main]
      BY <1>1, <1>5, <2>2 DEF NewConnection, connectEstablished
    <3>2. k # NoLoop
      BY <1>1, <3>1
    <3>3. QED  BY <1>4, <3>1, <3>2, WaitsSame
  <2>3. CASE NextLoop # Main
    <3>1. /\ Enqueue(NextLoop, Functor("connectEstablished", d)) /\ UNCHANGED <<functors, ran>>
          /\ loopOf' = [loopOf EXCEPT ![d] = NextLoop]
      BY <1>5, <2>3 DEF NewConnection
    <3>2. \A l \in Loops :
             toEstablish'[l][c] = toEstablish[l][c] + (IF l = NextLoop /\ c = d THEN 1 ELSE 0)
      BY <1>1, <2>1, <3>1, WaitsEnqueue DEF Ops
    <3>3. CASE c = d
      <4>1. loopOf'[c] = NextLoop /\ toEstablish[NextLoop][c] \in Nat
        BY <1>1, <1>2, <2>1, <3>1, <3>3
      <4>2. QED  BY <2>1, <3>2, <3>3, <4>1
    <3>4. CASE c # d
      <4>1. k # NoLoop
        BY <1>1, <3>1, <3>4
      <4>2. QED  BY <1>4, <3>2, <3>4, <4>1
    <3>5. QED  BY <3>3, <3>4
  <2>4. QED  BY <2>2, <2>3
<1>6. ASSUME ~ \E d \in Conns : NewConnection(d) PROVE Goal
  <2>1. loopOf' = loopOf
    BY <1>6
    DEF Next, MainRound, Round, SubStep, Reported, Destructor, vars, Start, EnterLoop, TestQuit,
        DestroyLoop, BeginFunctors, EndFunctors, RunConnectEstablished, RunConnectDestroyed,
        HandleClose, CloseCallback, RunRemoveConnection, Connect, HangUp, QuitMain,
        DestroyServer, DestroyConnection, DestroyAcceptor, QuitThread, JoinThread, ServerGone
  <2>2. /\ k \in Loops /\ k # NoLoop /\ loopOf'[c] = k /\ pc'[k] # "exited"
        /\ toEstablish[k][c] > 0 /\ toEstablish[k][c] \in Nat
    BY <1>4, <2>1
  <2> HIDE DEF k
  <2> SUFFICES toEstablish'[k][c] >= toEstablish[k][c] /\ toEstablish'[k][c] \in Nat
    BY <2>2
  <2>3. ASSUME UNCHANGED toEstablish
        PROVE  toEstablish'[k][c] >= toEstablish[k][c] /\ toEstablish'[k][c] \in Nat
    BY <2>2, <2>3
  <2>4. ASSUME UNCHANGED <<queue, functors, ran>>
        PROVE  toEstablish'[k][c] >= toEstablish[k][c] /\ toEstablish'[k][c] \in Nat
    BY <2>3, <2>4, WaitsSame
  <2>5. ASSUME NEW l \in Loops, BeginFunctors(l) \/ EndFunctors(l)
        PROVE  toEstablish'[k][c] >= toEstablish[k][c] /\ toEstablish'[k][c] \in Nat
    BY <1>1, <2>3, <2>5, WaitsRound
  <2>6. ASSUME NEW l \in Loops, DestroyLoop(l)
        PROVE  toEstablish'[k][c] >= toEstablish[k][c] /\ toEstablish'[k][c] \in Nat
    <3>1. k # l
      BY <2>2, <2>6 DEF DestroyLoop, ServerInv, ServerTypes, TypeOK
    <3>2. toEstablish'[k][c] = toEstablish[k][c]
      BY <1>1, <2>2, <2>6, <3>1, WaitsDestroyed
    <3>3. QED  BY <2>2, <3>2
  <2>7. ASSUME NEW l \in Loops, NEW d \in Conns, RunConnectEstablished(l, d)
        PROVE  toEstablish'[k][c] >= toEstablish[k][c] /\ toEstablish'[k][c] \in Nat
    <3>1. c # d /\ Runs(l, "connectEstablished", d) /\ UNCHANGED queue
      BY <1>1, <2>7 DEF RunConnectEstablished, connectEstablished
    <3>2. toEstablish'[k][c] = toEstablish[k][c] - 0
      BY <1>1, <2>2, <3>1, WaitsRun DEF Ops
    <3>3. QED  BY <2>2, <3>2
  <2>8. ASSUME NEW l \in Loops, NEW d \in Conns, RunConnectDestroyed(l, d)
        PROVE  toEstablish'[k][c] >= toEstablish[k][c] /\ toEstablish'[k][c] \in Nat
    <3>1. Runs(l, "connectDestroyed", d) /\ UNCHANGED queue
      BY <2>8 DEF RunConnectDestroyed
    <3>2. toEstablish'[k][c] = toEstablish[k][c] - 0
      BY <1>1, <2>2, <3>1, WaitsRun DEF Ops
    <3>3. QED  BY <2>2, <3>2
  <2>9. ASSUME NEW l \in Loops, NEW op \in Ops, NEW d \in Conns, Enqueue(l, Functor(op, d)),
               UNCHANGED <<functors, ran>>
        PROVE  toEstablish'[k][c] >= toEstablish[k][c] /\ toEstablish'[k][c] \in Nat
    <3>1. \/ toEstablish'[k][c] = toEstablish[k][c] + 1
          \/ toEstablish'[k][c] = toEstablish[k][c] + 0
      BY <1>1, <2>2, <2>9, WaitsEnqueue
    <3>2. QED  BY <2>2, <3>1
  <2>10. ASSUME NEW l \in Loops, CloseCallback(l)
         PROVE  toEstablish'[k][c] >= toEstablish[k][c] /\ toEstablish'[k][c] \in Nat
    <3>1. closing[l] \in Conns /\ loopOf[closing[l]] = l
      BY <1>1, <2>10 DEF CloseCallback, OwnLoop
    <3>2. \/ Enqueue(loopOf[closing[l]], Functor("connectDestroyed", closing[l]))
          \/ Enqueue(Main, Functor("removeConnectionInLoop", closing[l]))
      BY <2>10 DEF CloseCallback, removeConnection, removeConnectionInLoop
    <3>3. QED  BY <1>1, <2>9, <2>10, <3>1, <3>2 DEF CloseCallback, Ops
  <2>11. ASSUME NEW d \in Conns, RunRemoveConnection(d)
         PROVE  toEstablish'[k][c] >= toEstablish[k][c] /\ toEstablish'[k][c] \in Nat
    <3>1. /\ Runs(Main, "removeConnectionInLoop", d)
          /\ Enqueue(loopOf[d], Functor("connectDestroyed", d))
      BY <2>11 DEF RunRemoveConnection, removeConnectionInLoop
    <3>2. Alive
      BY <1>1, <2>11 DEF RunRemoveConnection, Runs, BetweenFunctors, Free, ServerStates, Alive
    <3>3. toRemove[Main][d] > 0
      BY <1>1, <3>1, RunsWaits DEF Ops, toRemove
    <3>4. loopOf[d] \in Loops
      BY <1>1, <3>2, <3>3 DEF RemovedOnce, BacklogInv
    <3>5. toEstablish'[k][c] = toEstablish[k][c]
      BY <1>1, <2>2, <3>1, <3>4, WaitsRemove
    <3>6. QED  BY <2>2, <3>5
  <2>12. ASSUME NEW d \in Conns, DestroyConnection(d)
         PROVE  toEstablish'[k][c] >= toEstablish[k][c] /\ toEstablish'[k][c] \in Nat
    <3>1. loopOf[d] \in Loops
      BY <1>1, <2>12 DEF DestroyConnection, BacklogInv
    <3>2. QED  BY <2>4, <2>9, <2>12, <3>1 DEF DestroyConnection, Ops
  <2>13. QED
    BY <1>6, <2>4, <2>5, <2>6, <2>7, <2>8, <2>10, <2>11, <2>12, LoopFacts
    DEF Next, MainRound, Round, SubStep, Reported, Destructor, vars, Start, EnterLoop, TestQuit,
        HandleClose, Connect, HangUp, QuitMain, DestroyServer, DestroyAcceptor, QuitThread,
        JoinThread, ServerGone
<1>7. QED  BY <1>5, <1>6

\* a connectDestroyed() that is run finds its connection established
LEMMA DestroysEstablished ==
    ASSUME ServerInv, LifeInv, NEW l \in Loops, NEW c \in Conns, RunConnectDestroyed(l, c)
    PROVE  state[c] # "kConnecting"
<1>1. /\ functors[l] \in Seq(Functors) /\ ran[l] \in Nat /\ ran[l] < Len(functors[l])
      /\ functors[l][ran[l] + 1] = Functor("connectDestroyed", c)
  BY DEF RunConnectDestroyed, Runs, ServerInv, ServerTypes, TypeOK
<1>2. SUFFICES ASSUME state[c] = "kConnecting" PROVE FALSE
  OBVIOUS
<1>3. Ordered(queue[l], functors[l], ran[l],
              Functor("connectEstablished", c), Functor("connectDestroyed", c))
  BY <1>2 DEF LifeInv, EstablishedFirst
<1>4. QED  BY <1>1, <1>3, OrderedNext

\* ... and so does ~TcpServer() one of the main loop
LEMMA DestroysEstablishedOnMain ==
    ASSUME ServerInv, LifeInv, NEW c \in Conns, DestroyConnection(c), loopOf[c] = Main
    PROVE  state[c] # "kConnecting"
<1>1. /\ PoolInv /\ BacklogInv /\ EstablishedOnce /\ EstablishmentComes /\ Main \in Loops
  BY LoopFacts DEF ServerInv, ServerTypes, AccountInv, LifeInv
<1>2. loopOf[c] # NoLoop /\ pc[loopOf[c]] # "exited"
  BY <1>1 DEF DestroyConnection, BacklogInv, PoolInv
<1>3. QED  BY <1>1, <1>2 DEF EstablishedOnce, EstablishmentComes

LEMMA DownKept == ServerInv /\ LifeInv /\ [Next]_vars => DestroyedIsDown'
<1> SUFFICES ASSUME ServerInv, LifeInv, [Next]_vars PROVE DestroyedIsDown'
  OBVIOUS
<1> USE DEF poolVars, mapVars, clientVars, connVars, loopVars, ServerVars
<1>1. /\ TypeOK /\ DestroyedIsDown /\ UntouchedBefore /\ BacklogInv /\ EstablishedOnce
      /\ state \in [Conns -> {"kConnecting", "kConnected", "kDisconnected"}]
      /\ destroys \in [Conns -> Nat]
  BY DEF ServerInv, ServerTypes, TypeOK, AccountInv, LifeInv
<1>2. ASSUME UNCHANGED <<state, destroys>> PROVE DestroyedIsDown'
  BY <1>1, <1>2 DEF DestroyedIsDown
<1>3. ASSUME NEW l \in Loops, NEW c \in Conns, RunConnectEstablished(l, c)
      PROVE  DestroyedIsDown'
  <2>1. toEstablish[l][c] > 0
    BY <1>1, <1>3, RunsWaits DEF RunConnectEstablished, Ops, toEstablish
  <2>2. state[c] = "kConnecting"
    BY <1>1, <2>1 DEF EstablishedOnce
  <2>3. QED
    BY <1>1, <1>3, <2>2 DEF RunConnectEstablished, connectEstablished, DestroyedIsDown
<1>4. ASSUME NEW l \in Loops, NEW c \in Conns, RunConnectDestroyed(l, c)
      PROVE  DestroyedIsDown'
  BY <1>1, <1>4, DestroysEstablished
  DEF RunConnectDestroyed, connectDestroyed, DestroyedIsDown
<1>5. ASSUME NEW c \in Conns, NewConnection(c) PROVE DestroyedIsDown'
  <2>1. destroys[c] = 0
    BY <1>1, <1>5 DEF NewConnection, AcceptorHandleRead, BacklogInv, UntouchedBefore
  <2>2. CASE connectEstablished(c)
    BY <1>1, <2>1, <2>2 DEF connectEstablished, DestroyedIsDown
  <2>3. QED  BY <1>2, <1>5, <2>2 DEF NewConnection
<1>6. ASSUME NEW c \in Conns, NEW l \in Loops, HandleClose(l, c) PROVE DestroyedIsDown'
  BY <1>1, <1>6 DEF HandleClose, DestroyedIsDown
<1>7. ASSUME NEW c \in Conns, DestroyConnection(c) PROVE DestroyedIsDown'
  <2>1. CASE loopOf[c] = Main
    BY <1>1, <1>7, <2>1, DestroysEstablishedOnMain
    DEF DestroyConnection, connectDestroyed, DestroyedIsDown
  <2>2. QED  BY <1>2, <1>7, <2>1 DEF DestroyConnection
<1>8. QED
  BY <1>2, <1>3, <1>4, <1>5, <1>6, <1>7, LoopFacts
  DEF Next, MainRound, Round, SubStep, Reported, Destructor, vars, Start, EnterLoop, TestQuit,
      DestroyLoop, BeginFunctors, EndFunctors, CloseCallback, RunRemoveConnection, Connect,
      HangUp, QuitMain, DestroyServer, DestroyAcceptor, QuitThread, JoinThread, ServerGone

LEMMA LifeInvariant == Spec => [](ServerInv /\ LifeInv)
<1>1. Init => LifeInv
  <2> SUFFICES ASSUME Init PROVE LifeInv
    OBVIOUS
  <2>1. EstablishmentComes /\ DestroyedIsDown
    BY DEF Init, EstablishmentComes, DestroyedIsDown
  <2>2. EstablishedFirst
    BY OrderedNone DEF Init, EstablishedFirst
  <2>3. QED  BY <2>1, <2>2 DEF LifeInv
<1>2. ServerInv /\ LifeInv /\ [Next]_vars => LifeInv'
  BY ComesKept, OrderKept, DownKept DEF LifeInv
<1>3. QED  BY <1>1, <1>2, ServerInvariant, PTL DEF Spec

-----------------------------------------------------------------------------
(* References                                                              *)

\* The memory of a connection is not released before connectDestroyed() has run, as
\* long as its loop exists.
HeldUntilDestroyed ==
    \A c \in Conns :
        loopOf[c] # NoLoop /\ pc[loopOf[c]] # "exited" /\ destroys[c] = 0 => Held(c)

LEMMA UndestroyedIsHeld == ServerInv => HeldUntilDestroyed
<1> SUFFICES ASSUME ServerInv, NEW c \in Conns, loopOf[c] # NoLoop,
                    pc[loopOf[c]] # "exited", destroys[c] = 0, c \notin connections
             PROVE  Held(c)
  BY DEF HeldUntilDestroyed, Held
<1> DEFINE l == loopOf[c]
<1>1. TypeOK /\ OneAccount /\ l \in Loops
  BY ServerAssumption DEF ServerInv, ServerTypes, TypeOK, AccountInv, Loops, Subs
<1>2. toDestroy[l][c] = 1
  <2>1. toDestroy[l][c] \in Nat
    BY <1>1, WaitsTypes
  <2>2. 0 + toDestroy[l][c] + 0 = 1
    BY <1>1 DEF OneAccount
  <2> HIDE DEF l
  <2>3. QED  BY <2>1, <2>2
<1> HIDE DEF l
<1>3. /\ queue[l] \in Seq(Functors) /\ functors[l] \in Seq(Functors) /\ ran[l] \in Nat
  BY <1>1 DEF TypeOK
<1>4. \/ \E i \in 1 .. Len(queue[l]) : queue[l][i] = Functor("connectDestroyed", c)
      \/ \E i \in ran[l] + 1 .. Len(functors[l]) :
            functors[l][i] = Functor("connectDestroyed", c)
  BY <1>1, <1>2, WaitsWhere DEF toDestroy
<1>5. Functor("connectDestroyed", c)[2] = c
  BY DEF Functor
<1>6. CASE \E i \in 1 .. Len(queue[l]) : queue[l][i] = Functor("connectDestroyed", c)
  <2>1. PICK i \in 1 .. Len(queue[l]) : queue[l][i] = Functor("connectDestroyed", c)
    BY <1>6
  <2>2. queue[l][i] \in Range(queue[l])
    BY <1>3, LenProperties DEF Range
  <2>3. QED  BY <1>1, <1>5, <2>1, <2>2 DEF Held, Bound
<1>7. CASE \E i \in ran[l] + 1 .. Len(functors[l]) :
              functors[l][i] = Functor("connectDestroyed", c)
  <2>1. PICK i \in ran[l] + 1 .. Len(functors[l]) :
                functors[l][i] = Functor("connectDestroyed", c)
    BY <1>7
  <2>2. i \in 1 .. Len(functors[l])
    BY <1>3, LenProperties
  <2>3. functors[l][i] \in Range(functors[l])
    BY <1>3, <2>2, LenProperties DEF Range
  <2>4. QED  BY <1>1, <1>5, <2>1, <2>3 DEF Held, Bound
<1>8. QED  BY <1>4, <1>6, <1>7

LEMMA BoundNone == \A c \in Conns : ~Bound(c, <<>>)
  BY DEF Bound, Range

LEMMA EnqueueBound ==
    ASSUME TypeOK, NEW l, NEW op \in Ops, NEW c \in Conns, Enqueue(l, Functor(op, c))
    PROVE  \A k \in Loops, d \in Conns :
              Bound(d, queue'[k]) <=> Bound(d, queue[k]) \/ (k = l /\ d = c)
<1> SUFFICES ASSUME NEW k \in Loops, NEW d \in Conns
             PROVE  Bound(d, queue'[k]) <=> Bound(d, queue[k]) \/ (k = l /\ d = c)
  OBVIOUS
<1> DEFINE f == Functor(op, c)
           q == queue[k]
<1>1. /\ q \in Seq(Functors) /\ queue \in [Loops -> Seq(Functors)]
      /\ queue' = [queue EXCEPT ![l] = Append(@, f)]
  BY DEF TypeOK, Enqueue
<1>2. f \in Functors /\ f[2] = c
  BY SameFunctor DEF Functor
<1> HIDE DEF f
<1>3. CASE k = l
  <2>1. queue'[k] = Append(q, f)
    BY <1>1, <1>3
  <2>2. /\ Len(q) \in Nat /\ Append(q, f)[Len(q) + 1] = f
        /\ DOMAIN Append(q, f) = 1 .. Len(q) + 1 /\ DOMAIN q = 1 .. Len(q)
        /\ \A i \in 1 .. Len(q) : Append(q, f)[i] = q[i]
    BY <1>1, <1>2, LenProperties, AppendProperties
  <2>3. Range(Append(q, f)) = Range(q) \cup {f}
    BY <2>2 DEF Range
  <2>4. QED  BY <1>2, <1>3, <2>1, <2>3 DEF Bound
<1>4. CASE k # l
  BY <1>1, <1>4
<1>5. QED  BY <1>3, <1>4

LEMMA HeldSame ==
    UNCHANGED <<connections, queue, functors, closing>> =>
        \A c \in Conns : Held(c)' <=> Held(c)
  BY DEF Held

\* a functor that is queued holds its connection, which is the only one it holds
LEMMA EnqueueHolds ==
    ASSUME TypeOK, NEW l \in Loops, NEW op \in Ops, NEW c \in Conns, Enqueue(l, Functor(op, c)),
           UNCHANGED functors,
           \A d \in Conns \ {c} : d \in connections' <=> d \in connections,
           \A k \in Loops, d \in Conns \ {c} : closing'[k] = d <=> closing[k] = d
    PROVE  Held(c)' /\ \A d \in Conns \ {c} : Held(d)' <=> Held(d)
<1>1. \A k \in Loops, d \in Conns :
         Bound(d, queue'[k]) <=> Bound(d, queue[k]) \/ (k = l /\ d = c)
  BY EnqueueBound
<1>2. QED  BY <1>1 DEF Held

\* Only the acceptor and handleClose() make references that there were none of.
LEMMA NothingRevived ==
    ASSUME ServerInv, [Next]_vars, NEW c \in Conns, Held(c)',
           ~ \E d \in Conns : NewConnection(d),
           ~ \E d \in Conns, l \in Loops : HandleClose(l, d)
    PROVE  Held(c)
<1> USE DEF poolVars, mapVars, clientVars, connVars, loopVars, ServerVars
<1>1. /\ TypeOK /\ OwnLoop /\ BacklogInv /\ RemovedOnce /\ Main \in Loops
      /\ queue \in [Loops -> Seq(Functors)] /\ functors \in [Loops -> Seq(Functors)]
      /\ closing \in [Loops -> Conns \cup {NoConn}] /\ server \in ServerStates
      /\ NoConn \notin Conns
  BY LoopFacts, ServerAssumption DEF ServerInv, ServerTypes, TypeOK, AccountInv
<1>2. ASSUME UNCHANGED <<connections, queue, functors, closing>> PROVE Held(c)
  BY <1>2, HeldSame
<1>3. ASSUME NEW l \in Loops, BeginFunctors(l) \/ EndFunctors(l) \/ DestroyLoop(l)
      PROVE  Held(c)
  <2>1. UNCHANGED <<connections, closing>>
    BY <1>3 DEF BeginFunctors, EndFunctors, DestroyLoop
  <2>2. ASSUME NEW k \in Loops, Bound(c, queue'[k]) \/ Bound(c, functors'[k])
        PROVE  Bound(c, queue[k]) \/ Bound(c, functors[k])
    BY <1>1, <1>3, <2>2, BoundNone DEF BeginFunctors, EndFunctors, DestroyLoop
  <2>3. QED  BY <2>1, <2>2 DEF Held
<1>4. ASSUME NEW l \in Loops, CloseCallback(l) PROVE Held(c)
  <2>1. /\ closing[l] \in Conns /\ Held(closing[l]) /\ loopOf[closing[l]] = l
        /\ UNCHANGED functors /\ closing' = [closing EXCEPT ![l] = NoConn]
    BY <1>1, <1>4 DEF CloseCallback, Held, OwnLoop
  <2>2. ASSUME NEW d \in Conns, d # closing[l]
        PROVE  /\ d \in connections' <=> d \in connections
               /\ \A k \in Loops : closing'[k] = d <=> closing[k] = d
    BY <1>1, <1>4, <2>1, <2>2
    DEF CloseCallback, removeConnection, removeConnectionInLoop
  <2>3. \/ Enqueue(l, Functor("connectDestroyed", closing[l]))
        \/ Enqueue(Main, Functor("removeConnectionInLoop", closing[l]))
    BY <1>4, <2>1 DEF CloseCallback, removeConnection, removeConnectionInLoop
  <2>4. \A d \in Conns \ {closing[l]} : Held(d)' <=> Held(d)
    BY <1>1, <2>1, <2>2, <2>3, EnqueueHolds DEF Ops
  <2>5. QED  BY <2>1, <2>4
<1>5. ASSUME NEW d \in Conns, RunRemoveConnection(d) PROVE Held(c)
  <2>1. /\ functors[Main][ran[Main] + 1] = Functor("removeConnectionInLoop", d)
        /\ ran[Main] < Len(functors[Main]) /\ ran[Main] \in Nat
        /\ functors[Main] \in Seq(Functors)
        /\ connections' = connections \ {d} /\ UNCHANGED <<functors, closing>>
        /\ Runs(Main, "removeConnectionInLoop", d)
        /\ Enqueue(loopOf[d], Functor("connectDestroyed", d))
    BY <1>1, <1>5 DEF RunRemoveConnection, Runs, removeConnectionInLoop, TypeOK
  <2>2. Bound(d, functors[Main])
    <3>1. ran[Main] + 1 \in DOMAIN functors[Main]
      BY <2>1, LenProperties
    <3>2. functors[Main][ran[Main] + 1] \in Range(functors[Main])
      BY <3>1 DEF Range
    <3>3. Functor("removeConnectionInLoop", d)[2] = d
      BY DEF Functor
    <3>4. QED  BY <2>1, <3>2, <3>3 DEF Bound
  <2>3. Held(d)
    BY <1>1, <2>2 DEF Held
  <2>4. CASE c # d
    <3>1. \A k \in Loops : Bound(c, queue'[k]) => Bound(c, queue[k])
      BY <1>1, <2>1, <2>4, EnqueueBound DEF Ops
    <3>2. QED  BY <2>1, <2>4, <3>1 DEF Held
  <2>5. QED  BY <2>3, <2>4
<1>6. ASSUME NEW d \in Conns, DestroyConnection(d) PROVE Held(c)
  <2>1. Held(d) /\ connections' = connections \ {d} /\ UNCHANGED <<functors, closing>>
    BY <1>6 DEF DestroyConnection, Held
  <2>2. CASE c # d
    <3>1. \A k \in Loops : Bound(c, queue'[k]) => Bound(c, queue[k])
      BY <1>1, <1>6, <2>2, EnqueueBound DEF DestroyConnection, Ops
    <3>2. QED  BY <2>1, <2>2, <3>1 DEF Held
  <2>3. QED  BY <2>1, <2>2
<1>7. QED
  BY <1>2, <1>3, <1>4, <1>5, <1>6, LoopFacts
  DEF Next, MainRound, Round, SubStep, Reported, Destructor, vars, Start, EnterLoop, TestQuit,
      RunConnectEstablished, RunConnectDestroyed, Runs, Connect, HangUp, QuitMain,
      DestroyServer, DestroyAcceptor, QuitThread, JoinThread, ServerGone

-----------------------------------------------------------------------------
(* Steps                                                                   *)

\* A step in which nothing happens to a connection but that references to it go.
LEMMA ReferencesGo ==
    ASSUME ServerInv, ServerInv', HeldUntilDestroyed',
           UNCHANGED <<state, destroys, loopOf>>, Alive' <=> Alive,
           \A c \in Conns : Held(c)' => Held(c)
    PROVE  \E cs \in SUBSET Conns : Life!Release(cs)
<1> DEFINE cs == {c \in Conns : loopOf[c] # NoLoop /\ Held(c) /\ ~Held(c)'}
<1>1. /\ state \in [Conns -> {"kConnecting", "kConnected", "kDisconnected"}]
      /\ destroys \in [Conns -> Nat] /\ PoolInv' /\ loopOf \in [Conns -> Loops \cup {NoLoop}]
  <2>1. {NoLoop, Main} \cup 1 .. subLoops \subseteq Loops \cup {NoLoop}
    BY ServerAssumption DEF ServerInv, ServerTypes, TypeOK, Loops, Subs
  <2>2. QED  BY <2>1 DEF ServerInv, ServerTypes, TypeOK
<1>2. ASSUME NEW c \in cs
      PROVE  Stage(c) = "removed" \/ (~Alive /\ Stage(c) \in Life!Live)
  <2>1. CASE destroys[c] > 0
    BY <2>1 DEF Stage
  <2>2. CASE destroys[c] = 0
    <3>1. pc'[loopOf[c]] = "exited"
      BY <2>2 DEF HeldUntilDestroyed
    <3>2. loopOf[c] \in Loops
      BY <1>1
    <3>3. ~Alive
      BY <1>1, <3>1, <3>2, LoopFacts DEF PoolInv, Alive
    <3>4. Stage(c) \in {"new", "up", "down"}
      BY <1>1, <2>2 DEF Stage
    <3>5. QED  BY <3>3, <3>4 DEF Life!Live
  <2>3. QED  BY <1>1, <2>1, <2>2
<1>3. ASSUME NEW c \in Conns
      PROVE  Stage(c)' = IF c \in cs THEN "freed" ELSE Stage(c)
  BY <1>1 DEF Stage
<1>4. [c \in Conns |-> Stage(c)]'
        = [c \in Conns |-> IF c \in cs THEN "freed" ELSE [d \in Conns |-> Stage(d)][c]]
  BY <1>3
<1> HIDE DEF cs
<1>5. cs \in SUBSET Conns
  BY DEF cs
<1>6. Life!Release(cs)
  BY <1>2, <1>4, <1>5 DEF Life!Release, Alive
<1>7. QED  BY <1>5, <1>6

\* A step that is about connection c alone.
LEMMA OneMoves ==
    ASSUME NEW c \in Conns, NEW from, NEW to, Stage(c) \in from, Stage(c)' \in to,
           \A d \in Conns \ {c} : Stage(d)' = Stage(d), Alive' <=> Alive
    PROVE  Life!Move(c, from, to)
<1> DEFINE S == [d \in Conns |-> Stage(d)]
<1>1. S[c] \in from
  OBVIOUS
<1>2. [d \in Conns |-> Stage(d)]' = [S EXCEPT ![c] = Stage(c)']
  OBVIOUS
<1>3. QED  BY <1>1, <1>2 DEF Life!Move, Alive

\* connections whose references, state and place stay are in the stage they were
LEMMA StageSame ==
    ASSUME TypeOK, NEW d \in Conns, Held(d)' <=> Held(d), state'[d] = state[d],
           destroys'[d] = destroys[d], loopOf'[d] = loopOf[d]
    PROVE  Stage(d)' = Stage(d)
<1>1. state[d] \in {"kConnecting", "kConnected", "kDisconnected"}
  BY DEF TypeOK
<1>2. QED  BY <1>1 DEF Stage

LEMMA StepMaps ==
    ServerInv /\ LifeInv /\ ServerInv' /\ HeldUntilDestroyed /\ HeldUntilDestroyed'
        /\ [Next]_vars => [Life!Next]_(Life!vars)
<1> SUFFICES ASSUME ServerInv, LifeInv, ServerInv', HeldUntilDestroyed, HeldUntilDestroyed',
                    [Next]_vars
             PROVE  [Life!Next]_(Life!vars)
  OBVIOUS
<1> USE DEF poolVars, mapVars, clientVars, connVars, loopVars, ServerVars
<1>1. /\ TypeOK /\ PoolInv /\ LoopInv /\ BacklogInv /\ UntouchedBefore /\ OwnLoop
      /\ EstablishedOnce /\ OneAccount /\ KeptUntilDown /\ DestroyedIsDown
      /\ Main \in Loops /\ NoLoop \notin Loops
      /\ loopOf \in [Conns -> Loops \cup {NoLoop}]
      /\ state \in [Conns -> {"kConnecting", "kConnected", "kDisconnected"}]
      /\ destroys \in [Conns -> Nat]
      /\ closing \in [Loops -> Conns \cup {NoConn}] /\ NoConn \notin Conns
  <2>1. {NoLoop, Main} \cup 1 .. subLoops \subseteq Loops \cup {NoLoop}
    BY ServerAssumption DEF ServerInv, ServerTypes, TypeOK, Loops, Subs
  <2>2. QED
    BY <2>1, LoopFacts, ServerAssumption
    DEF ServerInv, ServerTypes, TypeOK, AccountInv, LifeInv
<1>2. ASSUME NEW l \in Loops, NEW c \in Conns, RunConnectEstablished(l, c)
      PROVE  Life!Up(c)
  <2>1. /\ pc[l] = "functors" /\ state' = [state EXCEPT ![c] = "kConnected"]
        /\ UNCHANGED <<connections, queue, functors, closing, destroys, loopOf, server, pc>>
    BY <1>2 DEF RunConnectEstablished, connectEstablished, Runs, BetweenFunctors
  <2>2. toEstablish[l][c] > 0
    BY <1>1, <1>2, RunsWaits DEF RunConnectEstablished, Ops, toEstablish
  <2>3. state[c] = "kConnecting" /\ loopOf[c] = l
    BY <1>1, <2>2 DEF EstablishedOnce, OwnLoop
  <2>4. destroys[c] = 0
    BY <1>1, <2>3 DEF DestroyedIsDown
  <2>5. Held(c) /\ Held(c)'
    BY <1>1, <2>1, <2>3, <2>4 DEF HeldUntilDestroyed
  <2>6. Stage(c) = "new" /\ Stage(c)' = "up"
    BY <1>1, <2>1, <2>3, <2>4, <2>5 DEF Stage
  <2>7. \A d \in Conns \ {c} : Stage(d)' = Stage(d)
    BY <1>1, <2>1, HeldSame, StageSame
  <2>8. Life!Move(c, {"new"}, {"up"})
    BY <2>1, <2>6, <2>7, OneMoves DEF Alive
  <2>9. QED  BY <2>8 DEF Life!Up
<1>3. ASSUME NEW l \in Loops, NEW c \in Conns, RunConnectDestroyed(l, c)
      PROVE  Life!Remove(c)
  <2>1. /\ pc[l] = "functors" /\ destroys' = [destroys EXCEPT ![c] = @ + 1]
        /\ state' = [state EXCEPT ![c] = IF @ = "kConnected" THEN "kDisconnected" ELSE @]
        /\ UNCHANGED <<connections, queue, functors, closing, loopOf, server, pc>>
    BY <1>3 DEF RunConnectDestroyed, connectDestroyed, Runs, BetweenFunctors
  <2>2. toDestroy[l][c] > 0 /\ toDestroy[l][c] \in Nat
    BY <1>1, <1>3, RunsWaits, WaitsTypes DEF RunConnectDestroyed, Ops, toDestroy
  <2>3. loopOf[c] = l
    BY <1>1, <2>2 DEF OwnLoop
  <2>4. destroys[c] = 0
    BY <1>1, <2>1, <2>2, <2>3 DEF OneAccount
  <2>5. Held(c) /\ Held(c)'
    BY <1>1, <2>1, <2>3, <2>4, HeldSame DEF HeldUntilDestroyed
  <2>6. state[c] # "kConnecting"
    BY <1>3, DestroysEstablished
  <2>7. Stage(c) \in {"up", "down"} /\ Stage(c)' = "removed"
    BY <1>1, <2>1, <2>3, <2>4, <2>5, <2>6 DEF Stage
  <2>8. \A d \in Conns \ {c} : Stage(d)' = Stage(d)
    BY <1>1, <2>1, HeldSame, StageSame
  <2>9. Life!Move(c, {"up", "down"}, {"removed", "freed"})
    BY <2>1, <2>7, <2>8, OneMoves DEF Alive
  <2>10. QED  BY <2>9 DEF Life!Remove
<1>4. ASSUME NEW c \in Conns, NEW l \in Loops, HandleClose(l, c) PROVE Life!Down(c)
  <2>1. /\ pc[l] = "dispatch" /\ loopOf[c] = l /\ state[c] = "kConnected"
        /\ closing[l] = NoConn
        /\ state' = [state EXCEPT ![c] = "kDisconnected"]
        /\ closing' = [closing EXCEPT ![l] = c]
        /\ UNCHANGED <<connections, queue, functors, loopOf, destroys, server, pc>>
    BY <1>4 DEF HandleClose, Dispatching
  <2>2. destroys[c] = 0
    BY <1>1, <2>1 DEF DestroyedIsDown
  <2>3. Held(c) /\ Held(c)'
    <3>1. Held(c)
      BY <1>1, <2>1, <2>2 DEF HeldUntilDestroyed
    <3>2. closing'[l] = c
      BY <1>1, <2>1
    <3>3. QED  BY <3>1, <3>2 DEF Held
  <2>4. Stage(c) = "up" /\ Stage(c)' = "down"
    BY <1>1, <2>1, <2>2, <2>3 DEF Stage
  <2>5. ASSUME NEW d \in Conns \ {c} PROVE Stage(d)' = Stage(d)
    <3>1. \A k \in Loops : closing'[k] = d <=> closing[k] = d
      BY <1>1, <2>1
    <3>2. Held(d)' <=> Held(d)
      BY <2>1, <3>1 DEF Held
    <3>3. QED  BY <1>1, <2>1, <3>2, StageSame
  <2>6. Life!Move(c, {"up"}, {"down"})
    BY <2>1, <2>4, <2>5, OneMoves DEF Alive
  <2>7. QED  BY <2>6 DEF Life!Down
<1>5. ASSUME NEW c \in Conns, NewConnection(c) PROVE Life!Accept(c)
  <2>1. /\ server = "serving" /\ loopOf[c] = NoLoop /\ connections' = connections \cup {c}
        /\ loopOf' = [loopOf EXCEPT ![c] = NextLoop] /\ NextLoop \in Loops
        /\ UNCHANGED <<functors, closing, server>>
    BY <1>1, <1>5, ServerAssumption
    DEF NewConnection, AcceptorHandleRead, BacklogInv, NextLoop, TypeOK, Loops, Subs
  <2>2. Stage(c) = "none" /\ destroys[c] = 0 /\ state[c] = "kConnecting"
    BY <1>1, <2>1 DEF Stage, UntouchedBefore
  <2>3. Held(c)' /\ loopOf'[c] = NextLoop
    BY <1>1, <2>1 DEF Held
  <2>4. CASE NextLoop = Main
    <3>1. /\ state' = [state EXCEPT ![c] = "kConnected"] /\ UNCHANGED <<queue, destroys>>
      BY <1>5, <2>4 DEF NewConnection, connectEstablished
    <3>2. Stage(c)' = "up"
      BY <1>1, <2>1, <2>2, <2>3, <3>1 DEF Stage
    <3>3. ASSUME NEW d \in Conns \ {c} PROVE Stage(d)' = Stage(d)
      <4>1. Held(d)' <=> Held(d)
        BY <2>1, <3>1 DEF Held
      <4>2. QED  BY <1>1, <2>1, <3>1, <4>1, StageSame
    <3>4. Life!Move(c, {"none"}, {"new", "up"})
      BY <2>1, <2>2, <3>2, <3>3, OneMoves DEF Alive
    <3>5. QED  BY <2>1, <3>4 DEF Life!Accept
  <2>5. CASE NextLoop # Main
    <3>1. /\ Enqueue(NextLoop, Functor("connectEstablished", c))
          /\ UNCHANGED <<state, destroys>>
      BY <1>5, <2>5 DEF NewConnection
    <3>2. Stage(c)' = "new"
      BY <1>1, <2>1, <2>2, <2>3, <3>1 DEF Stage
    <3>3. \A d \in Conns \ {c} : Held(d)' <=> Held(d)
      BY <1>1, <2>1, <3>1, EnqueueHolds DEF Ops
    <3>4. ASSUME NEW d \in Conns \ {c} PROVE Stage(d)' = Stage(d)
      BY <1>1, <2>1, <3>1, <3>3, StageSame
    <3>5. Life!Move(c, {"none"}, {"new", "up"})
      BY <2>1, <2>2, <3>2, <3>4, OneMoves DEF Alive
    <3>6. QED  BY <2>1, <3>5 DEF Life!Accept
  <2>6. QED  BY <2>4, <2>5
<1>6. ASSUME NEW c \in Conns, DestroyConnection(c), loopOf[c] = Main PROVE Life!Remove(c)
  <2>1. /\ server = "clearing" /\ c \in connections /\ connections' = connections \ {c}
        /\ destroys' = [destroys EXCEPT ![c] = @ + 1]
        /\ state' = [state EXCEPT ![c] = IF @ = "kConnected" THEN "kDisconnected" ELSE @]
        /\ UNCHANGED <<queue, functors, closing, loopOf, server, pc>>
    BY <1>6 DEF DestroyConnection, connectDestroyed
  <2>2. pc[Main] # "exited" /\ toDestroy[Main][c] \in Nat
    BY <1>1, <2>1, WaitsTypes DEF PoolInv
  <2>3. destroys[c] = 0
    BY <1>1, <1>6, <2>1, <2>2 DEF OneAccount
  <2>4. state[c] # "kConnecting"
    BY <1>6, DestroysEstablishedOnMain
  <2>5. Stage(c) \in {"up", "down"} /\ Stage(c)' \in {"removed", "freed"}
    <3>1. Held(c)
      BY <2>1 DEF Held
    <3>2. QED  BY <1>1, <1>6, <2>1, <2>3, <2>4, <3>1 DEF Stage
  <2>6. ASSUME NEW d \in Conns \ {c} PROVE Stage(d)' = Stage(d)
    <3>1. Held(d)' <=> Held(d)
      BY <2>1 DEF Held
    <3>2. QED  BY <1>1, <2>1, <3>1, StageSame
  <2>7. Life!Move(c, {"up", "down"}, {"removed", "freed"})
    BY <2>1, <2>5, <2>6, OneMoves DEF Alive
  <2>8. QED  BY <2>7 DEF Life!Remove
<1>7. CASE DestroyServer
  <2>1. \A d \in Conns : Stage(d)' = Stage(d)
    BY <1>1, <1>7, HeldSame, StageSame DEF DestroyServer
  <2>2. Life!End
    BY <1>7, <2>1 DEF DestroyServer, Life!End
  <2>3. QED  BY <2>2 DEF Life!Next
<1>8. ASSUME UNCHANGED <<state, destroys, loopOf>>, Alive' <=> Alive,
             ~ \E d \in Conns : NewConnection(d),
             ~ \E d \in Conns, l \in Loops : HandleClose(l, d)
      PROVE  \E cs \in SUBSET Conns : Life!Release(cs)
  <2>1. \A c \in Conns : Held(c)' => Held(c)
    BY <1>8, NothingRevived
  <2>2. QED  BY <1>8, <2>1, ReferencesGo
<1>9. CASE /\ ~DestroyServer
           /\ ~ \E c \in Conns : NewConnection(c)
           /\ ~ \E c \in Conns, l \in Loops : HandleClose(l, c)
           /\ ~ \E c \in Conns : DestroyConnection(c) /\ loopOf[c] = Main
           /\ ~ \E c \in Conns, l \in Loops :
                   RunConnectEstablished(l, c) \/ RunConnectDestroyed(l, c)
  <2>1. UNCHANGED <<state, destroys, loopOf>>
    BY <1>9, LoopFacts
    DEF Next, MainRound, Round, SubStep, Reported, Destructor, vars, Start, EnterLoop, TestQuit,
        DestroyLoop, BeginFunctors, EndFunctors, CloseCallback, RunRemoveConnection, Connect,
        HangUp, QuitMain, DestroyConnection, DestroyAcceptor, QuitThread, JoinThread,
        ServerGone
  <2>2. Alive' <=> Alive
    BY <1>9, LoopFacts
    DEF Next, MainRound, Round, SubStep, Reported, Destructor, vars, Start, Listen, EnterLoop,
        TestQuit, DestroyLoop, BeginFunctors, EndFunctors, CloseCallback,
        RunRemoveConnection, Connect, HangUp, QuitMain, DestroyConnection, DestroyAcceptor,
        QuitThread, JoinThread, ServerGone, Alive
  <2>3. QED  BY <1>8, <1>9, <2>1, <2>2 DEF Life!Next
<1>10. QED  BY <1>2, <1>3, <1>4, <1>5, <1>6, <1>7, <1>9 DEF Life!Next

\* The server implements its promise about each connection: however the references of
\* the map, of two loops' queues and batches and of a closeCallback under way come and
\* go, a connection goes up, down, out of its loop and out of memory in this order, and
\* is never established again or referred to once it is released.
THEOREM ServerImplementsLife == Spec => ImplementsLife
<1>1. Init => Life!Init
  <2> SUFFICES ASSUME Init PROVE Life!Init
    OBVIOUS
  <2>1. \A c \in Conns : Stage(c) = "none"
    BY DEF Init, Stage
  <2>2. server \in {"new", "serving"}
    BY DEF Init
  <2>3. QED  BY <2>1, <2>2 DEF Life!Init
<1>2. QED
  BY <1>1, StepMaps, LifeInvariant, UndestroyedIsHeld, PTL DEF Spec, ImplementsLife, Life!Spec
=============================================================================
