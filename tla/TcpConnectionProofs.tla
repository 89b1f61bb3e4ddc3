------------------------- MODULE TcpConnectionProofs -------------------------
(***************************************************************************)
(* Proofs about TcpConnection, for every set of messages, files and        *)
(* threads, every length of a message, high water mark and environment.    *)
(***************************************************************************)
EXTENDS TcpConnection, SequenceTheorems, TLAPS

LEMMA FunctionIsSeq ==
    ASSUME NEW S, NEW n \in Nat, NEW f \in [1 .. n -> S]
    PROVE  f \in Seq(S) /\ Len(f) = n
<1>1. f \in Seq(S)
  BY SeqDef
<1>2. DOMAIN f = 1 .. Len(f) /\ Len(f) \in Nat /\ DOMAIN f = 1 .. n
  BY <1>1, LenProperties
<1>3. Len(f) = n
  BY <1>2
<1>4. QED  BY <1>1, <1>3

LEMMA ConcatOne ==
    ASSUME NEW S, NEW q \in Seq(S), NEW e \in S
    PROVE  q \o <<e>> = Append(q, e)
  BY AppendIsConcat

LEMMA ConcatNone ==
    ASSUME NEW S, NEW q \in Seq(S)
    PROVE  q \o <<>> = q
  BY ConcatEmptySeq

-----------------------------------------------------------------------------
(* The functors, and what the name of one says of the rest of it.          *)

FlowFunctors == {Functor("writeComplete"), Functor("highWaterMark")}
FileFunctors == {FileFunctor(f, off) : f \in Files, off \in 0 .. MsgLen - 1}

LEMMA FunctorNames ==
    ASSUME NEW g \in Functors
    PROVE  /\ g[1] = "sendInLoop" => g[2] \in Msgs
           /\ g[1] = "sendFileInLoop" => g[2] \in Files /\ g[3] \in 0 .. MsgLen - 1
           /\ \A op \in {"connectEstablished", "connectDestroyed", "shutdownInLoop",
                         "writeComplete", "highWaterMark"} :
                 g[1] = op => g = Functor(op)
  BY DEF Functors, Functor, SendFunctor, FileFunctor

LEMMA NamesOfFunctors ==
    /\ \A op \in {"connectEstablished", "connectDestroyed", "shutdownInLoop",
                  "writeComplete", "highWaterMark"} :
          Functor(op) \in Functors /\ Functor(op)[1] = op
    /\ \A m \in Msgs : SendFunctor(m) \in Functors /\ SendFunctor(m)[1] = "sendInLoop"
    /\ \A g \in FileFunctors : g \in Functors /\ g[1] = "sendFileInLoop"
  BY DEF Functors, FileFunctors, Functor, SendFunctor, FileFunctor

LEMMA RestIsSeq ==
    ASSUME NEW m \in Msgs \cup Files, NEW off \in 0 .. MsgLen
    PROVE  Rest(m, off) \in Seq(Units) /\ Len(Rest(m, off)) = MsgLen - off
<1>1. MsgLen \in Nat /\ MsgLen - off \in Nat /\ off \in Nat
  BY ConnAssumption
<1>2. \A i \in 1 .. MsgLen - off : <<m, off + i>> \in Units
  BY <1>1 DEF Units
<1>3. Rest(m, off) \in [1 .. MsgLen - off -> Units]
  BY <1>2 DEF Rest
<1>4. QED  BY <1>1, <1>3, FunctionIsSeq

LEMMA PrefixIsSeq ==
    ASSUME NEW S, NEW q \in Seq(S), NEW n \in 0 .. Len(q)
    PROVE  SubSeq(q, 1, n) \in Seq(S) /\ SubSeq(q, n + 1, Len(q)) \in Seq(S)
           /\ Len(SubSeq(q, n + 1, Len(q))) = Len(q) - n
<1>1. Len(q) \in Nat
  BY LenProperties
<1>2. QED  BY <1>1, SMT

-----------------------------------------------------------------------------
(* What send() and sendFile() come to on the loop's thread.                *)

SendTypes == 
    /\ outputBuffer' \in Seq(Units) /\ wire' \in Seq(Units)
    /\ sockError' \in BOOLEAN
    /\ events' \subseteq {"in", "out"} /\ index' \in {"kNew", "kAdded", "kDeleted"}

\* nothing is queued and nothing changes but the stream
Untouched == UNCHANGED <<outputBuffer, events, index>>

\* what SendInLoop(m, q) and SendFileInLoop(m, off, q) may do with the queue, the backlog and the channel
SendOutcome(q) ==
    \/ Untouched /\ queue' = q
    \/ Untouched /\ \E g \in FileFunctors : queue' = Append(q, g)
    \/ /\ Untouched /\ ~Busy
       /\ queue' = Append(q, Functor("writeComplete"))
    \/ /\ state # "kDisconnected" /\ (Busy \/ ~SocketDead)
       /\ Len(outputBuffer') > Len(outputBuffer)
       /\ events' = events \cup {"out"}
       /\ isWriting => index' = index
       /\ index' \in {index, "kAdded"}
       /\ \/ /\ queue' = q
             /\ Len(outputBuffer) >= HighWaterMark \/ Len(outputBuffer') < HighWaterMark
          \/ /\ queue' = Append(q, Functor("highWaterMark"))
             /\ Len(outputBuffer) < HighWaterMark /\ Len(outputBuffer') >= HighWaterMark

LEMMA HighWaterQueues ==
    ASSUME NEW q \in Seq(Functors), NEW old \in Nat, NEW new \in Nat
    PROVE  \/ /\ q \o HighWater(old, new) = q
              /\ old >= HighWaterMark \/ new < HighWaterMark
           \/ /\ q \o HighWater(old, new) = Append(q, Functor("highWaterMark"))
              /\ old < HighWaterMark /\ new >= HighWaterMark
<1>1. Functor("highWaterMark") \in Functors /\ HighWaterMark \in Nat
  BY NamesOfFunctors, ConnAssumption
<1>2. /\ q \o <<Functor("highWaterMark")>> = Append(q, Functor("highWaterMark"))
      /\ q \o <<>> = q
  BY <1>1, ConcatOne, ConcatNone
<1>3. QED  BY <1>1, <1>2 DEF HighWater

LEMMA AppendToBufferEffect ==
    ASSUME TypeOK, NEW rest \in Seq(Units), AppendToBuffer(rest)
    PROVE  /\ outputBuffer' = outputBuffer \o rest /\ outputBuffer' \in Seq(Units)
           /\ Len(outputBuffer') = Len(outputBuffer) + Len(rest)
           /\ events' = events \cup {"out"} /\ events' \subseteq {"in", "out"}
           /\ isWriting => index' = index
           /\ index' \in {index, "kAdded"} /\ index' \in {"kNew", "kAdded", "kDeleted"}
<1>1. outputBuffer' = outputBuffer \o rest
  BY DEF AppendToBuffer
<1>2. outputBuffer' \in Seq(Units) /\ Len(outputBuffer') = Len(outputBuffer) + Len(rest)
  BY <1>1 DEF TypeOK
<1>3. QED
  BY <1>1, <1>2 DEF AppendToBuffer, UpdateChannel, isWriting, chanVars, TypeOK

LEMMA SendEffect ==
    ASSUME TypeOK, NEW m \in Msgs, NEW q \in Seq(Functors), SendInLoop(m, q)
    PROVE  SendTypes /\ SendOutcome(q)
<1>1. /\ MsgLen \in Nat \ {0} /\ outputBuffer \in Seq(Units) /\ wire \in Seq(Units)
      /\ Len(outputBuffer) \in Nat /\ sockError \in BOOLEAN
      /\ events \subseteq {"in", "out"} /\ index \in {"kNew", "kAdded", "kDeleted"}
  BY ConnAssumption, LenProperties DEF TypeOK
<1>2. \A n \in 0 .. MsgLen : Rest(m, n) \in Seq(Units) /\ Len(Rest(m, n)) = MsgLen - n
  BY RestIsSeq
<1>3. q \o WriteComplete = Append(q, Functor("writeComplete"))
  BY NamesOfFunctors, ConcatOne DEF WriteComplete
<1>4. CASE UNCHANGED <<outputBuffer, chanVars, wire>> /\ queue' = q /\ sockError' \in BOOLEAN
  BY <1>1, <1>4 DEF SendTypes, SendOutcome, Untouched, chanVars
<1>5. CASE /\ ~GivesUp /\ Busy /\ AppendToBuffer(Rest(m, 0))
           /\ queue' = q \o HighWater(Len(outputBuffer), Len(outputBuffer) + MsgLen)
           /\ UNCHANGED <<wire, sockError>>
  <2>1. Rest(m, 0) \in Seq(Units) /\ Len(Rest(m, 0)) = MsgLen
    BY <1>1, <1>2
  <2>2. /\ outputBuffer' \in Seq(Units) /\ Len(outputBuffer') = Len(outputBuffer) + MsgLen
        /\ events' = events \cup {"out"} /\ events' \subseteq {"in", "out"}
        /\ isWriting => index' = index
        /\ index' \in {index, "kAdded"} /\ index' \in {"kNew", "kAdded", "kDeleted"}
    BY <1>5, <2>1, AppendToBufferEffect
  <2>3. \/ /\ queue' = q
           /\ Len(outputBuffer) >= HighWaterMark \/ Len(outputBuffer') < HighWaterMark
        \/ /\ queue' = Append(q, Functor("highWaterMark"))
           /\ Len(outputBuffer) < HighWaterMark /\ Len(outputBuffer') >= HighWaterMark
    <3>1. Len(outputBuffer') \in Nat /\ Len(outputBuffer) \in Nat
      BY <1>1, <2>2
    <3>2. queue' = q \o HighWater(Len(outputBuffer), Len(outputBuffer'))
      BY <1>5, <2>2
    <3>3. QED  BY <3>1, <3>2, HighWaterQueues
  <2>4. Len(outputBuffer') > Len(outputBuffer)
    BY <1>1, <2>2
  <2>5. QED  BY <1>1, <1>5, <2>2, <2>3, <2>4 DEF SendTypes, SendOutcome, GivesUp
<1>6. ASSUME ~GivesUp, ~Busy, ~SocketDead, UNCHANGED sockError,
             NEW n \in 0 .. MsgLen,
             wire' = wire \o SubSeq(Rest(m, 0), 1, n),
             IF n = MsgLen
             THEN /\ queue' = q \o WriteComplete
                  /\ UNCHANGED <<outputBuffer, chanVars>>
             ELSE /\ queue' = q \o HighWater(0, MsgLen - n)
                  /\ AppendToBuffer(Rest(m, n))
      PROVE  SendTypes /\ SendOutcome(q)
  <2>1. wire' \in Seq(Units)
    <3>1. Rest(m, 0) \in Seq(Units) /\ n \in 0 .. Len(Rest(m, 0))
      BY <1>1, <1>2, <1>6
    <3>2. SubSeq(Rest(m, 0), 1, n) \in Seq(Units)
      BY <3>1, PrefixIsSeq
    <3>3. QED  BY <1>1, <1>6, <3>2
  <2>2. CASE n = MsgLen
    BY <1>1, <1>3, <1>6, <2>1, <2>2 DEF SendTypes, SendOutcome, Untouched, chanVars
  <2>3. CASE n # MsgLen
    <3>1. Rest(m, n) \in Seq(Units) /\ Len(Rest(m, n)) = MsgLen - n /\ MsgLen - n \in Nat \ {0}
      BY <1>1, <1>2, <1>6, <2>3
    <3>2. /\ outputBuffer' \in Seq(Units)
          /\ Len(outputBuffer') = Len(outputBuffer) + (MsgLen - n)
          /\ events' = events \cup {"out"} /\ events' \subseteq {"in", "out"}
          /\ isWriting => index' = index
          /\ index' \in {index, "kAdded"} /\ index' \in {"kNew", "kAdded", "kDeleted"}
      BY <1>6, <2>3, <3>1, AppendToBufferEffect
    <3>3. Len(outputBuffer) = 0
      BY <1>6 DEF Busy
    <3>4. \/ /\ queue' = q
             /\ Len(outputBuffer) >= HighWaterMark \/ Len(outputBuffer') < HighWaterMark
          \/ /\ queue' = Append(q, Functor("highWaterMark"))
             /\ Len(outputBuffer) < HighWaterMark /\ Len(outputBuffer') >= HighWaterMark
      <4>1. Len(outputBuffer') = MsgLen - n /\ Len(outputBuffer') \in Nat /\ 0 \in Nat
        BY <3>1, <3>2, <3>3
      <4>2. queue' = q \o HighWater(0, Len(outputBuffer'))
        BY <1>6, <2>3, <4>1
      <4>3. QED  BY <3>3, <4>1, <4>2, HighWaterQueues
    <3>5. Len(outputBuffer') > Len(outputBuffer)
      BY <3>1, <3>2, <3>3
    <3>6. QED
      BY <1>1, <1>6, <2>1, <3>2, <3>4, <3>5 DEF SendTypes, SendOutcome, GivesUp
  <2>4. QED  BY <2>2, <2>3
<1>7. QED
  <2>1. CASE GivesUp /\ queue' = q /\ UNCHANGED <<outputBuffer, chanVars, wire, sockError>>
    BY <1>1, <1>4, <2>1
  <2>2. CASE /\ ~GivesUp /\ ~Busy /\ SocketDead
             /\ queue' = q /\ sockError' = FALSE
             /\ UNCHANGED <<outputBuffer, chanVars, wire>>
    BY <1>4, <2>2
  <2>3. QED  BY <1>5, <1>6, <2>1, <2>2 DEF SendInLoop

LEMMA SendFileEffect ==
    ASSUME TypeOK, NEW f \in Files, NEW off \in 0 .. MsgLen - 1, NEW q \in Seq(Functors),
           SendFileInLoop(f, off, q)
    PROVE  SendTypes /\ SendOutcome(q)
<1>1. /\ MsgLen \in Nat \ {0} /\ outputBuffer \in Seq(Units) /\ wire \in Seq(Units)
      /\ sockError \in BOOLEAN
      /\ events \subseteq {"in", "out"} /\ index \in {"kNew", "kAdded", "kDeleted"}
      /\ off \in Nat /\ off \in 0 .. MsgLen
  BY ConnAssumption DEF TypeOK
<1>2. Untouched
  BY DEF SendFileInLoop, Untouched, chanVars
<1>3. CASE UNCHANGED wire /\ queue' = q /\ sockError' \in BOOLEAN
  BY <1>1, <1>2, <1>3 DEF SendTypes, SendOutcome, Untouched
<1>4. CASE UNCHANGED <<wire, sockError>> /\ queue' = FileRest(f, off, q)
  <2>1. \E g \in FileFunctors : queue' = Append(q, g)
    BY <1>4 DEF FileRest, FileFunctors
  <2>2. QED  BY <1>1, <1>2, <1>4, <2>1 DEF SendTypes, SendOutcome, Untouched
<1>5. ASSUME ~Busy, UNCHANGED sockError, NEW n \in 0 .. MsgLen - off,
             wire' = wire \o SubSeq(Rest(f, off), 1, n),
             queue' = IF off + n = MsgLen THEN q \o WriteComplete
                      ELSE FileRest(f, off + n, q)
      PROVE  SendTypes /\ SendOutcome(q)
  <2>1. wire' \in Seq(Units)
    <3>1. Rest(f, off) \in Seq(Units) /\ n \in 0 .. Len(Rest(f, off))
      BY <1>1, <1>5, RestIsSeq
    <3>2. SubSeq(Rest(f, off), 1, n) \in Seq(Units)
      BY <3>1, PrefixIsSeq
    <3>3. QED  BY <1>1, <1>5, <3>2
  <2>2. CASE off + n = MsgLen
    <3>1. queue' = Append(q, Functor("writeComplete"))
      BY <1>5, <2>2, NamesOfFunctors, ConcatOne DEF WriteComplete
    <3>2. QED
      BY <1>1, <1>2, <1>5, <2>1, <3>1 DEF SendTypes, SendOutcome, Untouched
  <2>3. CASE off + n # MsgLen
    <3>1. off + n \in 0 .. MsgLen - 1
      BY <1>1, <1>5, <2>3
    <3>2. \E g \in FileFunctors : queue' = Append(q, g)
      BY <1>5, <2>3, <3>1 DEF FileRest, FileFunctors
    <3>3. QED
      BY <1>1, <1>2, <1>5, <2>1, <3>2 DEF SendTypes, SendOutcome, Untouched
  <2>4. QED  BY <2>2, <2>3
<1>6. QED
  BY <1>1, <1>3, <1>4, <1>5 DEF SendFileInLoop

\* the functors a queue may get, but connectEstablished
Queueable == Functors \ {Functor("connectEstablished")}

\* the queue is q, or q and one functor behind it
Extends(q) == queue' = q \/ \E g \in Queueable : queue' = Append(q, g)

LEMMA QueueableFunctors == FlowFunctors \cup FileFunctors \subseteq Queueable
  BY NamesOfFunctors DEF Queueable, FlowFunctors

LEMMA SendExtends ==
    ASSUME NEW q \in Seq(Functors), SendOutcome(q)
    PROVE  Extends(q)
  BY QueueableFunctors DEF SendOutcome, Extends, FlowFunctors

LEMMA ExtendsTypes ==
    ASSUME NEW q \in Seq(Functors), Extends(q)
    PROVE  queue' \in Seq(Functors) /\ Len(queue') >= Len(q)
  BY DEF Extends, Queueable

LEMMA LoopSendEffect ==
    ASSUME TypeOK, NEW m \in Msgs \cup Files, LoopSend(m)
    PROVE  SendTypes /\ SendOutcome(queue)
<1>1. queue \in Seq(Functors) /\ 0 \in 0 .. MsgLen - 1
  BY ConnAssumption DEF TypeOK
<1>2. QED
  BY <1>1, SendEffect, SendFileEffect DEF LoopSend

\* what follows the head of the batch
LEMMA TailTypes ==
    ASSUME TypeOK, batch > 0
    PROVE  /\ queue # <<>> /\ Head(queue) \in Functors /\ Head(queue) = queue[1]
           /\ Tail(queue) \in Seq(Functors)
           /\ batch - 1 \in 0 .. Len(Tail(queue))
<1>1. queue \in Seq(Functors) /\ batch \in 0 .. Len(queue) /\ Len(queue) \in Nat
  BY LenProperties DEF TypeOK
<1>2. QED  BY <1>1

-----------------------------------------------------------------------------
LEMMA TypesKept ==
    ASSUME TypeOK, [Next]_vars, ConnectEstablished => ups = 0
    PROVE  TypeOK'
<1> USE DEF TypeOK, sockVars, loopVars, histVars, serverVars, chanVars, StateE, Phases,
            Overtakes
<1>1. CASE UNCHANGED vars
  BY <1>1 DEF vars
<1>2. ASSUME NEW r \in {Ready, Ready \ {"write"}, {}}, Poll(r) PROVE TypeOK'
  <2>1. Ready \subseteq {"close", "error", "read", "write"}
    BY DEF Ready
  <2>2. QED  BY <1>2, <2>1 DEF Poll
<1>3. CASE HandleClose
  BY <1>3 DEF HandleClose, DoHandleClose, UpdateChannel
<1>4. CASE HandleError
  BY <1>4 DEF HandleError
<1>5. CASE HandleRead
  <2>1. /\ inbox' \in BOOLEAN /\ sockError' \in BOOLEAN
        /\ state' \in StateE /\ events' \subseteq {"in", "out"}
        /\ index' \in {"kNew", "kAdded", "kDeleted"} /\ downs' \in Nat /\ removals' \in Nat
    <3>1. CASE inbox /\ inbox' \in BOOLEAN /\ UNCHANGED <<state, chanVars, sockError, downs, removals>>
      BY <3>1
    <3>2. CASE sockError' = FALSE /\ UNCHANGED <<state, chanVars, inbox, downs, removals>>
      BY <3>2
    <3>3. CASE DoHandleClose /\ UNCHANGED <<inbox, sockError>>
      BY <3>3 DEF DoHandleClose, UpdateChannel
    <3>4. QED  BY <1>5, <3>1, <3>2, <3>3 DEF HandleRead
  <2>2. revents' \subseteq {"close", "error", "read", "write"} /\ phase = "dispatch"
    BY <1>5 DEF HandleRead
  <2>3. QED  BY <1>5, <2>1, <2>2 DEF HandleRead
<1>6. CASE HandleWrite
  <2>1. /\ wire' \in Seq(Units) /\ outputBuffer' \in Seq(Units)
        /\ events' \subseteq {"in", "out"} /\ index' \in {"kNew", "kAdded", "kDeleted"}
        /\ queue' \in Seq(Functors) /\ Len(queue') >= Len(queue)
        /\ fin' \in BOOLEAN /\ sockError' \in BOOLEAN
    <3>1. CASE /\ sockError' = (sockError /\ ~isWriting)
               /\ UNCHANGED <<outputBuffer, wire, chanVars, queue, fin>>
      <4>1. sockError' \in BOOLEAN
        BY <3>1
      <4>2. QED  BY <3>1, <4>1, LenProperties
    <3>2. ASSUME NEW n \in 1 .. Len(outputBuffer),
                 wire' = wire \o SubSeq(outputBuffer, 1, n),
                 outputBuffer' = SubSeq(outputBuffer, n + 1, Len(outputBuffer)),
                 IF n < Len(outputBuffer)
                 THEN UNCHANGED <<chanVars, queue, fin>>
                 ELSE /\ UpdateChannel(events \ {"out"})
                      /\ queue' = queue \o WriteComplete
                      /\ Drained,
                 UNCHANGED sockError
          PROVE  /\ wire' \in Seq(Units) /\ outputBuffer' \in Seq(Units)
                 /\ events' \subseteq {"in", "out"} /\ index' \in {"kNew", "kAdded", "kDeleted"}
                 /\ queue' \in Seq(Functors) /\ Len(queue') >= Len(queue)
                 /\ fin' \in BOOLEAN /\ sockError' \in BOOLEAN
      <4>1. /\ SubSeq(outputBuffer, 1, n) \in Seq(Units)
            /\ SubSeq(outputBuffer, n + 1, Len(outputBuffer)) \in Seq(Units)
        BY <3>2, PrefixIsSeq
      <4>2. wire' \in Seq(Units) /\ outputBuffer' \in Seq(Units)
        BY <3>2, <4>1
      <4>3. queue \o WriteComplete = Append(queue, Functor("writeComplete"))
        BY NamesOfFunctors, ConcatOne DEF WriteComplete
      <4>4. Functor("writeComplete") \in Functors
        BY NamesOfFunctors
      <4>5. queue' \in Seq(Functors) /\ Len(queue') >= Len(queue)
        <5>1. queue' = queue \/ queue' = Append(queue, Functor("writeComplete"))
          BY <3>2, <4>3
        <5>2. Extends(queue)
          BY <5>1, QueueableFunctors DEF Extends, FlowFunctors
        <5>3. QED  BY <5>2, ExtendsTypes
      <4>6. events' \subseteq {"in", "out"} /\ index' \in {"kNew", "kAdded", "kDeleted"}
        BY <3>2 DEF UpdateChannel
      <4>7. fin' = fin \/ fin' = (fin \/ state = "kDisconnecting")
        BY <3>2 DEF Drained
      <4>8. fin' \in BOOLEAN
        BY <4>7
      <4>9. QED  BY <3>2, <4>2, <4>5, <4>6, <4>8
    <3>3. QED  BY <1>6, <3>1, <3>2 DEF HandleWrite
  <2>2. QED  BY <1>6, <2>1 DEF HandleWrite
<1>7. CASE BeginFunctors
  BY <1>7 DEF BeginFunctors
<1>8. CASE EndFunctors
  BY <1>8 DEF EndFunctors
<1>9. CASE ConnectEstablished
  BY <1>9, TailTypes DEF ConnectEstablished, Starts, UpdateChannel
<1>10. CASE RunSend
  <2>1. batch > 0 /\ Head(queue)[2] \in Msgs
    BY <1>10, TailTypes, FunctorNames DEF RunSend, Starts
  <2>2. SendTypes /\ Extends(Tail(queue))
    BY <1>10, <2>1, TailTypes, SendEffect, SendExtends DEF RunSend
  <2>3. queue' \in Seq(Functors) /\ batch' \in 0 .. Len(queue')
    <3>1. Tail(queue) \in Seq(Functors) /\ batch - 1 \in 0 .. Len(Tail(queue))
      BY <2>1, TailTypes
    <3>2. queue' \in Seq(Functors) /\ Len(queue') >= Len(Tail(queue))
      BY <2>2, <3>1, ExtendsTypes
    <3>3. batch' = batch - 1
      BY <1>10 DEF RunSend, Starts
    <3>4. QED  BY <3>1, <3>2, <3>3, LenProperties
  <2>4. QED  BY <1>10, <2>2, <2>3 DEF RunSend, Starts, SendTypes
<1>11. CASE RunSendFile
  <2>1. batch > 0 /\ Head(queue)[2] \in Files /\ Head(queue)[3] \in 0 .. MsgLen - 1
    BY <1>11, TailTypes, FunctorNames DEF RunSendFile, Starts
  <2>2. SendTypes /\ Extends(Tail(queue))
    BY <1>11, <2>1, TailTypes, SendFileEffect, SendExtends DEF RunSendFile
  <2>3. queue' \in Seq(Functors) /\ batch' \in 0 .. Len(queue')
    <3>1. Tail(queue) \in Seq(Functors) /\ batch - 1 \in 0 .. Len(Tail(queue))
      BY <2>1, TailTypes
    <3>2. queue' \in Seq(Functors) /\ Len(queue') >= Len(Tail(queue))
      BY <2>2, <3>1, ExtendsTypes
    <3>3. batch' = batch - 1
      BY <1>11 DEF RunSendFile, Starts
    <3>4. QED  BY <3>1, <3>2, <3>3, LenProperties
  <2>4. QED  BY <1>11, <2>2, <2>3 DEF RunSendFile, Starts, SendTypes
<1>12. CASE RunShutdown
  BY <1>12, TailTypes DEF RunShutdown, Starts, ShutdownInLoop
<1>13. CASE RunFlowCallback
  BY <1>13, TailTypes DEF RunFlowCallback, Starts
<1>14. CASE ConnectDestroyed
  BY <1>14, TailTypes DEF ConnectDestroyed, Starts, RemoveChannel
<1>15. CASE CloseInDestroyed
  BY <1>15 DEF CloseInDestroyed, RemoveChannel
<1>16. ASSUME NEW m \in Msgs \cup Files, LoopSend(m) PROVE TypeOK'
  <2>1. SendTypes /\ Extends(queue)
    BY <1>16, LoopSendEffect, SendExtends
  <2>2. queue' \in Seq(Functors) /\ Len(queue') >= Len(queue)
    BY <2>1, ExtendsTypes
  <2>3. accepted' \in [Senders -> Seq(Msgs \cup Files)]
    BY <1>16 DEF LoopSend, Accept, Senders
  <2>4. batch' \in 0 .. Len(queue')
    BY <1>16, <2>2, LenProperties DEF LoopSend
  <2>5. QED  BY <1>16, <2>1, <2>2, <2>3, <2>4 DEF LoopSend, LoopUserCode, SendTypes
<1>17. CASE LoopShutdown
  BY <1>17 DEF LoopShutdown, ShutdownInLoop
<1>18. ASSUME NEW u \in Users, NEW m \in Msgs \cup Files, UserSend(u, m) PROVE TypeOK'
  <2>1. accepted' \in [Senders -> Seq(Msgs \cup Files)]
    BY <1>18 DEF UserSend, Accept, Senders
  <2>2. userPc' \in [Users -> Functors \cup {Idle, Stored}]
    <3>1. FileFunctor(m, 0) \in Functors \/ m \notin Files
      BY ConnAssumption DEF Functors
    <3>2. SendFunctor(m) \in Functors \/ m \in Files
      BY <1>18, NamesOfFunctors
    <3>3. QED  BY <1>18, <3>1, <3>2 DEF UserSend
  <2>3. QED  BY <1>18, <2>1, <2>2 DEF UserSend
<1>19. ASSUME NEW u \in Users, UserShutdown(u) PROVE TypeOK'
  BY <1>19 DEF UserShutdown
<1>20. ASSUME NEW u \in Users, UserSetState(u) PROVE TypeOK'
  BY <1>20, NamesOfFunctors DEF UserSetState
<1>21. ASSUME NEW u \in Users, UserQueue(u) PROVE TypeOK'
  BY <1>21 DEF UserQueue
<1>22. CASE ServerRemoves
  BY <1>22, NamesOfFunctors DEF ServerRemoves, QueueConnectDestroyed
<1>23. CASE ServerDestroys
  BY <1>23, NamesOfFunctors DEF ServerDestroys, QueueConnectDestroyed
<1>24. CASE PeerSends
  BY <1>24 DEF PeerSends
<1>25. CASE PeerCloses
  BY <1>25 DEF PeerCloses
<1>26. CASE PeerResets
  BY <1>26 DEF PeerResets
<1>27. QED
  BY <1>1, <1>2, <1>3, <1>4, <1>5, <1>6, <1>7, <1>8, <1>9, <1>10, <1>11, <1>12, <1>13,
     <1>14, <1>15, <1>16, <1>17, <1>18, <1>19, <1>20, <1>21, <1>22, <1>23, <1>24,
     <1>25, <1>26
  DEF Next, PollReady, PollOther, Dispatch, RunFunctor, UserStep
-----------------------------------------------------------------------------
(* The inductive invariant                                                 *)

\* The connection is not used before its connection callback has run ...
BeforeUp ==
    /\ ups = 0 =>
          /\ state = "kConnecting" /\ events = {} /\ index = "kNew" /\ outputBuffer = <<>>
          /\ downs = 0 /\ overtaken = "never" /\ ~removed /\ phase # "destroying"
    /\ ups = 1 => state # "kConnecting"

\* what no user's call queues
LoopsOwn == FlowFunctors \cup {Functor("connectEstablished")}

\* ... which is what its first functor does, and no other.
EstablishedFirst ==
    /\ ups = 0 => queue # <<>>
    /\ \A i \in 1 .. Len(queue) :
          queue[i] = Functor("connectEstablished") <=> ups = 0 /\ i = 1

UpFirst ==
    /\ EstablishedFirst
    /\ \A u \in Users : userPc[u] \notin LoopsOwn /\ (ups = 0 => userPc[u] = Idle)

\* A poll reports the end of the connection once, of a channel the poller has.
ReportsOneEnd ==
    /\ ~({"close", "read"} \subseteq revents)
    /\ revents \cap {"close", "read"} # {} => index = "kAdded"

\* The connection stays as handleClose() leaves it, unless a shutdown() overtook it.
DownIsFinal ==
    /\ downs # 0 /\ overtaken # "afterDown" =>
          /\ downs = 1 /\ state = "kDisconnected"
          /\ events = {} /\ index # "kAdded"
          /\ revents \cap {"close", "read"} = {} /\ phase # "destroying"
    /\ state = "kDisconnected" => downs # 0

\* EPOLLOUT is asked for as long as there is a backlog, in the poller or out of it.
WritesBacklog == downs = 0 => (isWriting <=> outputBuffer # <<>>)

\* Every removal comes from a handleClose().
RemovalsFollowDowns == removals + (IF server = "erased" THEN 1 ELSE 0) <= downs

\* What connectDestroyed() leaves behind: nothing is up, and nothing comes back.
RemovedIsOut ==
    removed =>
        /\ state \in {"kDisconnecting", "kDisconnected"}
        /\ overtaken = "never" => index # "kAdded" /\ revents = {}

\* A shutdown() on the loop's thread has sent the FIN, or waits for the backlog.
HalfClosed ==
    state = "kDisconnecting" /\ overtaken = "never" /\ ~isWriting => fin

ConnInv ==
    /\ TypeOK /\ BeforeUp /\ UpFirst /\ ReportsOneEnd /\ DownIsFinal /\ WritesBacklog
    /\ RemovalsFollowDowns /\ RemovedIsOut /\ HalfClosed

LEMMA ConnInvInit == Init => ConnInv
<1> SUFFICES ASSUME Init PROVE ConnInv
  OBVIOUS
<1>1. Functor("connectEstablished") \in Functors
  BY NamesOfFunctors
<1>2. queue \in Seq(Functors) /\ Len(queue) = 1 /\ queue[1] = Functor("connectEstablished")
  BY <1>1 DEF Init
<1>3. TypeOK
  <2>1. <<>> \in Seq(Units) /\ <<>> \in Seq(Msgs \cup Files)
    OBVIOUS
  <2>2. /\ accepted \in [Senders -> Seq(Msgs \cup Files)]
        /\ userPc \in [Users -> Functors \cup {Idle, Stored}]
        /\ outputBuffer \in Seq(Units) /\ wire \in Seq(Units)
    BY <2>1 DEF Init
  <2>3. /\ {fin, inbox, peerFin, reset, sockError, removed} \subseteq BOOLEAN
        /\ paused \in BOOLEAN
    BY DEF Init
  <2>4. batch \in 0 .. Len(queue)
    BY <1>2 DEF Init
  <2>5. QED
    BY <1>2, <2>2, <2>3, <2>4 DEF Init, TypeOK, StateE, Phases, Overtakes
<1>4. UpFirst
  <2>1. Idle \notin LoopsOwn
    BY DEF LoopsOwn, FlowFunctors, Idle, Functor
  <2>2. QED  BY <1>2, <2>1 DEF Init, UpFirst, EstablishedFirst
<1>5. QED
  BY <1>3, <1>4 DEF Init, ConnInv, BeforeUp, ReportsOneEnd, DownIsFinal, WritesBacklog,
     RemovalsFollowDowns, RemovedIsOut, HalfClosed, isWriting

(* A functor runs on an established connection, but connectEstablished().  *)
LEMMA RunsWhenUp ==
    ASSUME TypeOK, UpFirst, NEW op, Starts(op)
    PROVE  (ups = 0 <=> op = "connectEstablished") /\ batch > 0
<1>1. /\ batch > 0 /\ queue # <<>> /\ Head(queue) \in Functors /\ Head(queue) = queue[1]
      /\ Head(queue)[1] = op
  BY TailTypes DEF Starts
<1>2. 1 \in 1 .. Len(queue)
  BY <1>1 DEF TypeOK
<1>3. queue[1] = Functor("connectEstablished") <=> ups = 0
  BY <1>2 DEF UpFirst, EstablishedFirst
<1>4. op = "connectEstablished" <=> Head(queue) = Functor("connectEstablished")
  BY <1>1, FunctorNames, NamesOfFunctors
<1>5. QED  BY <1>1, <1>3, <1>4

LEMMA EstablishedExtends ==
    ASSUME TypeOK, EstablishedFirst, Extends(queue), UNCHANGED ups
    PROVE  EstablishedFirst'
<1>1. CASE queue' = queue
  BY <1>1 DEF EstablishedFirst
<1>2. ASSUME NEW g \in Queueable, queue' = Append(queue, g) PROVE EstablishedFirst'
  <2>1. /\ queue \in Seq(Functors) /\ Len(queue) \in Nat /\ g \in Functors
        /\ g # Functor("connectEstablished")
    BY LenProperties DEF TypeOK, Queueable
  <2>2. /\ Len(queue') = Len(queue) + 1 /\ queue' # <<>>
        /\ \A i \in 1 .. Len(queue) : queue'[i] = queue[i]
        /\ queue'[Len(queue) + 1] = g
    BY <1>2, <2>1
  <2>3. ASSUME NEW i \in 1 .. Len(queue')
        PROVE  queue'[i] = Functor("connectEstablished") <=> ups = 0 /\ i = 1
    <3>1. CASE i \in 1 .. Len(queue)
      BY <2>2, <3>1 DEF EstablishedFirst
    <3>2. CASE i = Len(queue) + 1
      <4>1. ups = 0 => i # 1
        BY <2>1, <3>2 DEF EstablishedFirst
      <4>2. QED  BY <2>1, <2>2, <3>2, <4>1
    <3>3. i \in 1 .. Len(queue) \/ i = Len(queue) + 1
      BY <2>1, <2>2
    <3>4. QED  BY <3>1, <3>2, <3>3
  <2>4. QED  BY <2>2, <2>3 DEF EstablishedFirst
<1>3. QED  BY <1>1, <1>2 DEF Extends

LEMMA UpFirstExtends ==
    ASSUME TypeOK, UpFirst, Extends(queue), UNCHANGED <<ups, userPc>>
    PROVE  UpFirst'
  BY EstablishedExtends DEF UpFirst

LEMMA UpFirstTail ==
    ASSUME TypeOK, UpFirst, batch > 0, ups' = 1, Extends(Tail(queue)), UNCHANGED userPc
    PROVE  UpFirst'
<1>1. /\ queue \in Seq(Functors) /\ queue # <<>> /\ Tail(queue) \in Seq(Functors)
      /\ Len(Tail(queue)) = Len(queue) - 1 /\ Len(queue) \in Nat
      /\ \A i \in 1 .. Len(queue) - 1 : Tail(queue)[i] = queue[i + 1]
  BY TailTypes DEF TypeOK
<1>2. \A i \in 1 .. Len(queue) - 1 : queue[i + 1] # Functor("connectEstablished")
  <2>1. \A i \in 1 .. Len(queue) - 1 : i + 1 \in 1 .. Len(queue) /\ i + 1 # 1
    BY <1>1
  <2>2. QED  BY <2>1 DEF UpFirst, EstablishedFirst
<1>3. \A i \in 1 .. Len(queue') : queue'[i] # Functor("connectEstablished")
  BY <1>1, <1>2 DEF Extends, Queueable
<1>4. QED  BY <1>3 DEF UpFirst, EstablishedFirst

LEMMA UserPcChanges ==
    ASSUME TypeOK, UpFirst, ups = 1, UNCHANGED queue, UNCHANGED ups, NEW u \in Users,
           NEW g, g \notin LoopsOwn, userPc' = [userPc EXCEPT ![u] = g]
    PROVE  UpFirst'
<1>1. ASSUME NEW v \in Users PROVE userPc'[v] \notin LoopsOwn
  BY DEF UpFirst, EstablishedFirst, TypeOK
<1>2. QED  BY <1>1 DEF UpFirst, EstablishedFirst

LEMMA UpFirstKept ==
    ASSUME TypeOK, UpFirst, BeforeUp, [Next]_vars
    PROVE  UpFirst'
<1> USE DEF sockVars, loopVars, histVars, serverVars, chanVars
<1>1. ASSUME NEW op, Starts(op), queue' = Tail(queue), ups' = 1, UNCHANGED userPc
      PROVE  UpFirst'
  BY <1>1, RunsWhenUp, UpFirstTail DEF Extends
<1>2. ASSUME UNCHANGED <<queue, ups, userPc>> PROVE UpFirst'
  BY <1>2 DEF UpFirst, EstablishedFirst
<1>3. ups = 0 \/ ups = 1
  BY DEF TypeOK
<1>4. CASE UNCHANGED vars
  BY <1>2, <1>4 DEF vars
<1>5. CASE PollReady \/ PollOther
  BY <1>2, <1>5 DEF PollReady, PollOther, Poll
<1>6. CASE HandleClose \/ HandleError \/ HandleRead \/ BeginFunctors \/ EndFunctors
  BY <1>2, <1>6 DEF HandleClose, HandleError, HandleRead, BeginFunctors, EndFunctors
<1>7. CASE HandleWrite
  <2>1. Extends(queue)
    <3>1. queue \o WriteComplete = Append(queue, Functor("writeComplete"))
      BY NamesOfFunctors, ConcatOne DEF WriteComplete, TypeOK
    <3>2. QED
      BY <1>7, <3>1, QueueableFunctors DEF HandleWrite, Extends, FlowFunctors
  <2>2. QED  BY <1>7, <2>1, UpFirstExtends DEF HandleWrite
<1>8. CASE ConnectEstablished
  <2>1. ups' = 1
    BY <1>8, RunsWhenUp DEF ConnectEstablished
  <2>2. QED  BY <1>1, <1>8, <2>1 DEF ConnectEstablished
<1>9. CASE RunSend
  <2>1. ups = 1 /\ batch > 0 /\ Head(queue)[2] \in Msgs
    BY <1>3, <1>9, RunsWhenUp, TailTypes, FunctorNames DEF RunSend, Starts
  <2>2. Extends(Tail(queue))
    BY <1>9, <2>1, TailTypes, SendEffect, SendExtends DEF RunSend
  <2>3. QED  BY <1>9, <2>1, <2>2, UpFirstTail DEF RunSend
<1>10. CASE RunSendFile
  <2>1. ups = 1 /\ batch > 0 /\ Head(queue)[2] \in Files /\ Head(queue)[3] \in 0 .. MsgLen - 1
    BY <1>3, <1>10, RunsWhenUp, TailTypes, FunctorNames DEF RunSendFile, Starts
  <2>2. Extends(Tail(queue))
    BY <1>10, <2>1, TailTypes, SendFileEffect, SendExtends DEF RunSendFile
  <2>3. QED  BY <1>10, <2>1, <2>2, UpFirstTail DEF RunSendFile
<1>11. CASE RunShutdown
  BY <1>1, <1>3, <1>11, RunsWhenUp DEF RunShutdown
<1>12. CASE RunFlowCallback
  BY <1>1, <1>3, <1>12, RunsWhenUp DEF RunFlowCallback
<1>13. CASE ConnectDestroyed
  BY <1>1, <1>3, <1>13, RunsWhenUp DEF ConnectDestroyed
<1>14. CASE CloseInDestroyed
  BY <1>2, <1>14 DEF CloseInDestroyed
<1>15. ASSUME NEW m \in Msgs \cup Files, LoopSend(m) PROVE UpFirst'
  <2>1. Extends(queue)
    BY <1>15, LoopSendEffect, SendExtends DEF TypeOK
  <2>2. QED  BY <1>15, <2>1, UpFirstExtends DEF LoopSend
<1>16. CASE LoopShutdown
  BY <1>2, <1>16 DEF LoopShutdown
<1>17. ASSUME NEW u \in Users, NEW m \in Msgs \cup Files, UserSend(u, m) PROVE UpFirst'
  <2>1. PICK g : g \notin LoopsOwn /\ userPc' = [userPc EXCEPT ![u] = g]
    <3>1. \A g \in LoopsOwn : FileFunctor(m, 0)[1] # g[1] /\ SendFunctor(m)[1] # g[1]
      BY DEF LoopsOwn, FlowFunctors, FileFunctor, SendFunctor, Functor
    <3>2. QED  BY <1>17, <3>1 DEF UserSend
  <2>2. QED  BY <1>17, <2>1, UserPcChanges DEF UserSend
<1>18. ASSUME NEW u \in Users, UserShutdown(u) PROVE UpFirst'
  <2>1. Stored \notin LoopsOwn
    BY DEF LoopsOwn, FlowFunctors, Stored, Functor
  <2>2. QED  BY <1>18, <2>1, UserPcChanges DEF UserShutdown
<1>19. ASSUME NEW u \in Users, UserSetState(u) PROVE UpFirst'
  <2>1. Functor("shutdownInLoop") \notin LoopsOwn /\ Stored # Idle
    BY DEF LoopsOwn, FlowFunctors, Stored, Idle, Functor
  <2>2. ups = 1
    BY <1>3, <1>19, <2>1 DEF UserSetState, UpFirst, EstablishedFirst
  <2>3. QED  BY <1>19, <2>1, <2>2, UserPcChanges DEF UserSetState
<1>20. ASSUME NEW u \in Users, UserQueue(u) PROVE UpFirst'
  <2>1. userPc[u] \in Queueable /\ ups = 1
    BY <1>3, <1>20 DEF UserQueue, UpFirst, EstablishedFirst, TypeOK, Queueable, LoopsOwn
  <2>2. Extends(queue)
    BY <1>20, <2>1 DEF UserQueue, Extends
  <2>3. ASSUME NEW v \in Users PROVE userPc'[v] \notin LoopsOwn
    BY <1>20 DEF UserQueue, UpFirst, EstablishedFirst, TypeOK, LoopsOwn, FlowFunctors, Idle, Functor
  <2>4. QED  BY <1>20, <2>1, <2>2, <2>3, EstablishedExtends DEF UserQueue, UpFirst
<1>21. CASE ServerRemoves \/ ServerDestroys
  <2>1. Extends(queue)
    BY <1>21, NamesOfFunctors DEF ServerRemoves, ServerDestroys, QueueConnectDestroyed,
       Extends, Queueable
  <2>2. QED
    BY <1>21, <2>1, UpFirstExtends DEF ServerRemoves, ServerDestroys, QueueConnectDestroyed
<1>22. CASE PeerSends \/ PeerCloses \/ PeerResets
  BY <1>2, <1>22 DEF PeerSends, PeerCloses, PeerResets
<1>23. QED
  BY <1>4, <1>5, <1>6, <1>7, <1>8, <1>9, <1>10, <1>11, <1>12, <1>13, <1>14, <1>15,
     <1>16, <1>17, <1>18, <1>19, <1>20, <1>21, <1>22
  DEF Next, Dispatch, RunFunctor, UserStep

\* all of the invariant but the types and the queue
EndInv ==
    /\ BeforeUp /\ ReportsOneEnd /\ DownIsFinal /\ WritesBacklog
    /\ RemovalsFollowDowns /\ RemovedIsOut /\ HalfClosed

(* A send() ends up behind what another has left, does nothing on a        *)
(* connection that is down, and never puts a removed channel back.         *)
LEMMA SendKeepsEnd ==
    ASSUME TypeOK, EndInv, ups = 1, NEW q, SendOutcome(q),
           UNCHANGED <<state, fin, ups, downs, overtaken, removed, phase, revents, removals,
                       server>>
    PROVE  EndInv'
<1>1. CASE Untouched
  BY <1>1 DEF Untouched, EndInv, BeforeUp, ReportsOneEnd, DownIsFinal, WritesBacklog,
     RemovalsFollowDowns, RemovedIsOut, HalfClosed, isWriting
<1>2. CASE /\ state # "kDisconnected" /\ (Busy \/ ~SocketDead)
           /\ Len(outputBuffer') > Len(outputBuffer)
           /\ events' = events \cup {"out"}
           /\ isWriting => index' = index
           /\ index' \in {index, "kAdded"}
  <2>1. outputBuffer' # <<>> /\ isWriting'
    <3>1. Len(outputBuffer) \in Nat
      BY LenProperties DEF TypeOK
    <3>2. Len(outputBuffer') # 0
      BY <1>2, <3>1
    <3>3. QED  BY <1>2, <3>2 DEF isWriting
  <2>2. removed /\ overtaken = "never" => isWriting
    <3>1. SUFFICES ASSUME removed, overtaken = "never", ~isWriting PROVE FALSE
      OBVIOUS
    <3>2. state = "kDisconnecting" /\ fin /\ downs = 0
      BY <1>2, <3>1 DEF EndInv, RemovedIsOut, HalfClosed, DownIsFinal
    <3>3. outputBuffer # <<>>
      BY <1>2, <3>1, <3>2 DEF Busy, SocketDead
    <3>4. QED  BY <3>1, <3>2, <3>3 DEF EndInv, WritesBacklog
  <2>3. QED
    BY <1>2, <2>1, <2>2 DEF EndInv, BeforeUp, ReportsOneEnd, DownIsFinal, WritesBacklog,
       RemovalsFollowDowns, RemovedIsOut, HalfClosed
<1>3. QED  BY <1>1, <1>2 DEF SendOutcome

LEMMA EndKept ==
    ASSUME TypeOK, UpFirst, EndInv, [Next]_vars
    PROVE  EndInv'
<1> USE DEF sockVars, loopVars, histVars, serverVars, chanVars
<1>1. (ups = 0 \/ ups = 1) /\ downs \in Nat /\ removals \in Nat /\ state \in StateE
      /\ (phase # "dispatch" => revents = {})
      /\ revents \subseteq {"close", "error", "read", "write"}
      /\ server \in {"holds", "erased", "gone"}
      /\ phase \in Phases /\ overtaken \in Overtakes
      /\ index \in {"kNew", "kAdded", "kDeleted"}
  BY DEF TypeOK
<1> DEFINE Effect == <<state, events, index, outputBuffer, fin, ups, downs, overtaken, removed,
                       removals, server>>
<1> USE DEF EndInv, BeforeUp, ReportsOneEnd, DownIsFinal, WritesBacklog,
            RemovalsFollowDowns, RemovedIsOut, HalfClosed, isWriting, StateE, Phases, Overtakes
<1>2. ASSUME UNCHANGED Effect, revents' \subseteq revents, phase' # "destroying"
      PROVE  EndInv'
  BY <1>1, <1>2
<1>3. ASSUME NEW r \in SUBSET Ready, Poll(r) PROVE EndInv'
  <2>1. /\ Ready # {} => index = "kAdded"
        /\ ~({"close", "read"} \subseteq Ready)
    BY DEF Ready
  <2>2. QED  BY <1>1, <1>3, <2>1 DEF Poll
<1>4. ASSUME phase = "dispatch", DoHandleClose, revents' = revents \ {"close"} \/ revents' = revents \ {"read"},
             revents \cap {"close", "read"} # {}, revents' \cap {"close", "read"} = {},
             UNCHANGED <<ups, overtaken, removed, phase, server>>
      PROVE  EndInv'
  BY <1>1, <1>4 DEF DoHandleClose, UpdateChannel
<1>5. CASE UNCHANGED vars
  BY <1>5 DEF vars
<1>6. CASE HandleClose
  BY <1>4, <1>6 DEF HandleClose
<1>7. CASE HandleError
  BY <1>1, <1>2, <1>7 DEF HandleError
<1>8. CASE HandleRead
  <2>1. CASE UNCHANGED <<state, chanVars, downs, removals>>
    BY <1>1, <1>2, <1>8, <2>1 DEF HandleRead
  <2>2. CASE DoHandleClose
    BY <1>4, <1>8, <2>2 DEF HandleRead
  <2>3. QED  BY <1>8, <2>1, <2>2 DEF HandleRead
<1>9. CASE HandleWrite
  <2>1. CASE UNCHANGED <<outputBuffer, chanVars, fin>>
    BY <1>1, <1>9, <2>1 DEF HandleWrite
  <2>2. ASSUME isWriting, NEW n \in 1 .. Len(outputBuffer), n < Len(outputBuffer),
               outputBuffer' = SubSeq(outputBuffer, n + 1, Len(outputBuffer)),
               UNCHANGED <<chanVars, fin>>
        PROVE  EndInv'
    <3>1. Len(outputBuffer') = Len(outputBuffer) - n /\ Len(outputBuffer) \in Nat
      BY <2>2, PrefixIsSeq DEF TypeOK
    <3>2. outputBuffer' # <<>> /\ outputBuffer # <<>>
      <4>1. Len(outputBuffer') # 0 /\ Len(outputBuffer) # 0
        BY <2>2, <3>1
      <4>2. QED  BY <4>1
    <3>3. QED  BY <1>1, <1>9, <2>2, <3>2 DEF HandleWrite
  <2>3. ASSUME isWriting, outputBuffer' = <<>>, UpdateChannel(events \ {"out"}), Drained
        PROVE  EndInv'
    <3>1. ups = 1 /\ (overtaken # "afterDown" => downs = 0) /\ ~isWriting'
      BY <1>1, <2>3 DEF UpdateChannel
    <3>2. removed => overtaken # "never"
      BY <1>9 DEF HandleWrite
    <3>3. HalfClosed'
      BY <1>9, <2>3 DEF HandleWrite, Drained
    <3>4. DownIsFinal'
      BY <1>1, <1>9, <2>3, <3>1 DEF HandleWrite
    <3>5. WritesBacklog'
      BY <1>1, <1>9, <2>3, <3>1 DEF HandleWrite
    <3>6. RemovalsFollowDowns' /\ RemovedIsOut' /\ ReportsOneEnd' /\ BeforeUp'
      BY <1>1, <1>9, <2>3, <3>1, <3>2 DEF HandleWrite
    <3>7. QED  BY <3>3, <3>4, <3>5, <3>6
  <2>4. ASSUME NEW n \in 1 .. Len(outputBuffer), ~(n < Len(outputBuffer)),
               outputBuffer' = SubSeq(outputBuffer, n + 1, Len(outputBuffer))
        PROVE  outputBuffer' = <<>>
    <3>1. Len(outputBuffer) \in Nat /\ outputBuffer \in Seq(Units)
      BY LenProperties DEF TypeOK
    <3>2. n = Len(outputBuffer)
      BY <2>4, <3>1
    <3>3. QED  BY <2>4, <3>1, <3>2, PrefixIsSeq
  <2>5. QED  BY <1>9, <2>1, <2>2, <2>3, <2>4 DEF HandleWrite
<1>10. CASE BeginFunctors \/ EndFunctors
  BY <1>1, <1>2, <1>10 DEF BeginFunctors, EndFunctors
<1>11. CASE ConnectEstablished
  <2>1. ups = 0
    BY <1>11, RunsWhenUp DEF ConnectEstablished
  <2>2. QED  BY <1>1, <1>11, <2>1 DEF ConnectEstablished, UpdateChannel, Starts
<1>12. CASE RunSend
  <2>1. ups = 1 /\ batch > 0 /\ Head(queue)[2] \in Msgs
    BY <1>1, <1>12, RunsWhenUp, TailTypes, FunctorNames DEF RunSend, Starts
  <2>2. SendOutcome(Tail(queue))
    BY <1>12, <2>1, TailTypes, SendEffect DEF RunSend
  <2>3. QED  BY <1>12, <2>1, <2>2, SendKeepsEnd DEF RunSend
<1>13. CASE RunSendFile
  <2>1. ups = 1 /\ batch > 0 /\ Head(queue)[2] \in Files /\ Head(queue)[3] \in 0 .. MsgLen - 1
    BY <1>1, <1>13, RunsWhenUp, TailTypes, FunctorNames DEF RunSendFile, Starts
  <2>2. SendOutcome(Tail(queue))
    BY <1>13, <2>1, TailTypes, SendFileEffect DEF RunSendFile
  <2>3. QED  BY <1>13, <2>1, <2>2, SendKeepsEnd DEF RunSendFile
<1>14. CASE RunShutdown
  BY <1>1, <1>14 DEF RunShutdown, ShutdownInLoop, Starts
<1>15. CASE RunFlowCallback
  BY <1>1, <1>15 DEF RunFlowCallback, Starts
<1>16. CASE ConnectDestroyed
  <2>1. ups = 1
    BY <1>1, <1>16, RunsWhenUp DEF ConnectDestroyed
  <2>2. QED  BY <1>1, <1>16, <2>1 DEF ConnectDestroyed, RemoveChannel, Starts, connected
<1>17. CASE CloseInDestroyed
  BY <1>1, <1>17 DEF CloseInDestroyed, RemoveChannel
<1>18. ASSUME NEW m \in Msgs \cup Files, LoopSend(m) PROVE EndInv'
  <2>1. SendOutcome(queue) /\ ups = 1
    BY <1>18, LoopSendEffect DEF LoopSend, LoopUserCode
  <2>2. QED  BY <1>18, <2>1, SendKeepsEnd DEF LoopSend
<1>19. CASE LoopShutdown
  BY <1>1, <1>19 DEF LoopShutdown, LoopUserCode, ShutdownInLoop, connected
<1>20. ASSUME NEW u \in Users, NEW m \in Msgs \cup Files, UserSend(u, m) PROVE EndInv'
  BY <1>20 DEF UserSend
<1>21. ASSUME NEW u \in Users, UserShutdown(u) \/ UserQueue(u) PROVE EndInv'
  BY <1>21 DEF UserShutdown, UserQueue
<1>22. ASSUME NEW u \in Users, UserSetState(u) PROVE EndInv'
  <2>1. Stored # Idle
    BY DEF Stored, Idle, Functor
  <2>2. ups = 1
    BY <1>1, <1>22, <2>1 DEF UserSetState, UpFirst, EstablishedFirst
  <2>3. QED  BY <1>1, <1>22, <2>2 DEF UserSetState
<1>23. CASE ServerRemoves \/ ServerDestroys
  <2>1. UNCHANGED <<state, events, index, outputBuffer, fin, ups, downs, overtaken, removed,
                    phase, revents>>
    BY <1>23 DEF ServerRemoves, ServerDestroys, QueueConnectDestroyed
  <2>2. RemovalsFollowDowns'
    <3>1. CASE ServerRemoves
      BY <1>1, <2>1, <3>1 DEF ServerRemoves
    <3>2. CASE ServerDestroys
      BY <1>1, <2>1, <3>2 DEF ServerDestroys
    <3>3. QED  BY <1>23, <3>1, <3>2
  <2> HIDE DEF RemovalsFollowDowns
  <2>3. QED  BY <2>1, <2>2
<1>24. CASE PeerSends \/ PeerCloses \/ PeerResets
  BY <1>24 DEF PeerSends, PeerCloses, PeerResets
<1>25. QED
  BY <1>3, <1>5, <1>6, <1>7, <1>8, <1>9, <1>10, <1>11, <1>12, <1>13, <1>14, <1>15, <1>16,
     <1>17, <1>18, <1>19, <1>20, <1>21, <1>22, <1>23, <1>24
  DEF Next, Dispatch, RunFunctor, UserStep, PollReady, PollOther

LEMMA ConnInvKept == ConnInv /\ [Next]_vars => ConnInv'
  BY TypesKept, UpFirstKept, EndKept, RunsWhenUp DEF ConnInv, EndInv, ConnectEstablished

LEMMA ConnInvariant == Spec => []ConnInv
  BY ConnInvInit, ConnInvKept, PTL DEF Spec

(* Every variable keeps its type: the queued functors are those send(),    *)
(* shutdown() and the server queue, and the connection callback reports up *)
(* once.                                                                   *)
THEOREM ConnectionTypeCorrect == Spec => []TypeOK
  BY ConnInvariant, PTL DEF ConnInv

(* While the connection is up and in the poller, EPOLLOUT is asked for     *)
(* exactly when m_outputBuffer holds data.                                 *)
THEOREM BacklogIsWatched == Spec => []WritingIffBacklog
<1>1. ConnInv => WritingIffBacklog
  BY DEF ConnInv, WritesBacklog, WritingIffBacklog
<1>2. QED  BY <1>1, ConnInvariant, PTL

(* The connection callback reports down, and the server is asked to remove *)
(* the connection, at most once, unless another thread's shutdown()        *)
(* revived the connection.                                                 *)
THEOREM DownOnce == Spec => []DownOnceUnlessRevived
<1>1. ConnInv => DownOnceUnlessRevived
  BY DEF ConnInv, DownIsFinal, RemovalsFollowDowns, TypeOK, DownOnceUnlessRevived,
     DownAtMostOnce
<1>2. QED  BY <1>1, ConnInvariant, PTL

(* No queued send() puts the channel back that connectDestroyed() took out *)
(* of the poller, on a connection that no other thread has shut down.      *)
THEOREM RemovedChannelStaysOut == Spec => []RemovedStaysOut
<1>1. ConnInv => RemovedStaysOut
  BY DEF ConnInv, RemovedIsOut, RemovedStaysOut
<1>2. QED  BY <1>1, ConnInvariant, PTL

(* connectDestroyed() makes up for the handleClose() that did not happen,  *)
(* on a connection that is neither half closed nor revived by another      *)
(* thread's shutdown().                                                    *)
THEOREM DestroyedReportsDown == Spec => []DestroyedMakesUp
<1>1. ConnInv => DestroyedMakesUp
  BY DEF ConnInv, RemovedIsOut, DownIsFinal, DestroyedMakesUp
<1>2. QED  BY <1>1, ConnInvariant, PTL

(* Nothing takes a connection out of kDisconnected but a shutdown() whose  *)
(* test of connected() the close overtook.                                 *)
THEOREM DownStaysDown == Spec => DisconnectedIsFinal
<1>1. ASSUME ConnInv, [Next]_vars, state = "kDisconnected"
      PROVE  state' = "kDisconnected" \/ overtaken' = "afterDown"
  <2>1. CASE \/ UNCHANGED state
             \/ HandleClose \/ HandleRead \/ CloseInDestroyed
             \/ \E u \in Users : UserSetState(u)
    BY <1>1, <2>1
    DEF HandleClose, HandleRead, DoHandleClose, CloseInDestroyed, UserSetState
  <2>2. ~ConnectEstablished
    BY <1>1, RunsWhenUp DEF ConnectEstablished, ConnInv, BeforeUp
  <2>3. ~LoopShutdown
    BY <1>1 DEF LoopShutdown, LoopUserCode, connected
  <2>4. PollReady \/ PollOther \/ HandleError \/ HandleWrite \/ BeginFunctors \/ EndFunctors
           => UNCHANGED state
    BY DEF PollReady, PollOther, Poll, HandleError, HandleWrite, BeginFunctors, EndFunctors
  <2>5. RunSend \/ RunSendFile \/ RunShutdown \/ RunFlowCallback \/ ConnectDestroyed
           => UNCHANGED state
    BY DEF RunSend, RunSendFile, RunShutdown, RunFlowCallback, ConnectDestroyed
  <2>6. ASSUME NEW m \in Msgs \cup Files, LoopSend(m) PROVE UNCHANGED state
    BY <2>6 DEF LoopSend
  <2>7. ASSUME NEW u \in Users, UserStep(u) PROVE UNCHANGED state \/ UserSetState(u)
    BY <2>7 DEF UserStep, UserSend, UserShutdown, UserQueue
  <2>8. CASE \/ ServerRemoves \/ ServerDestroys \/ PeerSends \/ PeerCloses \/ PeerResets
             \/ UNCHANGED vars
    BY <2>1, <2>8 DEF ServerRemoves, ServerDestroys, QueueConnectDestroyed, PeerSends, PeerCloses,
       PeerResets, vars
  <2>9. \/ UNCHANGED vars \/ PollReady \/ PollOther \/ Dispatch \/ BeginFunctors \/ RunFunctor
        \/ EndFunctors \/ (\E m \in Msgs \cup Files : LoopSend(m)) \/ LoopShutdown
        \/ (\E u \in Users : UserStep(u))
        \/ ServerRemoves \/ ServerDestroys \/ PeerSends \/ PeerCloses \/ PeerResets
    BY <1>1 DEF Next
  <2>10. CASE Dispatch \/ RunFunctor
    BY <2>1, <2>2, <2>4, <2>5, <2>10 DEF Dispatch, RunFunctor
  <2>11. CASE \E u \in Users : UserStep(u)
    BY <2>1, <2>7, <2>11
  <2>12. CASE \E m \in Msgs \cup Files : LoopSend(m)
    BY <2>1, <2>6, <2>12
  <2>13. QED
    BY <2>1, <2>3, <2>4, <2>8, <2>9, <2>10, <2>11, <2>12
<1>2. ConnInv /\ [Next]_vars =>
          [state = "kDisconnected" => state' = "kDisconnected" \/ overtaken' = "afterDown"]_vars
  BY <1>1
<1>3. QED  BY <1>2, ConnInvariant, PTL DEF Spec, DisconnectedIsFinal

-----------------------------------------------------------------------------
(* Flow control: what the producer does once the queue q has been run,     *)
(* being paused or not as p says: the last callback in it decides.         *)

\* f comes after every g, or neither comes and it is already so
Decides(f, g, v, q, p) ==
    \/ \E i \in 1 .. Len(q) : q[i] = f /\ \A j \in i + 1 .. Len(q) : q[j] # g
    \/ p = v /\ \A j \in 1 .. Len(q) : q[j] # g

GoesOn(q, p) == Decides(Functor("writeComplete"), Functor("highWaterMark"), FALSE, q, p)
Pauses(q, p) == Decides(Functor("highWaterMark"), Functor("writeComplete"), TRUE, q, p)

FlowRight(buf, q, p) ==
    /\ buf = <<>> => GoesOn(q, p)
    /\ Len(buf) >= HighWaterMark => Pauses(q, p)

\* holds of a high water mark above 0; one of 0 is never crossed
FlowInv == HighWaterMark > 0 /\ downs = 0 => FlowRight(outputBuffer, queue, paused)

LEMMA DecidesAppend ==
    ASSUME NEW q \in Seq(Functors), NEW x \in Functors, NEW f, NEW g, NEW v, NEW p, f # g,
           x = f \/ (x # g /\ Decides(f, g, v, q, p))
    PROVE  Decides(f, g, v, Append(q, x), p)
<1> DEFINE a == Append(q, x)
<1>1. /\ Len(q) \in Nat /\ Len(a) = Len(q) + 1 /\ a[Len(q) + 1] = x
      /\ \A i \in 1 .. Len(q) : a[i] = q[i]
  BY LenProperties
<1> HIDE DEF a
<1>2. CASE x = f
  BY <1>1, <1>2 DEF Decides, a
<1>3. ASSUME x # g, NEW i \in 1 .. Len(q), q[i] = f, \A j \in i + 1 .. Len(q) : q[j] # g
      PROVE  Decides(f, g, v, a, p)
  <2>1. \A j \in i + 1 .. Len(a) : a[j] # g
    <3>1. \A j \in i + 1 .. Len(a) : j \in i + 1 .. Len(q) \/ j = Len(q) + 1
      BY <1>1, <1>3
    <3>2. \A j \in i + 1 .. Len(q) : j \in 1 .. Len(q)
      BY <1>1, <1>3
    <3>3. QED  BY <1>1, <1>3, <3>1, <3>2
  <2>2. i \in 1 .. Len(a) /\ a[i] = f
    BY <1>1, <1>3
  <2>3. QED  BY <2>1, <2>2 DEF Decides
<1>4. CASE x # g /\ p = v /\ \A j \in 1 .. Len(q) : q[j] # g
  <2>1. \A j \in 1 .. Len(a) : j \in 1 .. Len(q) \/ j = Len(q) + 1
    BY <1>1
  <2>2. QED  BY <1>1, <1>4, <2>1 DEF Decides
<1>5. QED  BY <1>2, <1>3, <1>4 DEF Decides, a

LEMMA DecidesTail ==
    ASSUME NEW q \in Seq(Functors), q # <<>>, NEW f, NEW g, NEW v, NEW p, NEW p2, f # g,
           Decides(f, g, v, q, p),
           Head(q) = f => p2 = v,
           Head(q) \notin {f, g} => p2 = p
    PROVE  Decides(f, g, v, Tail(q), p2)
<1> DEFINE t == Tail(q)
<1>1. /\ Len(q) \in Nat /\ Len(t) = Len(q) - 1 /\ Head(q) = q[1]
      /\ \A i \in 1 .. Len(q) - 1 : t[i] = q[i + 1]
      /\ 1 \in 1 .. Len(q)
  BY LenProperties
<1> HIDE DEF t
<1>2. \A j \in 1 .. Len(t) : j + 1 \in 1 .. Len(q) /\ t[j] = q[j + 1]
  BY <1>1
<1>3. ASSUME NEW i \in 1 .. Len(q), q[i] = f, \A j \in i + 1 .. Len(q) : q[j] # g
      PROVE  Decides(f, g, v, t, p2)
  <2>1. CASE i = 1
    <3>1. \A j \in 1 .. Len(t) : j + 1 \in i + 1 .. Len(q)
      BY <1>1, <2>1
    <3>2. p2 = v
      BY <1>1, <1>3, <2>1
    <3>3. QED  BY <1>2, <1>3, <3>1, <3>2 DEF Decides
  <2>2. CASE i # 1
    <3>1. i - 1 \in 1 .. Len(t) /\ (i - 1) + 1 = i
      BY <1>1, <1>3, <2>2
    <3>2. t[i - 1] = f
      BY <1>2, <1>3, <3>1
    <3>3. \A j \in (i - 1) + 1 .. Len(t) : j \in 1 .. Len(t) /\ j + 1 \in i + 1 .. Len(q)
      BY <1>1, <1>3, <2>2
    <3>4. \A j \in (i - 1) + 1 .. Len(t) : t[j] # g
      BY <1>2, <1>3, <3>3
    <3>5. QED  BY <3>1, <3>2, <3>4 DEF Decides
  <2>3. QED  BY <2>1, <2>2
<1>4. CASE p = v /\ \A j \in 1 .. Len(q) : q[j] # g
  <2>1. p2 = v
    BY <1>1, <1>4
  <2>2. QED  BY <1>2, <1>4, <2>1 DEF Decides
<1>5. QED  BY <1>3, <1>4 DEF Decides, t

\* a functor that is none of the two callbacks decides nothing
LEMMA FlowAppend ==
    ASSUME NEW q \in Seq(Functors), NEW x \in Functors \ FlowFunctors, NEW p, NEW buf,
           FlowRight(buf, q, p)
    PROVE  FlowRight(buf, Append(q, x), p)
<1>1. Functor("writeComplete") # Functor("highWaterMark")
  BY DEF Functor
<1>2. x # Functor("writeComplete") /\ x # Functor("highWaterMark") /\ x \in Functors
  BY DEF FlowFunctors
<1>3. GoesOn(q, p) => GoesOn(Append(q, x), p)
  BY <1>1, <1>2, DecidesAppend DEF GoesOn
<1>4. Pauses(q, p) => Pauses(Append(q, x), p)
  BY <1>1, <1>2, DecidesAppend DEF Pauses
<1>5. QED  BY <1>3, <1>4 DEF FlowRight

LEMMA FlowTail ==
    ASSUME NEW q \in Seq(Functors), q # <<>>, NEW p, NEW p2, NEW buf, FlowRight(buf, q, p),
           Head(q) = Functor("writeComplete") => p2 = FALSE,
           Head(q) = Functor("highWaterMark") => p2 = TRUE,
           Head(q) \notin FlowFunctors => p2 = p
    PROVE  FlowRight(buf, Tail(q), p2)
<1>1. Functor("writeComplete") # Functor("highWaterMark")
  BY DEF Functor
<1>2. GoesOn(q, p) => GoesOn(Tail(q), p2)
  BY <1>1, DecidesTail DEF GoesOn, FlowFunctors
<1>3. Pauses(q, p) => Pauses(Tail(q), p2)
  BY <1>1, DecidesTail DEF Pauses, FlowFunctors
<1>4. QED  BY <1>2, <1>3 DEF FlowRight

LEMMA FlowSend ==
    ASSUME TypeOK, HighWaterMark > 0, isWriting <=> outputBuffer # <<>>,
           NEW q \in Seq(Functors), NEW p, FlowRight(outputBuffer, q, p), SendOutcome(q)
    PROVE  FlowRight(outputBuffer', queue', p)
<1>1. /\ Functor("writeComplete") # Functor("highWaterMark")
      /\ Functor("writeComplete") \in Functors /\ Functor("highWaterMark") \in Functors
  BY NamesOfFunctors DEF Functor
<1>2. CASE Untouched /\ queue' = q
  BY <1>2 DEF Untouched
<1>3. ASSUME Untouched, NEW g \in FileFunctors, queue' = Append(q, g)
      PROVE  FlowRight(outputBuffer', queue', p)
  <2>1. g \in Functors \ FlowFunctors
    BY NamesOfFunctors DEF FlowFunctors
  <2>2. QED  BY <1>3, <2>1, FlowAppend DEF Untouched
<1>4. CASE Untouched /\ ~Busy /\ queue' = Append(q, Functor("writeComplete"))
  <2>1. outputBuffer' = <<>> /\ ~(Len(outputBuffer') >= HighWaterMark)
    BY <1>4, ConnAssumption DEF Untouched, Busy
  <2>2. GoesOn(queue', p)
    BY <1>1, <1>4, DecidesAppend DEF GoesOn
  <2>3. QED  BY <2>1, <2>2 DEF FlowRight
<1>5. CASE /\ Len(outputBuffer') > Len(outputBuffer)
           /\ \/ /\ queue' = q
                 /\ Len(outputBuffer) >= HighWaterMark \/ Len(outputBuffer') < HighWaterMark
              \/ /\ queue' = Append(q, Functor("highWaterMark"))
                 /\ Len(outputBuffer) < HighWaterMark /\ Len(outputBuffer') >= HighWaterMark
  <2>1. Len(outputBuffer) \in Nat /\ HighWaterMark \in Nat
    BY LenProperties, ConnAssumption DEF TypeOK
  <2>2. outputBuffer' # <<>>
    <3>1. Len(outputBuffer') # 0
      BY <1>5, <2>1
    <3>2. QED  BY <3>1
  <2>3. CASE queue' = q /\ (Len(outputBuffer) >= HighWaterMark \/ Len(outputBuffer') < HighWaterMark)
    <3>1. CASE Len(outputBuffer) >= HighWaterMark
      BY <2>2, <2>3, <3>1 DEF FlowRight
    <3>2. CASE Len(outputBuffer') < HighWaterMark
      <4>1. ~(Len(outputBuffer') >= HighWaterMark)
        BY <2>1, <3>2
      <4>2. QED  BY <2>2, <4>1 DEF FlowRight
    <3>3. QED  BY <2>3, <3>1, <3>2
  <2>4. CASE queue' = Append(q, Functor("highWaterMark"))
    <3>1. Pauses(queue', p)
      BY <1>1, <2>4, DecidesAppend DEF Pauses
    <3>2. QED  BY <2>2, <3>1 DEF FlowRight
  <2>5. QED  BY <1>5, <2>3, <2>4
<1>6. QED  BY <1>2, <1>3, <1>4, <1>5 DEF SendOutcome

LEMMA FlowKept ==
    ASSUME ConnInv, FlowInv, [Next]_vars
    PROVE  FlowInv'
<1> SUFFICES ASSUME HighWaterMark > 0, downs' = 0 PROVE FlowRight(outputBuffer', queue', paused')
  BY DEF FlowInv
<1> USE DEF sockVars, loopVars, histVars, serverVars, chanVars
<1>1. /\ queue \in Seq(Functors) /\ downs \in Nat /\ TypeOK /\ UpFirst
      /\ downs = 0 => FlowRight(outputBuffer, queue, paused)
      /\ downs = 0 => (isWriting <=> outputBuffer # <<>>)
  BY DEF ConnInv, TypeOK, WritesBacklog, FlowInv
<1>2. CASE UNCHANGED <<outputBuffer, queue, paused, downs>>
  BY <1>1, <1>2
<1>3. ASSUME UNCHANGED <<outputBuffer, paused, downs>>,
             NEW x \in Functors \ FlowFunctors, queue' = Append(queue, x)
      PROVE  FlowRight(outputBuffer', queue', paused')
  BY <1>1, <1>3, FlowAppend
<1>4. ASSUME UNCHANGED <<outputBuffer, paused, downs>>, queue' = Tail(queue),
             NEW op, Starts(op), op \notin {"writeComplete", "highWaterMark"}
      PROVE  FlowRight(outputBuffer', queue', paused')
  <2>1. queue # <<>> /\ Head(queue) \notin FlowFunctors
    BY <1>1, <1>4, TailTypes, NamesOfFunctors DEF Starts, FlowFunctors
  <2>2. QED  BY <1>1, <1>4, <2>1, FlowTail, NamesOfFunctors DEF FlowFunctors
<1>5. CASE UNCHANGED vars
  BY <1>2, <1>5 DEF vars
<1>6. CASE PollReady \/ PollOther
  BY <1>2, <1>6 DEF PollReady, PollOther, Poll
<1>7. CASE HandleClose \/ HandleError \/ HandleRead \/ BeginFunctors \/ EndFunctors
  BY <1>1, <1>2, <1>7
  DEF HandleClose, HandleError, HandleRead, DoHandleClose, BeginFunctors, EndFunctors
<1>8. CASE HandleWrite
  <2>1. CASE UNCHANGED <<outputBuffer, queue>>
    BY <1>2, <1>8, <2>1 DEF HandleWrite
  <2>2. ASSUME NEW n \in 1 .. Len(outputBuffer),
               outputBuffer' = SubSeq(outputBuffer, n + 1, Len(outputBuffer))
        PROVE  /\ Len(outputBuffer) \in Nat /\ Len(outputBuffer') = Len(outputBuffer) - n
               /\ outputBuffer' \in Seq(Units)
    BY <1>1, <2>2, PrefixIsSeq, LenProperties DEF TypeOK
  <2>3. downs = 0 /\ paused' = paused
    BY <1>8 DEF HandleWrite
  <2>4. ASSUME NEW n \in 1 .. Len(outputBuffer), n < Len(outputBuffer),
               outputBuffer' = SubSeq(outputBuffer, n + 1, Len(outputBuffer)),
               UNCHANGED queue
        PROVE  FlowRight(outputBuffer', queue', paused')
    <3>1. /\ Len(outputBuffer) \in Nat /\ Len(outputBuffer') = Len(outputBuffer) - n
          /\ HighWaterMark \in Nat
      BY <2>2, <2>4, ConnAssumption
    <3>2. /\ Len(outputBuffer') # 0
          /\ Len(outputBuffer') >= HighWaterMark => Len(outputBuffer) >= HighWaterMark
      BY <2>4, <3>1
    <3>3. outputBuffer' # <<>>
      BY <3>2
    <3>4. QED  BY <1>1, <2>3, <2>4, <3>2, <3>3 DEF FlowRight
  <2>5. ASSUME NEW n \in 1 .. Len(outputBuffer), ~(n < Len(outputBuffer)),
               outputBuffer' = SubSeq(outputBuffer, n + 1, Len(outputBuffer)),
               queue' = queue \o WriteComplete
        PROVE  FlowRight(outputBuffer', queue', paused')
    <3>1. Len(outputBuffer') = 0 /\ ~(Len(outputBuffer') >= HighWaterMark)
      <4>1. Len(outputBuffer) \in Nat /\ Len(outputBuffer') = Len(outputBuffer) - n
        BY <2>2, <2>5
      <4>2. QED  BY <2>5, <4>1, ConnAssumption
    <3>2. queue' = Append(queue, Functor("writeComplete"))
      BY <1>1, <2>5, NamesOfFunctors, ConcatOne DEF WriteComplete
    <3>3. Functor("writeComplete") # Functor("highWaterMark")
      BY DEF Functor
    <3>4. GoesOn(queue', paused')
      BY <1>1, <3>2, <3>3, NamesOfFunctors, DecidesAppend DEF GoesOn
    <3>5. QED  BY <3>1, <3>4 DEF FlowRight
  <2>6. QED  BY <1>8, <2>1, <2>4, <2>5 DEF HandleWrite
<1>9. CASE ConnectEstablished
  BY <1>4, <1>9 DEF ConnectEstablished
<1>10. CASE RunSend
  <2>1. /\ batch > 0 /\ Head(queue)[2] \in Msgs /\ queue # <<>> /\ Tail(queue) \in Seq(Functors)
        /\ Head(queue)[1] = "sendInLoop"
    BY <1>1, <1>10, TailTypes, FunctorNames DEF RunSend, Starts
  <2>2. SendOutcome(Tail(queue)) /\ UNCHANGED <<downs, paused>>
    BY <1>1, <1>10, <2>1, SendEffect DEF RunSend
  <2>3. Head(queue) \notin FlowFunctors
    BY <2>1, NamesOfFunctors DEF FlowFunctors
  <2>4. FlowRight(outputBuffer, Tail(queue), paused)
    BY <1>1, <2>1, <2>2, <2>3, FlowTail DEF FlowFunctors
  <2>5. QED  BY <1>1, <2>1, <2>2, <2>4, FlowSend
<1>11. CASE RunSendFile
  <2>1. /\ batch > 0 /\ Head(queue)[2] \in Files /\ Head(queue)[3] \in 0 .. MsgLen - 1
        /\ queue # <<>> /\ Tail(queue) \in Seq(Functors) /\ Head(queue)[1] = "sendFileInLoop"
    BY <1>1, <1>11, TailTypes, FunctorNames DEF RunSendFile, Starts
  <2>2. SendOutcome(Tail(queue)) /\ UNCHANGED <<downs, paused>>
    BY <1>1, <1>11, <2>1, SendFileEffect DEF RunSendFile
  <2>3. Head(queue) \notin FlowFunctors
    BY <2>1, NamesOfFunctors DEF FlowFunctors
  <2>4. FlowRight(outputBuffer, Tail(queue), paused)
    BY <1>1, <2>1, <2>2, <2>3, FlowTail DEF FlowFunctors
  <2>5. QED  BY <1>1, <2>1, <2>2, <2>4, FlowSend
<1>12. CASE RunShutdown
  BY <1>4, <1>12 DEF RunShutdown
<1>13. CASE RunFlowCallback
  <2>1. \/ Starts("highWaterMark") /\ paused' = TRUE
        \/ Starts("writeComplete") /\ paused' = FALSE
    BY <1>13 DEF RunFlowCallback
  <2>2. /\ queue # <<>> /\ Head(queue) \in Functors
        /\ \/ Head(queue)[1] = "highWaterMark" /\ paused' = TRUE
           \/ Head(queue)[1] = "writeComplete" /\ paused' = FALSE
    BY <1>1, <2>1, TailTypes DEF Starts
  <2>3. Functor("highWaterMark") # Functor("writeComplete")
    BY DEF Functor
  <2>4. \/ Head(queue) = Functor("highWaterMark") /\ paused' = TRUE
        \/ Head(queue) = Functor("writeComplete") /\ paused' = FALSE
    BY <2>2, FunctorNames
  <2>5. UNCHANGED <<outputBuffer, downs>> /\ queue' = Tail(queue)
    BY <1>13 DEF RunFlowCallback
  <2>6. downs = 0 /\ FlowRight(outputBuffer, queue, paused)
    BY <1>1, <2>5
  <2>7. FlowRight(outputBuffer, Tail(queue), paused')
    <3>1. CASE Head(queue) = Functor("highWaterMark") /\ paused' = TRUE
      <4>1. FlowRight(outputBuffer, Tail(queue), TRUE)
        BY <1>1, <2>2, <2>3, <2>6, <3>1, FlowTail DEF FlowFunctors
      <4>2. QED  BY <3>1, <4>1
    <3>2. CASE Head(queue) = Functor("writeComplete") /\ paused' = FALSE
      <4>1. FlowRight(outputBuffer, Tail(queue), FALSE)
        BY <1>1, <2>2, <2>3, <2>6, <3>2, FlowTail DEF FlowFunctors
      <4>2. QED  BY <3>2, <4>1
    <3>3. QED  BY <2>4, <3>1, <3>2
  <2>8. QED  BY <2>5, <2>7
<1>14. CASE ConnectDestroyed
  BY <1>4, <1>14 DEF ConnectDestroyed
<1>15. CASE CloseInDestroyed
  BY <1>1, <1>15 DEF CloseInDestroyed
<1>16. ASSUME NEW m \in Msgs \cup Files, LoopSend(m)
       PROVE  FlowRight(outputBuffer', queue', paused')
  <2>1. SendOutcome(queue) /\ UNCHANGED <<downs, paused>>
    BY <1>1, <1>16, LoopSendEffect DEF LoopSend
  <2>2. QED  BY <1>1, <2>1, FlowSend
<1>17. CASE LoopShutdown
  BY <1>2, <1>17 DEF LoopShutdown
<1>18. ASSUME NEW u \in Users, NEW m \in Msgs \cup Files, UserSend(u, m)
       PROVE  FlowRight(outputBuffer', queue', paused')
  BY <1>2, <1>18 DEF UserSend
<1>19. ASSUME NEW u \in Users, UserShutdown(u) \/ UserSetState(u)
       PROVE  FlowRight(outputBuffer', queue', paused')
  BY <1>2, <1>19 DEF UserShutdown, UserSetState
<1>20. ASSUME NEW u \in Users, UserQueue(u)
       PROVE  FlowRight(outputBuffer', queue', paused')
  <2>1. userPc[u] \in Functors \ FlowFunctors
    BY <1>1, <1>20 DEF UserQueue, UpFirst, EstablishedFirst, TypeOK, LoopsOwn
  <2>2. QED  BY <1>3, <1>20, <2>1 DEF UserQueue
<1>21. CASE ServerRemoves \/ ServerDestroys
  <2>1. Functor("connectDestroyed") \in Functors \ FlowFunctors
    BY NamesOfFunctors DEF FlowFunctors, Functor
  <2>2. QED  BY <1>3, <1>21, <2>1 DEF ServerRemoves, ServerDestroys, QueueConnectDestroyed
<1>22. CASE PeerSends \/ PeerCloses \/ PeerResets
  BY <1>2, <1>22 DEF PeerSends, PeerCloses, PeerResets
<1>23. QED
  BY <1>5, <1>6, <1>7, <1>8, <1>9, <1>10, <1>11, <1>12, <1>13, <1>14, <1>15, <1>16,
     <1>17, <1>18, <1>19, <1>20, <1>21, <1>22
  DEF Next, Dispatch, RunFunctor, UserStep

LEMMA FlowInvariant == Spec => []FlowInv
<1>1. Init => FlowInv
  <2> SUFFICES ASSUME Init PROVE FlowRight(outputBuffer, queue, paused) \/ ~(HighWaterMark > 0)
    BY DEF FlowInv
  <2>1. ~(Len(outputBuffer) >= HighWaterMark) \/ ~(HighWaterMark > 0)
    BY ConnAssumption DEF Init
  <2>2. GoesOn(queue, paused)
    <3>1. Len(queue) = 1 /\ queue[1] # Functor("highWaterMark") /\ paused = FALSE
      BY DEF Init, Functor
    <3>2. QED  BY <3>1 DEF GoesOn, Decides
  <2>3. QED  BY <2>1, <2>2 DEF FlowRight
<1>2. ConnInv /\ FlowInv /\ [Next]_vars => FlowInv'
  BY FlowKept
<1>3. QED  BY <1>1, <1>2, ConnInvariant, PTL DEF Spec

(* A producer that pauses in the highWaterMarkCallback and goes on in the  *)
(* writeCompleteCallback, which are queued and run late, is neither left   *)
(* paused on an empty buffer nor going on with a full one.  A mark of 0    *)
(* is never crossed: no callback is queued for it.                         *)
THEOREM FlowControl == HighWaterMark > 0 => (Spec => []FlowControlled)
<1> SUFFICES ASSUME HighWaterMark > 0 PROVE Spec => []FlowControlled
  OBVIOUS
<1>1. ASSUME TypeOK, FlowInv PROVE FlowControlled
  <2> SUFFICES ASSUME downs = 0, FlowRight(outputBuffer, queue, paused) PROVE FlowControlled
    BY <1>1 DEF FlowInv, FlowControlled
  <2>1. \A i \in 1 .. Len(queue) : queue[i] \in Range(queue)
    BY <1>1 DEF Range, TypeOK
  <2>2. GoesOn(queue, paused) => ~paused \/ Functor("writeComplete") \in Range(queue)
    BY <2>1 DEF GoesOn, Decides
  <2>3. Pauses(queue, paused) => paused \/ Functor("highWaterMark") \in Range(queue)
    BY <2>1 DEF Pauses, Decides
  <2>4. QED  BY <2>2, <2>3 DEF FlowRight, FlowControlled
<1>2. TypeOK /\ FlowInv => FlowControlled
  BY <1>1
<1>3. QED  BY <1>2, FlowInvariant, ConnectionTypeCorrect, PTL
=============================================================================
