--------------------------- MODULE EventLoopProofs ---------------------------
(***************************************************************************)
(* Proofs about EventLoop, for every set of tasks, callers and channels.   *)
(***************************************************************************)
EXTENDS EventLoop, SequenceTheorems, TLAPS

(* Appending adds one element to the range, the empty sequence has none.   *)
LEMMA RangeAppend ==
    ASSUME NEW S, NEW s \in Seq(S), NEW e \in S
    PROVE  Range(Append(s, e)) = Range(s) \cup {e}
<1>1. Append(s, e) = s \o <<e>>
  BY AppendIsConcat
<1>2. <<e>> \in Seq(S) /\ Range(<<e>>) = {e}
  BY DEF Range
<1>3. Range(s \o <<e>>) = Range(s) \cup Range(<<e>>)
  BY <1>2, RangeConcatenation, Zenon
<1>4. QED
  BY <1>1, <1>2, <1>3, Zenon

LEMMA RangeEmpty == Range(<<>>) = {}
  BY DEF Range

-----------------------------------------------------------------------------
(* Every variable keeps its type, m_looping holds exactly inside loop()    *)
(* and m_callingPendingFunctors exactly inside doPendingFunctors().        *)
THEOREM TypeCorrect == Spec => []TypeOK
<1>1. Init => TypeOK
  <2>1. <<>> \in Seq(Tasks)
    OBVIOUS
  <2>2. QED
    BY <2>1 DEF Init, TypeOK, LoopPcs, Outside, Calling
<1>2. TypeOK /\ [Next]_vars => TypeOK'
  <2> SUFFICES ASSUME TypeOK, [Next]_vars PROVE TypeOK'
    OBVIOUS
  <2> USE DEF TypeOK, LoopPcs, Outside, UserCode, Calling, queueVars
  <2>1. CASE Loop  BY <2>1 DEF Loop
  <2>2. CASE ClearQuit  BY <2>2 DEF ClearQuit
  <2>3. CASE EnterPoll  BY <2>3 DEF EnterPoll
  <2>4. CASE LeaveLoop  BY <2>4 DEF LeaveLoop
  <2>5. CASE PollReady  BY <2>5 DEF PollReady
  <2>6. CASE PollNothing  BY <2>6 DEF PollNothing
  <2>7. CASE HandleRead  BY <2>7 DEF HandleRead
  <2>8. ASSUME NEW ch \in IoChannels, HandleIo(ch) PROVE TypeOK'
    BY <2>8 DEF HandleIo
  <2>9. CASE HandlerReturn  BY <2>9 DEF HandlerReturn
  <2>10. CASE BeginPending  BY <2>10 DEF BeginPending
  <2>11. CASE Swap  BY <2>11 DEF Swap
  <2>12. CASE RunFunctor
    <3>1. Head(functors) \in Tasks /\ Tail(functors) \in Seq(Tasks)
      BY <2>12 DEF RunFunctor
    <3>2. QED  BY <2>12, <3>1 DEF RunFunctor
  <2>13. CASE FunctorReturn  BY <2>13 DEF FunctorReturn
  <2>14. CASE EndPending  BY <2>14 DEF EndPending
  <2>15. ASSUME NEW t \in Tasks, OwnerQueueInLoop(t) PROVE TypeOK'
    <3>1. Append(pendingFunctors, t) \in Seq(Tasks)  OBVIOUS
    <3>2. QED  BY <2>15, <3>1 DEF OwnerQueueInLoop, Enqueue, OwnerWakes
  <2>16. ASSUME NEW t \in Tasks, OwnerRunInLoop(t) PROVE TypeOK'
    BY <2>16 DEF OwnerRunInLoop
  <2>17. CASE OwnerQuit  BY <2>17 DEF OwnerQuit
  <2>18. ASSUME NEW c \in Callers, NEW t \in Tasks, QueueInLoop(c, t) PROVE TypeOK'
    <3>1. Append(pendingFunctors, t) \in Seq(Tasks)  OBVIOUS
    <3>2. QED  BY <2>18, <3>1 DEF QueueInLoop, Enqueue
  <2>19. ASSUME NEW c \in Callers, Quit(c) PROVE TypeOK'
    BY <2>19 DEF Quit
  <2>20. ASSUME NEW c \in Callers, Wakeup(c) PROVE TypeOK'
    BY <2>20 DEF Wakeup
  <2>21. CASE UNCHANGED vars  BY <2>21 DEF vars
  <2>22. QED
    BY <2>1, <2>2, <2>3, <2>4, <2>5, <2>6, <2>7, <2>8, <2>9, <2>10, <2>11, <2>12,
       <2>13, <2>14, <2>15, <2>16, <2>17, <2>18, <2>19, <2>20, <2>21
    DEF Next, LoopStep, OwnerCall, CallerStep
<1>3. QED
  BY <1>1, <1>2, PTL DEF Spec

-----------------------------------------------------------------------------
(* The strengthening of NoLostWakeup that every step preserves.            *)
LEMMA CoveredInit == Init => Covered
  BY RangeEmpty DEF Init, Covered, Unattended, Announced, NobodyWaking

LEMMA CoveredStep ==
    ASSUME TypeOK, Covered, [Next]_vars
    PROVE  Covered'
<1> USE DEF Covered, Unattended, Announced, NobodyWaking, Outside, UserCode, queueVars
<1>1. CASE Loop  BY <1>1 DEF Loop
<1>2. CASE ClearQuit  BY <1>2 DEF ClearQuit
<1>3. CASE EnterPoll  BY <1>3 DEF EnterPoll
<1>4. CASE LeaveLoop  BY <1>4 DEF LeaveLoop
<1>5. CASE PollReady  BY <1>5 DEF PollReady
<1>6. CASE PollNothing  BY <1>6 DEF PollNothing
<1>7. CASE HandleRead  BY <1>7 DEF HandleRead
<1>8. ASSUME NEW ch \in IoChannels, HandleIo(ch) PROVE Covered'
  BY <1>8 DEF HandleIo
<1>9. CASE HandlerReturn  BY <1>9 DEF HandlerReturn
<1>10. CASE BeginPending  BY <1>10 DEF BeginPending
<1>11. CASE Swap
  \* the queue takes the empty batch of the last round
  <2>1. Range(pendingFunctors') = {}
    BY <1>11, RangeEmpty DEF Swap
  <2>2. QED  BY <1>11, <2>1 DEF Swap
<1>12. CASE RunFunctor  BY <1>12 DEF RunFunctor
<1>13. CASE FunctorReturn  BY <1>13 DEF FunctorReturn
<1>14. CASE EndPending  BY <1>14 DEF EndPending
<1>15. ASSUME NEW t \in Tasks, OwnerQueueInLoop(t) PROVE Covered'
  <2>1. Range(pendingFunctors') = Range(pendingFunctors) \cup {t}
    BY <1>15, RangeAppend DEF OwnerQueueInLoop, Enqueue, OwnerWakes, TypeOK
  <2>2. CASE loopPc \in Outside
    BY <1>15, <2>1, <2>2 DEF OwnerQueueInLoop, Enqueue, OwnerWakes
  <2>3. CASE loopPc = "handler"
    BY <1>15, <2>3 DEF OwnerQueueInLoop, Enqueue, OwnerWakes
  <2>4. CASE loopPc = "functor"
    \* here m_callingPendingFunctors holds, so the eventfd is written
    BY <1>15, <2>4 DEF OwnerQueueInLoop, Enqueue, OwnerWakes, TypeOK, Calling
  <2>5. QED  BY <1>15, <2>2, <2>3, <2>4 DEF OwnerQueueInLoop, Enqueue, OwnerWakes
<1>16. ASSUME NEW t \in Tasks, OwnerRunInLoop(t) PROVE Covered'
  BY <1>16 DEF OwnerRunInLoop
<1>17. CASE OwnerQuit  BY <1>17 DEF OwnerQuit
<1>18. ASSUME NEW c \in Callers, NEW t \in Tasks, QueueInLoop(c, t) PROVE Covered'
  <2>1. callerPc'[c] = "wakeup"
    BY <1>18 DEF QueueInLoop, Enqueue, TypeOK
  <2>2. QED  BY <1>18, <2>1 DEF QueueInLoop, Enqueue
<1>19. ASSUME NEW c \in Callers, Quit(c) PROVE Covered'
  <2>1. callerPc'[c] = "wakeup"
    BY <1>19 DEF Quit, TypeOK
  <2>2. QED  BY <1>19, <2>1 DEF Quit
<1>20. ASSUME NEW c \in Callers, Wakeup(c) PROVE Covered'
  BY <1>20 DEF Wakeup
<1>21. CASE UNCHANGED vars  BY <1>21 DEF vars
<1>22. QED
  BY <1>1, <1>2, <1>3, <1>4, <1>5, <1>6, <1>7, <1>8, <1>9, <1>10, <1>11, <1>12,
     <1>13, <1>14, <1>15, <1>16, <1>17, <1>18, <1>19, <1>20, <1>21
  DEF Next, LoopStep, OwnerCall, CallerStep

(* Any queued task or quit is announced to a loop that would otherwise     *)
(* sleep, in every reachable state.                                        *)
THEOREM CoveredAlways == Spec => []Covered
<1>1. TypeOK /\ Covered /\ [Next]_vars => Covered'
  BY CoveredStep
<1>2. QED
  BY CoveredInit, <1>1, TypeCorrect, PTL DEF Spec

(* No interleaving of queueInLoop(), quit(), the swap and the read of the  *)
(* eventfd leaves the loop asleep on a task or on a quit.                  *)
THEOREM WakeupNotLost == Spec => []NoLostWakeup
<1>1. Covered => NoLostWakeup
  BY DEF Covered, NoLostWakeup, Announced, Unattended
<1>2. QED
  BY <1>1, CoveredAlways, PTL

-----------------------------------------------------------------------------
(* Refinement: the batch being run followed by the queue is one FIFO.      *)

LEMMA ConcatAppend ==
    ASSUME NEW S, NEW s \in Seq(S), NEW r \in Seq(S), NEW e \in S
    PROVE  s \o Append(r, e) = Append(s \o r, e)
<1>1. <<e>> \in Seq(S) /\ s \o r \in Seq(S)
  OBVIOUS
<1>2. Append(r, e) = r \o <<e>> /\ Append(s \o r, e) = (s \o r) \o <<e>>
  BY <1>1, AppendIsConcat, Zenon
<1>3. (s \o r) \o <<e>> = s \o (r \o <<e>>)
  BY <1>1
<1>4. QED
  BY <1>2, <1>3, Zenon

LEMMA ConcatHeadTail ==
    ASSUME NEW S, NEW s \in Seq(S), NEW r \in Seq(S), s # <<>>
    PROVE  /\ s \o r # <<>>
           /\ Head(s \o r) = Head(s)
           /\ Tail(s \o r) = Tail(s) \o r
  OBVIOUS

LEMMA RefinementInit == Init => TQ!Init
  BY DEF Init, TQ!Init

LEMMA RefinementStep ==
    ASSUME TypeOK, Covered, [Next]_vars
    PROVE  [TQ!Next]_(TQ!vars)
<1> DEFINE fifo == functors \o pendingFunctors
<1> USE DEF TQ!vars, queueVars
<1>1. \A t \in Tasks : Fresh(t) => TQ!Fresh(t)
  <2>1. functors \in Seq(Tasks) /\ pendingFunctors \in Seq(Tasks)
    BY DEF TypeOK
  <2>2. Range(functors \o pendingFunctors) = Range(functors) \cup Range(pendingFunctors)
    BY <2>1, RangeConcatenation, Zenon
  <2>3. TQ!Range(functors \o pendingFunctors) = Range(functors \o pendingFunctors)
    BY DEF Range, TQ!Range
  <2>4. QED  BY <2>2, <2>3 DEF Fresh, TQ!Fresh
<1>2. CASE Swap
  <2>1. functors = <<>> /\ pendingFunctors \in Seq(Tasks)
    BY <1>2 DEF Swap, Covered, TypeOK
  <2>2. fifo' = fifo
    BY <1>2, <2>1, ConcatEmptySeq DEF Swap
  <2>3. QED  BY <1>2, <2>2 DEF Swap
<1>3. CASE RunFunctor
  <2>1. /\ fifo # <<>>
        /\ Head(fifo) = Head(functors)
        /\ Tail(fifo) = Tail(functors) \o pendingFunctors
    BY <1>3, ConcatHeadTail DEF RunFunctor, TypeOK
  <2>2. TQ!RunHead
    BY <1>3, <2>1 DEF RunFunctor, TQ!RunHead
  <2>3. QED  BY <2>2 DEF TQ!Next
<1>4. ASSUME NEW t \in Tasks, OwnerQueueInLoop(t) PROVE TQ!Submit(t)
  <2>1. fifo' = Append(fifo, t)
    BY <1>4, ConcatAppend DEF OwnerQueueInLoop, Enqueue, OwnerWakes, TypeOK
  <2>2. QED  BY <1>1, <1>4, <2>1 DEF OwnerQueueInLoop, Enqueue, OwnerWakes, TQ!Submit
<1>5. ASSUME NEW c \in Callers, NEW t \in Tasks, QueueInLoop(c, t) PROVE TQ!Submit(t)
  <2>1. fifo' = Append(fifo, t)
    BY <1>5, ConcatAppend DEF QueueInLoop, Enqueue, TypeOK
  <2>2. QED  BY <1>1, <1>5, <2>1 DEF QueueInLoop, Enqueue, TQ!Submit
<1>6. ASSUME NEW t \in Tasks, OwnerRunInLoop(t) PROVE TQ!RunNow(t)
  BY <1>1, <1>6 DEF OwnerRunInLoop, TQ!RunNow
<1>7. \/ Swap \/ RunFunctor
      \/ \E t \in Tasks : OwnerQueueInLoop(t) \/ OwnerRunInLoop(t)
      \/ \E c \in Callers, t \in Tasks : QueueInLoop(c, t)
      \/ UNCHANGED <<functors, pendingFunctors, ran>>
  BY DEF Next, LoopStep, OwnerCall, CallerStep, Loop, ClearQuit, EnterPoll, LeaveLoop,
         PollReady, PollNothing, HandleRead, HandleIo, HandlerReturn, BeginPending,
         FunctorReturn, EndPending, OwnerQuit, Quit, Wakeup, vars
<1>8. CASE UNCHANGED <<functors, pendingFunctors, ran>>
  BY <1>8
<1>9. QED
  BY <1>2, <1>3, <1>4, <1>5, <1>6, <1>7, <1>8 DEF TQ!Next

(* The event loop, with its lock, swap and eventfd, implements the abstract *)
(* executor of TaskQueue.                                                   *)
THEOREM ImplementsExecutor == Spec => ImplementsTaskQueue
<1>1. TypeOK /\ Covered /\ [Next]_vars => [TQ!Next]_(TQ!vars)
  BY RefinementStep
<1>2. QED
  BY RefinementInit, <1>1, TypeCorrect, CoveredAlways, PTL
  DEF Spec, ImplementsTaskQueue, TQ!Spec
=============================================================================
