------------------------ MODULE EventLoopThreadProofs ------------------------
(***************************************************************************)
(* Proofs about EventLoopThread, for every set of tasks, callers and       *)
(* channels and any of the callers as the starter.                         *)
(***************************************************************************)
EXTENDS EventLoopThread, EventLoopProofs

BeforeLoop == {"none", "begin", "construct", "init", "publish", "published"}
AfterLoop == {"unlock", "destroy", "exited"}

\* The worker's place in threadFunc() and its loop's place in loop() go together.
WorkerDrivesLoop ==
    /\ workerPc \in BeforeLoop => loopPc = "created"
    /\ workerPc = "looping" => loopPc # "created"
    /\ workerPc \in AfterLoop => loopPc = "stopped"

\* A starter that is past its wait has seen m_loop set.
StarterFollows ==
    /\ starterPc = "new" <=> workerPc = "none"
    /\ starterPc \in {"ready", "quitting", "waking", "joining", "destroyed"} =>
          workerPc \in {"published", "looping"} \cup AfterLoop

\* As long as no user code and no destructor has called quit(), m_quit is not set and
\* the worker has not left loop().
StaysInLoop ==
    ~userQuit /\ starterPc \notin {"waking", "joining", "destroyed"} =>
        /\ ~quit
        /\ loopPc # "stopped"

ThreadInv ==
    /\ ThreadTypeOK
    /\ WorkerDrivesLoop
    /\ StarterFollows
    /\ StaysInLoop
    /\ WorkerEndsFirst

LEMMA ThreadInvInit == ThreadInit => ThreadInv
  BY DEF ThreadInit, Init, ThreadInv, ThreadTypeOK, StarterPcs, WorkerPcs, WorkerDrivesLoop,
         StarterFollows, StaysInLoop, WorkerEndsFirst, BeforeLoop, AfterLoop

LEMMA ThreadInvStep ==
    ASSUME ThreadInv, [ThreadNext]_allVars
    PROVE  ThreadInv'
<1> USE DEF ThreadInv, ThreadTypeOK, StarterPcs, WorkerPcs, WorkerDrivesLoop, StarterFollows,
            StaysInLoop, WorkerEndsFirst, BeforeLoop, AfterLoop
<1>1. CASE StartThread  BY <1>1 DEF StartThread, vars
<1>2. CASE BeginDestruction  BY <1>2 DEF BeginDestruction, vars
<1>3. CASE SpuriousWakeup  BY <1>3 DEF SpuriousWakeup, vars
<1>4. CASE ThreadStarted  BY <1>4 DEF ThreadStarted, vars
<1>5. CASE WaitForLoop  BY <1>5 DEF WaitForLoop, vars
<1>6. CASE DtorQuit  BY <1>6 DEF DtorQuit, Quit
<1>7. CASE DtorWakeup  BY <1>7 DEF DtorWakeup, Wakeup
<1>8. CASE DtorJoin  BY <1>8 DEF DtorJoin, vars
<1>9. CASE WorkerBegin  BY <1>9 DEF WorkerBegin, vars
<1>10. CASE ConstructLoop  BY <1>10 DEF ConstructLoop, vars
<1>11. CASE InitCallbackReturns  BY <1>11 DEF InitCallbackReturns, vars
<1>12. CASE PublishLoop  BY <1>12 DEF PublishLoop, vars
<1>13. CASE EnterLoop  BY <1>13 DEF EnterLoop, Loop
<1>14. CASE RunLoop
  \* loop() is left on a quit only, and leads nowhere else out of it
  <2>1. LoopStep => loopPc' # "created" /\ (loopPc' = "stopped" => quit) /\ (quit' => quit)
    BY DEF LoopStep, ClearQuit, EnterPoll, LeaveLoop, HandleRead, HandleIo, HandlerReturn,
           BeginPending, Swap, RunFunctor, FunctorReturn, EndPending
  <2>2. LoopStep => loopPc # "created"
    BY DEF LoopStep, ClearQuit, EnterPoll, LeaveLoop, HandleRead, HandleIo, HandlerReturn,
           BeginPending, Swap, RunFunctor, FunctorReturn, EndPending
  <2>3. QED  BY <1>14, <2>1, <2>2 DEF RunLoop, threadVars
<1>15. CASE UnpublishLoop  BY <1>15 DEF UnpublishLoop, vars
<1>16. CASE Unlock  BY <1>16 DEF Unlock, vars
<1>17. CASE DestroyLoop  BY <1>17 DEF DestroyLoop, vars
<1>18. CASE PollReturns  BY <1>18 DEF PollReturns, PollReady, PollNothing, threadVars
<1>19. CASE WorkerUserCode
  <2>1. /\ UNCHANGED <<loopPc, starterPc, workerPc, sem, mutexHeld, mLoop, loopAlive>>
        /\ \/ userQuit' = TRUE
           \/ UNCHANGED <<quit, userQuit>>
    BY <1>19 DEF WorkerUserCode, OwnerQuit, OwnerQueueInLoop, OwnerRunInLoop
  <2>2. starterPc = "destroyed" /\ ~userQuit => workerPc = "exited" /\ loopPc = "stopped"
    OBVIOUS
  <2>3. ~(workerPc = "exited" /\ loopPc = "stopped")
    BY <1>19 DEF WorkerUserCode
  <2>4. CASE userQuit' = TRUE  BY <2>1, <2>2, <2>3, <2>4
  <2>5. CASE UNCHANGED <<quit, userQuit>>  BY <2>1, <2>2, <2>3, <2>5
  <2>6. QED  BY <2>1, <2>4, <2>5
<1>20. CASE UserCall
  <2>1. /\ UNCHANGED <<loopPc, starterPc, workerPc, sem, mutexHeld, mLoop, loopAlive>>
        /\ \/ userQuit' = TRUE
           \/ UNCHANGED <<quit, userQuit>>
        /\ starterPc = "ready"
    BY <1>20 DEF UserCall, Quit, QueueInLoop
  <2>2. CASE userQuit' = TRUE  BY <2>1, <2>2
  <2>3. CASE UNCHANGED <<quit, userQuit>>  BY <2>1, <2>3
  <2>4. QED  BY <2>1, <2>2, <2>3
<1>21. CASE UserWakeup  BY <1>21 DEF UserWakeup, Wakeup, threadVars
<1>22. CASE UNCHANGED allVars  BY <1>22 DEF allVars, vars, threadVars
<1>23. QED
  BY <1>1, <1>2, <1>3, <1>4, <1>5, <1>6, <1>7, <1>8, <1>9, <1>10, <1>11, <1>12, <1>13,
     <1>14, <1>15, <1>16, <1>17, <1>18, <1>19, <1>20, <1>21, <1>22
  DEF ThreadNext, StarterStep, WorkerStep

LEMMA ThreadInvariant == ThreadSpec => []ThreadInv
  BY ThreadInvInit, ThreadInvStep, PTL DEF ThreadSpec

(* m_loop is set exactly while the worker is about to enter loop() or in   *)
(* it, the EventLoop exists exactly inside threadFunc(), and m_mutex is    *)
(* held across steps only where m_loop is reset.                           *)
THEOREM ThreadTypeCorrect == ThreadSpec => []ThreadTypeOK
  BY ThreadInvariant, PTL DEF ThreadInv

(* The pointer startLoop() returned is usable until somebody but the       *)
(* destructor quits the loop.                                              *)
THEOREM LoopUsable == ThreadSpec => []ReturnedLoopUsable
<1>1. ThreadInv => ReturnedLoopUsable
  BY DEF ThreadInv, ThreadTypeOK, StarterPcs, WorkerPcs, WorkerDrivesLoop, StarterFollows,
         StaysInLoop, ReturnedLoopUsable, AfterLoop
<1>2. QED
  BY <1>1, ThreadInvariant, PTL

(* No thread outlives the EventLoopThread whose loop only its destructor   *)
(* quits.                                                                  *)
THEOREM NoThreadOutlives == ThreadSpec => []WorkerEndsFirst
  BY ThreadInvariant, PTL DEF ThreadInv

-----------------------------------------------------------------------------
(* The thread is an owner, and the starter a caller, as EventLoop knows    *)
(* them.                                                                   *)
LEMMA ThreadStepIsLoopStep == [ThreadNext]_allVars => [Next]_vars
<1> SUFFICES ASSUME [ThreadNext]_allVars PROVE Next \/ UNCHANGED vars
  BY DEF vars
<1>1. CASE StarterStep
  BY <1>1, StarterAssumption
  DEF StarterStep, ThreadStarted, WaitForLoop, DtorQuit, DtorWakeup, DtorJoin, Next,
      CallerStep
<1>2. CASE WorkerStep
  BY <1>2
  DEF WorkerStep, WorkerBegin, ConstructLoop, InitCallbackReturns, PublishLoop, EnterLoop,
      RunLoop, UnpublishLoop, Unlock, DestroyLoop, Next
<1>3. CASE PollReturns \/ WorkerUserCode
  BY <1>3 DEF PollReturns, WorkerUserCode, Next, OwnerCall
<1>4. CASE UserCall \/ UserWakeup
  BY <1>4 DEF UserCall, UserWakeup, Next, CallerStep
<1>5. CASE StartThread \/ BeginDestruction \/ SpuriousWakeup
  BY <1>5 DEF StartThread, BeginDestruction, SpuriousWakeup
<1>6. QED
  BY <1>1, <1>2, <1>3, <1>4, <1>5 DEF ThreadNext, allVars

(* Every guarantee of EventLoop holds for the loop of an EventLoopThread ...*)
THEOREM ThreadDrivesEventLoop == ThreadSpec => DrivesEventLoop
<1>1. ThreadInit => Init
  BY DEF ThreadInit
<1>2. QED
  BY <1>1, ThreadStepIsLoopStep, PTL DEF ThreadSpec, DrivesEventLoop, Spec

(* ... in particular that no wakeup is lost: whoever calls queueInLoop()   *)
(* or quit() on the pointer startLoop() returned, and the destructor,      *)
(* never leave the worker asleep on it.                                    *)
THEOREM ThreadNeverSleepsOnWork == ThreadSpec => [](NoLostWakeup /\ TypeOK)
  BY ThreadDrivesEventLoop, WakeupNotLost, TypeCorrect, PTL DEF DrivesEventLoop
=============================================================================
