--------------------------- MODULE EventLoopThread ---------------------------
(***************************************************************************)
(* An EventLoopThread (core/eventloopthread.cpp, core/thread.cpp): the     *)
(* worker that constructs, publishes, runs and destroys an EventLoop on    *)
(* its own stack, and the starter, the thread that calls startLoop() and   *)
(* later destroys the EventLoopThread.  The loop is the one of module      *)
(* EventLoop; its owner is the worker, and the starter is one of its       *)
(* callers.                                                                *)
(***************************************************************************)
EXTENDS EventLoop

CONSTANT Starter  \* the owner of the EventLoopThread object

ASSUME StarterAssumption == Starter \in Callers

VARIABLES
    starterPc,   \* where the starter is in startLoop() and ~EventLoopThread()
    workerPc,    \* where the worker is in Thread::start()'s lambda and threadFunc()
    sem,         \* the semaphore of Thread::start() has been posted
    mutexHeld,   \* the worker is inside its last section under m_mutex
    mLoop,       \* m_loop is not null
    loopAlive,   \* the EventLoop object exists
    userQuit     \* history: user code, not the destructor, has called quit()

threadVars == <<starterPc, workerPc, sem, mutexHeld, mLoop, loopAlive, userQuit>>
allVars == <<vars, threadVars>>

StarterPcs == {"new", "semWait", "lock", "condWait", "ready",
               "quitting", "waking", "joining", "destroyed"}

WorkerPcs == {"none", "begin", "construct", "init", "publish", "published",
              "looping", "unlock", "destroy", "exited"}

ThreadTypeOK ==
    /\ starterPc \in StarterPcs
    /\ workerPc \in WorkerPcs
    /\ {sem, mutexHeld, mLoop, loopAlive, userQuit} \subseteq BOOLEAN
    /\ loopAlive <=> workerPc \in {"init", "publish", "published", "looping",
                                   "unlock", "destroy"}
    /\ mLoop <=> workerPc \in {"published", "looping"}
    /\ mutexHeld <=> workerPc = "unlock"

ThreadInit ==
    /\ Init
    /\ starterPc = "new"
    /\ workerPc = "none"
    /\ sem = FALSE
    /\ mutexHeld = FALSE
    /\ mLoop = FALSE
    /\ loopAlive = FALSE
    /\ userQuit = FALSE

-----------------------------------------------------------------------------
(* startLoop()                                                             *)

\* Thread::start(): the thread is created
StartThread ==
    /\ starterPc = "new"
    /\ starterPc' = "semWait"
    /\ workerPc' = "begin"
    /\ UNCHANGED <<vars, sem, mutexHeld, mLoop, loopAlive, userQuit>>

\* ... and its sem_wait() returns
ThreadStarted ==
    /\ starterPc = "semWait"
    /\ sem
    /\ starterPc' = "lock"
    /\ UNCHANGED <<vars, workerPc, sem, mutexHeld, mLoop, loopAlive, userQuit>>

\* mutant: startLoop() waits once, without a predicate
WaitForLoopUnchecked ==
    /\ starterPc = "lock"
    /\ ~mutexHeld
    /\ starterPc' = "ready"
    /\ UNCHANGED <<vars, workerPc, sem, mutexHeld, mLoop, loopAlive, userQuit>>

\* m_cond.wait() tests its predicate under m_mutex: return, or sleep
WaitForLoop ==
    /\ starterPc = "lock"
    /\ ~mutexHeld
    /\ starterPc' = IF mLoop THEN "ready" ELSE "condWait"
    /\ UNCHANGED <<vars, workerPc, sem, mutexHeld, mLoop, loopAlive, userQuit>>

SpuriousWakeup ==
    /\ starterPc = "condWait"
    /\ starterPc' = "lock"
    /\ UNCHANGED <<vars, workerPc, sem, mutexHeld, mLoop, loopAlive, userQuit>>

-----------------------------------------------------------------------------
(* ~EventLoopThread(), by a starter with no call of its own in flight and  *)
(* after the other threads' calls: the caller of a destructor owes that    *)

\* if (m_loop), read without m_mutex; a null m_loop skips quit() and join(),
\* and ~Thread() detaches the worker
BeginDestruction ==
    /\ starterPc = "ready"
    /\ NobodyWaking
    /\ starterPc' = IF mLoop THEN "quitting" ELSE "destroyed"
    /\ UNCHANGED <<vars, workerPc, sem, mutexHeld, mLoop, loopAlive, userQuit>>

\* mutant: the destructor stores m_quit and forgets the wakeup()
DtorQuitSilently ==
    /\ starterPc = "quitting"
    /\ quit' = TRUE
    /\ starterPc' = "joining"
    /\ UNCHANGED <<loopPc, looping, queueVars, wakeupFd, activeChannels, callerPc,
                   workerPc, sem, mutexHeld, mLoop, loopAlive, userQuit>>

DtorQuit ==
    /\ starterPc = "quitting"
    /\ Quit(Starter)
    /\ starterPc' = "waking"
    /\ UNCHANGED <<workerPc, sem, mutexHeld, mLoop, loopAlive, userQuit>>

DtorWakeup ==
    /\ starterPc = "waking"
    /\ Wakeup(Starter)
    /\ starterPc' = "joining"
    /\ UNCHANGED <<workerPc, sem, mutexHeld, mLoop, loopAlive, userQuit>>

\* mutant: the worker is not joined
DtorDetaches ==
    /\ starterPc = "joining"
    /\ starterPc' = "destroyed"
    /\ UNCHANGED <<vars, workerPc, sem, mutexHeld, mLoop, loopAlive, userQuit>>

DtorJoin ==
    /\ starterPc = "joining"
    /\ workerPc = "exited"
    /\ starterPc' = "destroyed"
    /\ UNCHANGED <<vars, workerPc, sem, mutexHeld, mLoop, loopAlive, userQuit>>

-----------------------------------------------------------------------------
(* The worker                                                              *)

\* m_tid is stored and the semaphore posted
WorkerBegin ==
    /\ workerPc = "begin"
    /\ workerPc' = "construct"
    /\ sem' = TRUE
    /\ UNCHANGED <<vars, starterPc, mutexHeld, mLoop, loopAlive, userQuit>>

ConstructLoop ==
    /\ workerPc = "construct"
    /\ workerPc' = "init"
    /\ loopAlive' = TRUE
    /\ UNCHANGED <<vars, starterPc, sem, mutexHeld, mLoop, userQuit>>

\* the user's m_callback(&loop) returns
InitCallbackReturns ==
    /\ workerPc = "init"
    /\ workerPc' = "publish"
    /\ UNCHANGED <<vars, starterPc, sem, mutexHeld, mLoop, loopAlive, userQuit>>

\* mutant: m_loop is set without notify_one()
PublishLoopSilently ==
    /\ workerPc = "publish"
    /\ workerPc' = "published"
    /\ mLoop' = TRUE
    /\ UNCHANGED <<vars, starterPc, sem, mutexHeld, loopAlive, userQuit>>

\* m_loop = &loop and notify_one(), under m_mutex
PublishLoop ==
    /\ workerPc = "publish"
    /\ workerPc' = "published"
    /\ mLoop' = TRUE
    /\ starterPc' = IF starterPc = "condWait" THEN "lock" ELSE starterPc
    /\ UNCHANGED <<vars, sem, mutexHeld, loopAlive, userQuit>>

EnterLoop ==
    /\ workerPc = "published"
    /\ Loop
    /\ workerPc' = "looping"
    /\ UNCHANGED <<starterPc, sem, mutexHeld, mLoop, loopAlive, userQuit>>

RunLoop ==
    /\ workerPc = "looping"
    /\ LoopStep
    /\ UNCHANGED threadVars

PollReturns ==
    /\ workerPc = "looping"
    /\ PollReady \/ PollNothing
    /\ UNCHANGED threadVars

\* user code on the worker: the init callback, IO callbacks and functors
WorkerUserCode ==
    /\ workerPc = "init" \/ loopPc \in {"handler", "functor"}
    /\ \/ OwnerQuit /\ userQuit' = TRUE
       \/ /\ \E t \in Tasks : OwnerQueueInLoop(t) \/ OwnerRunInLoop(t)
          /\ UNCHANGED userQuit
    /\ UNCHANGED <<starterPc, workerPc, sem, mutexHeld, mLoop, loopAlive>>

\* mutant: m_loop keeps pointing to the loop
UnpublishLoopForgotten ==
    /\ workerPc = "looping"
    /\ loopPc = "stopped"
    /\ workerPc' = "unlock"
    /\ mutexHeld' = TRUE
    /\ UNCHANGED <<vars, starterPc, sem, mLoop, loopAlive, userQuit>>

\* loop() has returned: lock m_mutex, m_loop = nullptr
UnpublishLoop ==
    /\ workerPc = "looping"
    /\ loopPc = "stopped"
    /\ workerPc' = "unlock"
    /\ mLoop' = FALSE
    /\ mutexHeld' = TRUE
    /\ UNCHANGED <<vars, starterPc, sem, loopAlive, userQuit>>

Unlock ==
    /\ workerPc = "unlock"
    /\ workerPc' = "destroy"
    /\ mutexHeld' = FALSE
    /\ UNCHANGED <<vars, starterPc, sem, mLoop, loopAlive, userQuit>>

\* ~EventLoop() closes the eventfd as threadFunc() returns
DestroyLoop ==
    /\ workerPc = "destroy"
    /\ workerPc' = "exited"
    /\ loopAlive' = FALSE
    /\ UNCHANGED <<vars, starterPc, sem, mutexHeld, mLoop, userQuit>>

-----------------------------------------------------------------------------
\* threads that got the loop from startLoop() use it, until the destructor is
\* called or the loop they stopped is gone
UserCall ==
    /\ starterPc = "ready"
    /\ loopAlive
    /\ \E c \in Callers :
          \/ Quit(c) /\ userQuit' = TRUE
          \/ \E t \in Tasks : QueueInLoop(c, t) /\ UNCHANGED userQuit
    /\ UNCHANGED <<starterPc, workerPc, sem, mutexHeld, mLoop, loopAlive>>

UserWakeup ==
    /\ starterPc = "ready"
    /\ \E c \in Callers : Wakeup(c)
    /\ UNCHANGED threadVars

StarterStep == ThreadStarted \/ WaitForLoop \/ DtorQuit \/ DtorWakeup \/ DtorJoin

WorkerStep ==
    \/ WorkerBegin \/ ConstructLoop \/ InitCallbackReturns \/ PublishLoop
    \/ EnterLoop \/ RunLoop \/ UnpublishLoop \/ Unlock \/ DestroyLoop

ThreadNext ==
    \/ StartThread \/ BeginDestruction \/ SpuriousWakeup
    \/ StarterStep \/ WorkerStep \/ PollReturns \/ WorkerUserCode
    \/ UserCall \/ UserWakeup

ThreadSpec == ThreadInit /\ [][ThreadNext]_allVars

(* Both threads are scheduled, user code returns, epoll_wait returns when  *)
(* the eventfd is readable.                                                *)
ThreadFairness ==
    /\ WF_allVars(StarterStep)
    /\ WF_allVars(WorkerStep)
    /\ WF_allVars(UserWakeup)
    /\ WF_allVars(PollReturns /\ wakeupFd)

FairThreadSpec == ThreadSpec /\ ThreadFairness

\* ... and epoll_wait also returns after its ten seconds
TimedThreadSpec == FairThreadSpec /\ WF_allVars(PollReturns)

-----------------------------------------------------------------------------
(* Safety                                                                  *)

DestructorCalled == starterPc \in {"quitting", "waking", "joining", "destroyed"}

\* The pointer startLoop() returned names a constructed and initialised loop
\* for as long as nobody but the destructor quits it; when the destructor
\* starts it finds m_loop set, so it does quit and join.
ReturnedLoopUsable ==
    ~userQuit /\ starterPc \in {"ready", "quitting"} => mLoop /\ loopAlive

\* If nobody but the destructor quits the loop, then no thread outlives the
\* EventLoopThread: the worker has left threadFunc() and released m_mutex.
WorkerEndsFirst ==
    ~userQuit /\ starterPc = "destroyed" => workerPc = "exited" /\ ~mutexHeld

\* "As long as the EventLoopThread exists its thread does not exit, and its
\* EventLoop stays valid" (eventloopthreadpool.cpp:49), for the destructor's own
\* use of m_loop: quit() stores m_quit and then writes the eventfd of a loop that
\* must still exist, even if nobody else ever quits.
QuitUsesLiveLoop == ~userQuit /\ starterPc \in {"quitting", "waking"} => loopAlive

\* The thread drives its loop as EventLoop allows, the starter being one more
\* caller: every guarantee of EventLoop!Spec holds for the loop of the thread.
DrivesEventLoop == Spec

-----------------------------------------------------------------------------
(* Liveness                                                                *)

\* startLoop() returns: neither the semaphore nor the condition variable
\* loses the worker's signal.  (A loop that user code has quit may be gone before
\* startLoop() looks.)
StartReturns == starterPc = "semWait" ~> starterPc = "ready" \/ userQuit

\* A destructor called once the worker is past its reset of m_quit returns.
DestructorReturnsOnceLooping ==
    starterPc = "quitting" /\ loopPc \notin {"created", "starting"} ~>
        starterPc = "destroyed"

\* "When the EventLoop gets the quit() request, loop() returns ... and the
\* worker ends" (eventloopthread.cpp:44): the destructor always returns.
DestructorReturns ==
    starterPc = "quitting" /\ ~userQuit ~> starterPc = "destroyed"
=============================================================================
