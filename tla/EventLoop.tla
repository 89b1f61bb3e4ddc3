------------------------------ MODULE EventLoop ------------------------------
(***************************************************************************)
(* One EventLoop (core/eventloop.cpp): the thread that owns it, inside     *)
(* loop(), and the other threads that call queueInLoop()/runInLoop() and   *)
(* quit() on it.  A step is a section of code that runs without another    *)
(* thread seeing it half done: the two critical sections of m_mutex, an    *)
(* atomic store, one system call.                                          *)
(*                                                                         *)
(* The eventfd counter is a Boolean: read() resets it to zero and write()  *)
(* makes it positive (a full counter stays readable), so only "readable or *)
(* not" matters.  User code (an IO callback, a functor, the code around    *)
(* loop()) is the nondeterministic caller of the Owner* actions.           *)
(***************************************************************************)
EXTENDS Sequences, Functions

CONSTANTS Tasks,          \* the functors ever submitted, each of them once
          Callers,        \* the threads other than the owner
          IoChannels,     \* the user's channels registered in the poller
          WakeupChannel   \* m_wakeupChannel

ASSUME ChannelAssumption == WakeupChannel \notin IoChannels

VARIABLES
    loopPc,                  \* where the owner thread is, see LoopPcs
    looping,                 \* m_looping
    quit,                    \* m_quit
    pendingFunctors,         \* m_pendingFunctors
    functors,                \* doPendingFunctors()' batch, what is left of it
    callingPendingFunctors,  \* m_callingPendingFunctors
    wakeupFd,                \* the eventfd is readable
    activeChannels,          \* what is left to dispatch of m_activeChannels
    callerPc,                \* per caller: "wakeup" between its store and write()
    ran,                     \* history: the tasks started
    early                    \* history: tasks the owner queued outside loop()

vars == <<loopPc, looping, quit, pendingFunctors, functors,
          callingPendingFunctors, wakeupFd, activeChannels, callerPc, ran, early>>

(* created, stopped: the owner is outside loop(), running user code;       *)
(* starting: between m_looping = true and m_quit = false; while: before    *)
(* the loop test; poll: in epoll_wait; dispatch: between two channels;     *)
(* handler: in an IO callback; swap: before doPendingFunctors' lock; run:  *)
(* between two functors; functor: in one.                                  *)
LoopPcs == {"created", "starting", "while", "poll", "dispatch", "handler",
            "swap", "run", "functor", "stopped"}

Outside  == {"created", "stopped"}
UserCode == Outside \cup {"handler", "functor"}
Calling  == {"swap", "run", "functor"}

TypeOK ==
    /\ loopPc \in LoopPcs
    /\ looping \in BOOLEAN
    /\ looping <=> loopPc \notin Outside
    /\ quit \in BOOLEAN
    /\ pendingFunctors \in Seq(Tasks)
    /\ functors \in Seq(Tasks)
    /\ callingPendingFunctors \in BOOLEAN
    /\ callingPendingFunctors <=> loopPc \in Calling
    /\ wakeupFd \in BOOLEAN
    /\ activeChannels \subseteq IoChannels \cup {WakeupChannel}
    /\ callerPc \in [Callers -> {"idle", "wakeup"}]
    /\ ran \subseteq Tasks
    /\ early \subseteq Tasks

Init ==
    /\ loopPc = "created"
    /\ looping = FALSE
    /\ quit = FALSE
    /\ pendingFunctors = <<>>
    /\ functors = <<>>
    /\ callingPendingFunctors = FALSE
    /\ wakeupFd = FALSE
    /\ activeChannels = {}
    /\ callerPc = [c \in Callers |-> "idle"]
    /\ ran = {}
    /\ early = {}

Fresh(t) == t \notin ran \cup Range(pendingFunctors) \cup Range(functors)

queueVars == <<pendingFunctors, functors, callingPendingFunctors, ran, early>>

-----------------------------------------------------------------------------
(* loop()                                                                  *)

\* m_looping = true; a loop that has stopped may be run again
Loop ==
    /\ loopPc \in Outside
    /\ loopPc' = "starting"
    /\ looping' = TRUE
    /\ UNCHANGED <<quit, queueVars, wakeupFd, activeChannels, callerPc>>

ClearQuit ==
    /\ loopPc = "starting"
    /\ loopPc' = "while"
    /\ quit' = FALSE
    /\ UNCHANGED <<looping, queueVars, wakeupFd, activeChannels, callerPc>>

EnterPoll ==
    /\ loopPc = "while"
    /\ ~quit
    /\ loopPc' = "poll"
    /\ activeChannels' = {}
    /\ UNCHANGED <<looping, quit, queueVars, wakeupFd, callerPc>>

\* mutant: m_looping is not reset
LeaveLoopStillLooping ==
    /\ loopPc = "while"
    /\ quit
    /\ loopPc' = "stopped"
    /\ UNCHANGED <<looping, quit, queueVars, wakeupFd, activeChannels, callerPc>>

LeaveLoop ==
    /\ loopPc = "while"
    /\ quit
    /\ loopPc' = "stopped"
    /\ looping' = FALSE
    /\ UNCHANGED <<quit, queueVars, wakeupFd, activeChannels, callerPc>>

\* epoll_wait() returns some of the ready channels: with more ready than the
\* event array holds, the wakeup channel may be left for the next call
PollReady ==
    /\ loopPc = "poll"
    /\ \E ready \in SUBSET (IoChannels \cup {WakeupChannel}) :
          /\ ready # {}
          /\ WakeupChannel \in ready => wakeupFd
          /\ activeChannels' = ready
    /\ loopPc' = "dispatch"
    /\ UNCHANGED <<looping, quit, queueVars, wakeupFd, callerPc>>

\* epoll_wait() times out (kPollTimeMs) or is interrupted by a signal
PollNothing ==
    /\ loopPc = "poll"
    /\ loopPc' = "dispatch"
    /\ UNCHANGED <<looping, quit, queueVars, wakeupFd, activeChannels, callerPc>>

HandleRead ==
    /\ loopPc = "dispatch"
    /\ WakeupChannel \in activeChannels
    /\ activeChannels' = activeChannels \ {WakeupChannel}
    /\ wakeupFd' = FALSE
    /\ UNCHANGED <<loopPc, looping, quit, queueVars, callerPc>>

HandleIo(ch) ==
    /\ loopPc = "dispatch"
    /\ ch \in activeChannels
    /\ activeChannels' = activeChannels \ {ch}
    /\ loopPc' = "handler"
    /\ UNCHANGED <<looping, quit, queueVars, wakeupFd, callerPc>>

HandlerReturn ==
    /\ loopPc = "handler"
    /\ loopPc' = "dispatch"
    /\ UNCHANGED <<looping, quit, queueVars, wakeupFd, activeChannels, callerPc>>

-----------------------------------------------------------------------------
(* doPendingFunctors()                                                     *)

BeginPending ==
    /\ loopPc = "dispatch"
    /\ activeChannels = {}
    /\ loopPc' = "swap"
    /\ callingPendingFunctors' = TRUE
    /\ UNCHANGED <<looping, quit, pendingFunctors, functors, ran, early,
                   wakeupFd, activeChannels, callerPc>>

\* mutant: the functors are copied, not swapped out
SwapCopies ==
    /\ loopPc = "swap"
    /\ loopPc' = "run"
    /\ functors' = pendingFunctors
    /\ UNCHANGED <<looping, quit, pendingFunctors, callingPendingFunctors, ran, early,
                   wakeupFd, activeChannels, callerPc>>

Swap ==
    /\ loopPc = "swap"
    /\ loopPc' = "run"
    /\ functors' = pendingFunctors
    /\ pendingFunctors' = functors
    /\ UNCHANGED <<looping, quit, callingPendingFunctors, ran, early,
                   wakeupFd, activeChannels, callerPc>>

RunFunctor ==
    /\ loopPc = "run"
    /\ functors # <<>>
    /\ loopPc' = "functor"
    /\ ran' = ran \cup {Head(functors)}
    /\ functors' = Tail(functors)
    /\ UNCHANGED <<looping, quit, pendingFunctors, callingPendingFunctors, early,
                   wakeupFd, activeChannels, callerPc>>

FunctorReturn ==
    /\ loopPc = "functor"
    /\ loopPc' = "run"
    /\ UNCHANGED <<looping, quit, queueVars, wakeupFd, activeChannels, callerPc>>

EndPending ==
    /\ loopPc = "run"
    /\ functors = <<>>
    /\ loopPc' = "while"
    /\ callingPendingFunctors' = FALSE
    /\ UNCHANGED <<looping, quit, pendingFunctors, functors, ran, early,
                   wakeupFd, activeChannels, callerPc>>

-----------------------------------------------------------------------------
(* User code on the owner thread                                           *)

\* queueInLoop()'s section under m_mutex
Enqueue(t) ==
    /\ pendingFunctors' = Append(pendingFunctors, t)
    /\ UNCHANGED functors

\* mutant: the owner never writes the eventfd
OwnerNeverWakes == FALSE

\* only a call from inside a functor writes the eventfd
OwnerWakes == callingPendingFunctors

\* queueInLoop()
OwnerQueueInLoop(t) ==
    /\ loopPc \in UserCode
    /\ Fresh(t)
    /\ Enqueue(t)
    /\ wakeupFd' = (wakeupFd \/ OwnerWakes)
    /\ early' = IF loopPc \in Outside THEN early \cup {t} ELSE early
    /\ UNCHANGED <<loopPc, looping, quit, callingPendingFunctors,
                   activeChannels, callerPc, ran>>

\* runInLoop() calls the functor at once
OwnerRunInLoop(t) ==
    /\ loopPc \in UserCode
    /\ Fresh(t)
    /\ ran' = ran \cup {t}
    /\ UNCHANGED <<loopPc, looping, quit, pendingFunctors, functors,
                   callingPendingFunctors, wakeupFd, activeChannels, callerPc, early>>

OwnerQuit ==
    /\ loopPc \in UserCode
    /\ quit' = TRUE
    /\ UNCHANGED <<loopPc, looping, queueVars, wakeupFd, activeChannels, callerPc>>

-----------------------------------------------------------------------------
(* The other threads                                                       *)

\* queueInLoop(), or runInLoop() which calls it, up to its wakeup()
QueueInLoop(c, t) ==
    /\ callerPc[c] = "idle"
    /\ Fresh(t)
    /\ Enqueue(t)
    /\ callerPc' = [callerPc EXCEPT ![c] = "wakeup"]
    /\ UNCHANGED <<loopPc, looping, quit, callingPendingFunctors,
                   wakeupFd, activeChannels, ran, early>>

\* mutant: quit() does not call wakeup()
QuitSilently(c) ==
    /\ callerPc[c] = "idle"
    /\ quit' = TRUE
    /\ UNCHANGED <<loopPc, looping, queueVars, wakeupFd, activeChannels, callerPc>>

\* quit(): the store to m_quit
Quit(c) ==
    /\ callerPc[c] = "idle"
    /\ quit' = TRUE
    /\ callerPc' = [callerPc EXCEPT ![c] = "wakeup"]
    /\ UNCHANGED <<loopPc, looping, queueVars, wakeupFd, activeChannels>>

\* mutant: wakeup() writes nothing
WakeupWritesNothing(c) ==
    /\ callerPc[c] = "wakeup"
    /\ callerPc' = [callerPc EXCEPT ![c] = "idle"]
    /\ UNCHANGED <<loopPc, looping, quit, queueVars, wakeupFd, activeChannels>>

\* the write() of wakeup(), which ends both calls
Wakeup(c) ==
    /\ callerPc[c] = "wakeup"
    /\ callerPc' = [callerPc EXCEPT ![c] = "idle"]
    /\ wakeupFd' = TRUE
    /\ UNCHANGED <<loopPc, looping, quit, queueVars, activeChannels>>

-----------------------------------------------------------------------------
LoopStep ==
    \/ ClearQuit \/ EnterPoll \/ LeaveLoop \/ HandleRead
    \/ \E ch \in IoChannels : HandleIo(ch)
    \/ HandlerReturn \/ BeginPending \/ Swap \/ RunFunctor \/ FunctorReturn \/ EndPending

OwnerCall ==
    \/ OwnerQuit
    \/ \E t \in Tasks : OwnerQueueInLoop(t) \/ OwnerRunInLoop(t)

CallerStep(c) ==
    \/ Quit(c) \/ Wakeup(c)
    \/ \E t \in Tasks : QueueInLoop(c, t)

Next ==
    \/ Loop \/ LoopStep \/ PollReady \/ PollNothing \/ OwnerCall
    \/ \E c \in Callers : CallerStep(c)

Spec == Init /\ [][Next]_vars

(* The owner thread is scheduled and user code returns; epoll_wait returns *)
(* when the eventfd is readable; a thread that has queued or quit reaches  *)
(* its write().  Nothing is asked of the poll timeout, of IO events, or of *)
(* anyone calling loop().                                                  *)
Fairness ==
    /\ WF_vars(LoopStep)
    /\ WF_vars(PollReady /\ wakeupFd)
    /\ \A c \in Callers : WF_vars(Wakeup(c))

FairSpec == Spec /\ Fairness

-----------------------------------------------------------------------------
(* Safety                                                                  *)

NobodyWaking == \A c \in Callers : callerPc[c] = "idle"

\* The loop never sleeps on work: when it is in epoll_wait, the eventfd is not
\* readable and no thread is about to write it, then nobody has asked it to
\* quit and no task is queued, except those the owner itself queued before
\* calling loop(), for which queueInLoop() writes no eventfd.
NoLostWakeup ==
    loopPc = "poll" /\ ~wakeupFd /\ NobodyWaking =>
        ~quit /\ Range(pendingFunctors) \subseteq early

\* Whatever the interleaving of swaps, callers and nested calls, the loop
\* implements a first-in first-out executor: no accepted task is dropped (a
\* stopped loop keeps it), overtaken by a later one, or run twice.
TQ == INSTANCE TaskQueue WITH queue <- functors \o pendingFunctors
ImplementsTaskQueue == TQ!Spec

(* The inductive invariant behind NoLostWakeup.  A task that is queued     *)
(* while the owner is past the swap, or not in loop(), must be announced   *)
(* by a readable eventfd or by a caller about to make it so.               *)
Announced == wakeupFd \/ ~NobodyWaking

Unattended == {"created", "starting", "while", "poll", "run", "functor", "stopped"}

Covered ==
    /\ loopPc \in Unattended => Announced \/ Range(pendingFunctors) \subseteq early
    /\ loopPc = "poll" => Announced \/ ~quit
    /\ loopPc \notin {"run", "functor"} => functors = <<>>

-----------------------------------------------------------------------------
(* Liveness                                                                *)

\* A task queued by another thread, or by the loop's own callbacks, is started
\* without the help of the poll timeout or of an IO event, unless the loop
\* leaves loop() first.
PromptlyRuns ==
    \A t \in Tasks :
        looping /\ t \in Range(pendingFunctors) \ early ~> t \in ran \/ ~looping

\* Once loop() has passed its reset of m_quit, a quit() by any thread makes it
\* return.
QuitStops == quit /\ loopPc \notin Outside \cup {"starting"} ~> ~looping
=============================================================================
