------------------------------ MODULE TaskQueue ------------------------------
(***************************************************************************)
(* What EventLoop::runInLoop() and EventLoop::queueInLoop() promise their  *)
(* callers, with no threads, eventfd or batches in sight: the loop thread  *)
(* executes one task at a time; a queued task starts after every task that *)
(* was queued before it; a task the loop thread runs by itself starts at   *)
(* once; no task is executed twice.                                        *)
(***************************************************************************)
EXTENDS Sequences, Functions

CONSTANT Tasks

VARIABLES queue,  \* the tasks accepted and not started yet, oldest first
          ran     \* the tasks started so far

vars == <<queue, ran>>

Fresh(t) == t \notin ran \cup Range(queue)

Init == queue = <<>> /\ ran = {}

\* queueInLoop(t), by any thread
Submit(t) ==
    /\ Fresh(t)
    /\ queue' = Append(queue, t)
    /\ UNCHANGED ran

\* the loop starts the oldest queued task
RunHead ==
    /\ queue # <<>>
    /\ ran' = ran \cup {Head(queue)}
    /\ queue' = Tail(queue)

\* runInLoop(t) by the loop thread itself
RunNow(t) ==
    /\ Fresh(t)
    /\ ran' = ran \cup {t}
    /\ UNCHANGED queue

Next == RunHead \/ \E t \in Tasks : Submit(t) \/ RunNow(t)

Spec == Init /\ [][Next]_vars
=============================================================================
