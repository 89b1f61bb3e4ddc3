-------------------------- MODULE MCEventLoopThread --------------------------
(* EventLoopThread, and with it EventLoop, for TLC: three tasks, so that a  *)
(* batch, the queue behind it and a task on its way exist at once; the      *)
(* starter and one more user thread as the two callers besides the owner.   *)
EXTENDS EventLoopThread
=============================================================================
