----------------------------- MODULE MCTcpServer -----------------------------
(* TcpServer for TLC: up to two threads, so that the round robin wraps.     *)
EXTENDS TcpServer
=============================================================================
