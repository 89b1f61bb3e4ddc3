--------------------------- MODULE MCTcpConnection ---------------------------
(* TcpConnection for TLC.  Messages, and users, are interchangeable.        *)
EXTENDS TcpConnection, TLC

Symmetry == Permutations(Msgs) \cup Permutations(Users)
=============================================================================
