--------------------------- MODULE MCEchoServerDemo ---------------------------
(* EchoServerDemo for TLC: three clients, two of them on the same loop.     *)
EXTENDS EchoServerDemo
=============================================================================
