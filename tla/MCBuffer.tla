------------------------------ MODULE MCBuffer ------------------------------
(* Buffer for TLC: an array of a few bytes, a stack array that one read can *)
(* overrun, and more bytes in a queue than the initial array holds.         *)
EXTENDS Buffer
=============================================================================
