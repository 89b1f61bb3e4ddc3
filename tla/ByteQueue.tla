------------------------------ MODULE ByteQueue ------------------------------
(***************************************************************************)
(* What a Buffer is to TcpConnection and to the user: a queue of bytes.    *)
(* Bytes enter at one end in the order given and leave at the other; the   *)
(* room inside, and where the bytes lie in it, is nobody's business.       *)
(***************************************************************************)
EXTENDS Integers, Sequences

CONSTANT Inputs  \* what may enter at once, sequences of bytes

VARIABLES
    bytes,  \* the bytes that have entered and not left
    call    \* the last call: what it put in, or how many bytes it took out

vars == <<bytes, call>>

Init == bytes = <<>> /\ call = <<"take", 0>>

Put ==
    \E data \in Inputs :
        /\ call' = <<"put", data>>
        /\ bytes' = bytes \o data

Take ==
    \E n \in 0 .. Len(bytes) :
        /\ call' = <<"take", n>>
        /\ bytes' = SubSeq(bytes, n + 1, Len(bytes))

Spec == Init /\ [][Put \/ Take]_vars
=============================================================================
