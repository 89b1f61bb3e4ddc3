---------------------------- MODULE MessageStream ----------------------------
(***************************************************************************)
(* What a TcpConnection promises the threads that send messages on it, as  *)
(* the peer sees it: a stream of units that each thread's messages enter   *)
(* whole and in the order they were sent, and of which the FIN cuts off    *)
(* nothing while the connection is open.  Nothing is said of the order     *)
(* between threads, nor that a message of another thread than the loop's   *)
(* enters the stream before the FIN.                                       *)
(***************************************************************************)
EXTENDS Naturals, Sequences, Functions

CONSTANTS Msgs, MsgLen, LoopThread, Users

VARIABLES
    sent,     \* per thread, the messages it has sent
    stream,   \* the units that have entered the stream
    written,  \* how many of them the kernel has taken
    fin,      \* the FIN follows what is written
    open,     \* the connection has not been reported down
    broken    \* the peer has reset it

vars == <<sent, stream, written, fin, open, broken>>

Init ==
    /\ sent = [s \in Users \cup {LoopThread} |-> <<>>]
    /\ stream = <<>> /\ written = 0
    /\ fin = FALSE /\ open = TRUE /\ broken = FALSE

Parts(m) == [i \in 1 .. MsgLen |-> <<m, i>>]

Entered == {unit[1] : unit \in Range(stream)}

New(m) == \A s \in DOMAIN sent : m \notin Range(sent[s])

\* m, which comes next of its thread's messages as long as the connection is open
IsNext(m) ==
    \E s \in DOMAIN sent : \E i \in DOMAIN sent[s] :
        /\ sent[s][i] = m
        /\ open => \A j \in 1 .. i - 1 : sent[s][j] \in Entered

\* m enters the stream, and is written at once if nothing is ahead of it
Enters(m) ==
    /\ m \notin Entered
    /\ fin => ~open
    /\ stream' = stream \o Parts(m)
    /\ \/ written' = written
       \/ /\ written = Len(stream) /\ ~fin /\ ~broken
          /\ written' \in written .. Len(stream')

\* another thread sends m ...
Submit(u, m) ==
    /\ open /\ ~fin
    /\ New(m)
    /\ sent' = [sent EXCEPT ![u] = Append(@, m)]
    /\ UNCHANGED <<stream, written, fin, open, broken>>

\* ... and the loop takes it up
Enter(m) ==
    /\ IsNext(m)
    /\ Enters(m)
    /\ UNCHANGED <<sent, fin, open, broken>>

\* the loop's own messages enter when they are sent, or are lost with the connection
SendNow(m) ==
    /\ open /\ ~fin
    /\ New(m)
    /\ sent' = [sent EXCEPT ![LoopThread] = Append(@, m)]
    /\ Enters(m) \/ (broken /\ UNCHANGED <<stream, written>>)
    /\ UNCHANGED <<fin, open, broken>>

\* a backlog is written, and the FIN sent behind the last of it
Write ==
    /\ ~fin /\ ~broken
    /\ written' \in written + 1 .. Len(stream)
    /\ fin' \in {FALSE, written' = Len(stream)}
    /\ UNCHANGED <<sent, stream, open, broken>>

Finish ==
    /\ open => written = Len(stream)
    /\ fin' = TRUE
    /\ UNCHANGED <<sent, stream, written, open, broken>>

Close ==
    /\ open' = FALSE
    /\ UNCHANGED <<sent, stream, written, fin, broken>>

Break ==
    /\ broken' = TRUE
    /\ UNCHANGED <<sent, stream, written, fin, open>>

Next ==
    \/ \E u \in Users, m \in Msgs : Submit(u, m)
    \/ \E m \in Msgs : Enter(m) \/ SendNow(m)
    \/ Write \/ Finish \/ Close \/ Break

Spec == Init /\ [][Next]_vars
=============================================================================
