--------------------------- MODULE ConnectionLife ---------------------------
(***************************************************************************)
(* What a TcpServer promises about each of its connections, with no loops, *)
(* threads or reference counts in sight: it is reported up, then down, its *)
(* channel is taken out of its loop, and only then is its memory released. *)
(* It never goes back, and nothing is released early unless the server     *)
(* itself is coming to its end.                                            *)
(***************************************************************************)
EXTENDS FiniteSets

CONSTANT Conns

VARIABLES stage,   \* how far each connection has come
          ending   \* the server is being destroyed

vars == <<stage, ending>>

Live == {"new", "up", "down", "removed"}

Init ==
    /\ stage = [c \in Conns |-> "none"]
    /\ ending = FALSE

Move(c, from, to) ==
    /\ stage[c] \in from
    /\ \E s \in to : stage' = [stage EXCEPT ![c] = s]
    /\ UNCHANGED ending

\* newConnection(); on a loop of its own thread the connection is up at once
Accept(c) == ~ending /\ Move(c, {"none"}, {"new", "up"})

Up(c) == Move(c, {"new"}, {"up"})

Down(c) == Move(c, {"up"}, {"down"})

\* connectDestroyed(), which reports down if nobody has
Remove(c) == Move(c, {"up", "down"}, {"removed", "freed"})

Release(cs) ==
    /\ \A c \in cs : stage[c] = "removed" \/ (ending /\ stage[c] \in Live)
    /\ stage' = [c \in Conns |-> IF c \in cs THEN "freed" ELSE stage[c]]
    /\ UNCHANGED ending

End == ending' = TRUE /\ UNCHANGED stage

Next ==
    \/ \E c \in Conns : Accept(c) \/ Up(c) \/ Down(c) \/ Remove(c)
    \/ \E cs \in SUBSET Conns : Release(cs)
    \/ End

Spec == Init /\ [][Next]_vars
=============================================================================
