---------------------------- MODULE MCEPollPoller ----------------------------
(* EPollPoller for TLC: two channels in turn on one descriptor, one more on *)
(* another, and an array that one ready descriptor fills.                   *)
EXTENDS EPollPoller

CONSTANTS a1, a2, b, fdA, fdB

MCChannels == {a1, a2, b}
MCFds == {fdA, fdB}
MCFd == [c \in MCChannels |-> IF c = b THEN fdB ELSE fdA]
=============================================================================
