----------------------------- MODULE EPollPoller -----------------------------
(***************************************************************************)
(* The poller of one loop (core/epollpoller.cpp, core/channel.cpp) and the *)
(* kernel's epoll set it drives: registration of channels through kNew,    *)
(* kAdded and kDeleted, the m_channels map, epoll_wait with an event array *)
(* that doubles when full, and the dispatch of the active channels to user *)
(* code, which creates, updates and removes channels as it runs.           *)
(*                                                                         *)
(* Everything happens on the loop's thread.  Channels are removed and      *)
(* freed by pending functors only, as TcpServer::removeConnectionInLoop()  *)
(* arranges with queueInLoop(connectDestroyed); ~Acceptor() and            *)
(* ~EventLoop() run outside of loop(), which is the same phase here.       *)
(***************************************************************************)
EXTENDS Naturals, FiniteSets, Functions

CONSTANTS
    Channels,       \* the Channel objects ever made
    Fds,            \* their file descriptors ...
    Fd,             \* ... Fd[c] is the one of c; closed descriptors are reused
    InitCapacity    \* kInitEventListSize

ASSUME PollerAssumption ==
    /\ Fd \in [Channels -> Fds]
    /\ InitCapacity \in Nat \ {0}

VARIABLES
    life,        \* per channel: "none", "alive", "removed" or "freed"
    events,      \* per channel: m_events
    index,       \* per channel: m_index
    channels,    \* m_channels, a partial map from descriptors to channels
    interest,    \* the epoll set: from descriptors to channel and events
    failed,      \* history: an epoll_ctl() has failed
    ready,       \* per descriptor: what the kernel has to report
    capacity,    \* m_events.size()
    active,      \* what is left to dispatch of m_activeChannels
    phase        \* "poll", "dispatch" or "functors"

vars == <<life, events, index, channels, interest, failed, ready, capacity, active, phase>>

Events == {"in", "out"}

Indices == {"kNew", "kAdded", "kDeleted"}

TypeOK ==
    /\ life \in [Channels -> {"none", "alive", "removed", "freed"}]
    /\ events \in [Channels -> SUBSET Events]
    /\ index \in [Channels -> Indices]
    /\ DOMAIN channels \subseteq Fds /\ Range(channels) \subseteq Channels
    /\ DOMAIN interest \subseteq Fds
    /\ \A fd \in DOMAIN interest :
          interest[fd] \in [channel : Channels, events : SUBSET Events]
    /\ failed \in BOOLEAN
    /\ ready \in [Fds -> SUBSET Events]
    /\ capacity \in Nat \ {0}
    /\ active \subseteq Channels
    /\ phase \in {"poll", "dispatch", "functors"}
    /\ phase # "dispatch" => active = {}

Empty == [fd \in {} |-> {}]

Init ==
    /\ life = [c \in Channels |-> "none"]
    /\ events = [c \in Channels |-> {}]
    /\ index = [c \in Channels |-> "kNew"]
    /\ channels = Empty
    /\ interest = Empty
    /\ failed = FALSE
    /\ ready = [fd \in Fds |-> {}]
    /\ capacity = InitCapacity
    /\ active = {}
    /\ phase = "functors"

-----------------------------------------------------------------------------
(* epoll_ctl(), as EPollPoller::update() calls it.  A failed ADD or MOD is *)
(* LOG_FATAL.                                                              *)

Put(f, fd, v) == [x \in DOMAIN f \cup {fd} |-> IF x = fd THEN v ELSE f[x]]
Without(f, fd) == Restrict(f, DOMAIN f \ {fd})

Ctl(op, c, newEvents) ==
    LET fd    == Fd[c]
        known == fd \in DOMAIN interest
        entry == [channel |-> c, events |-> newEvents]
    IN /\ failed' = (failed \/ (known <=> op = "add"))
       /\ interest' =
            CASE op = "del" -> Without(interest, fd)
              [] op = "add" /\ ~known -> Put(interest, fd, entry)
              [] op = "mod" /\ known -> Put(interest, fd, entry)
              [] OTHER -> interest

\* Channel::update() after m_events has become newEvents
UpdateChannel(c, newEvents) ==
    /\ events' = [events EXCEPT ![c] = newEvents]
    /\ CASE index[c] = "kNew" ->
              /\ channels' = Put(channels, Fd[c], c)
              /\ index' = [index EXCEPT ![c] = "kAdded"]
              /\ Ctl("add", c, newEvents)
         [] index[c] = "kDeleted" ->
              /\ index' = [index EXCEPT ![c] = "kAdded"]
              /\ Ctl("add", c, newEvents)
              /\ UNCHANGED channels
         [] index[c] = "kAdded" /\ newEvents = {} ->
              /\ Ctl("del", c, newEvents)
              /\ index' = [index EXCEPT ![c] = "kDeleted"]
              /\ UNCHANGED channels
         [] index[c] = "kAdded" /\ newEvents # {} ->
              /\ Ctl("mod", c, newEvents)
              /\ UNCHANGED <<channels, index>>

-----------------------------------------------------------------------------
(* User code on the loop thread                                            *)

UserCode == phase \in {"dispatch", "functors"}

\* a socket is opened and a channel made for it
Create(c) ==
    /\ UserCode
    /\ life[c] = "none"
    /\ \A d \in Channels : Fd[d] = Fd[c] => life[d] \in {"none", "freed"}
    /\ life' = [life EXCEPT ![c] = "alive"]
    /\ ready' = [ready EXCEPT ![Fd[c]] = {}]
    /\ UNCHANGED <<events, index, channels, interest, failed, capacity, active, phase>>

\* enableReading(), disableReading(), enableWriting(), disableWriting() and
\* disableAll(): each updates the poller, also when m_events stays the same
SetEvents(c) ==
    /\ UserCode
    /\ life[c] = "alive"
    /\ \E e \in Events : \/ UpdateChannel(c, events[c] \cup {e})
                         \/ UpdateChannel(c, events[c] \ {e})
                         \/ UpdateChannel(c, {})
    /\ UNCHANGED <<life, ready, capacity, active, phase>>

\* mutants: DEL is always issued, or never
DelAlways(c) == Ctl("del", c, {})
DelNever(c) == UNCHANGED <<interest, failed>>

\* removeChannel() deletes from the epoll set a channel that is still in it ...
DelIfAdded(c) ==
    IF index[c] = "kAdded" THEN Ctl("del", c, {}) ELSE UNCHANGED <<interest, failed>>

\* mutant: the map is not touched
KeepInMap(c) == UNCHANGED channels

\* ... and erases it from m_channels
EraseFromMap(c) == channels' = Without(channels, Fd[c])

\* Channel::remove()
Remove(c) ==
    /\ phase = "functors"
    /\ life[c] = "alive"
    /\ EraseFromMap(c)
    /\ DelIfAdded(c)
    /\ index' = [index EXCEPT ![c] = "kNew"]
    /\ life' = [life EXCEPT ![c] = "removed"]
    /\ UNCHANGED <<events, ready, capacity, active, phase>>

\* the owner of a removed channel is destroyed and its descriptor closed,
\* which also takes a descriptor left in it out of the epoll set
Free(c) ==
    /\ phase = "functors"
    /\ life[c] = "removed"
    /\ life' = [life EXCEPT ![c] = "freed"]
    /\ interest' = Without(interest, Fd[c])
    /\ UNCHANGED <<events, index, channels, failed, ready, capacity, active, phase>>

-----------------------------------------------------------------------------
(* The loop                                                                *)

Reportable == {fd \in DOMAIN interest : ready[fd] \cap interest[fd].events # {}}

\* mutant: the event array never grows
GrownNever(n) == capacity

\* poll() doubles an event array that was filled
Grown(n) == IF n = capacity THEN 2 * capacity ELSE capacity

FillActiveChannels(fds) == active' = {interest[fd].channel : fd \in fds}

\* epoll_wait() fills as much of the event array as it can, with descriptors
\* of its choice; fillActiveChannels() takes the channels the kernel stored
Poll ==
    /\ phase = "poll"
    /\ \E fds \in SUBSET Reportable :
          /\ \/ fds = Reportable /\ Cardinality(fds) <= capacity
             \/ Cardinality(fds) = capacity
          /\ FillActiveChannels(fds)
          /\ capacity' = Grown(Cardinality(fds))
    /\ phase' = "dispatch"
    /\ UNCHANGED <<life, events, index, channels, interest, failed, ready>>

\* handleEvent() on one active channel; SetEvents and Create are what its
\* callbacks may do
HandleEvent(c) ==
    /\ phase = "dispatch"
    /\ c \in active
    /\ active' = active \ {c}
    /\ UNCHANGED <<life, events, index, channels, interest, failed, ready, capacity, phase>>

\* mutant: the functors run before every active channel was dispatched
BeginFunctorsEarly ==
    /\ phase = "dispatch"
    /\ phase' = "functors"
    /\ UNCHANGED <<life, events, index, channels, interest, failed, ready, capacity, active>>

BeginFunctors ==
    /\ phase = "dispatch"
    /\ active = {}
    /\ phase' = "functors"
    /\ UNCHANGED <<life, events, index, channels, interest, failed, ready, capacity, active>>

EndFunctors ==
    /\ phase = "functors"
    /\ phase' = "poll"
    /\ UNCHANGED <<life, events, index, channels, interest, failed, ready, capacity, active>>

\* the kernel's side of a socket changes
SocketChanges(fd) ==
    /\ \E e \in Events : ready' = [ready EXCEPT ![fd] = @ \cup {e}] \/
                         ready' = [ready EXCEPT ![fd] = @ \ {e}]
    /\ UNCHANGED <<life, events, index, channels, interest, failed, capacity, active, phase>>

LoopStep ==
    \/ Poll \/ BeginFunctors \/ EndFunctors
    \/ \E c \in Channels : HandleEvent(c)

Next ==
    \/ LoopStep
    \/ \E c \in Channels : Create(c) \/ SetEvents(c) \/ Remove(c) \/ Free(c)
    \/ \E fd \in Fds : SocketChanges(fd)

Spec == Init /\ [][Next]_vars

\* the loop goes on
FairSpec == Spec /\ WF_vars(LoopStep)

-----------------------------------------------------------------------------
(* Safety                                                                  *)

\* No sequence of updates, removals and reuse of descriptors makes epoll_ctl()
\* fail (for ADD and MOD that would be LOG_FATAL), so m_index never disagrees
\* with the kernel.
NeverFatal == ~failed

\* m_index, m_channels, m_events and the epoll set agree: a channel is in the
\* epoll set with its own events exactly when kAdded, and it is in m_channels
\* until it is removed.
RegistrationAgrees ==
    \A c \in Channels :
        /\ index[c] = "kAdded" <=>
              Fd[c] \in DOMAIN interest /\
              interest[Fd[c]] = [channel |-> c, events |-> events[c]]
        /\ index[c] # "kNew" <=>
              Fd[c] \in DOMAIN channels /\ channels[Fd[c]] = c

\* Nothing that is still to be dispatched, registered or mapped is freed: a
\* callback never runs on a freed channel, not even on the stale rest of a
\* round, and the kernel holds no pointer to one.
NoDanglingChannel ==
    \A c \in Channels : life[c] = "freed" =>
        /\ c \notin active
        /\ \A fd \in DOMAIN interest : interest[fd].channel # c
        /\ c \notin Range(channels)

-----------------------------------------------------------------------------
(* Liveness                                                                *)

\* However epoll_wait() chooses among more ready descriptors than the array
\* holds, a channel that stays registered and ready is dispatched: the array
\* doubles until it holds them all.
ReadyIsDispatched ==
    \A c \in Channels :
        []<>(c \in active) \/
        []<>(index[c] # "kAdded" \/ ready[Fd[c]] \cap events[c] = {})
=============================================================================
