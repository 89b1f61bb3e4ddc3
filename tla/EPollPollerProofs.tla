-------------------------- MODULE EPollPollerProofs --------------------------
(***************************************************************************)
(* Proofs about EPollPoller, for every set of channels, any sharing of     *)
(* descriptors between them, and any size of the event array.              *)
(***************************************************************************)
EXTENDS EPollPoller, TLAPS

LEMMA WithoutProperties ==
    ASSUME NEW f, NEW x
    PROVE  /\ DOMAIN Without(f, x) = DOMAIN f \ {x}
           /\ \A y \in DOMAIN f \ {x} : Without(f, x)[y] = f[y]
  BY DEF Without, Restrict

-----------------------------------------------------------------------------
\* A descriptor belongs to at most one channel whose owner has not closed it.
OneOwner ==
    \A c, d \in Channels :
        /\ life[c] \in {"alive", "removed"} /\ life[d] \in {"alive", "removed"}
        /\ Fd[c] = Fd[d]
        => c = d

\* Channels that are not in use are as the constructor or remove() leaves them.
UnusedIsNew == \A c \in Channels : life[c] # "alive" => index[c] = "kNew"

\* The kernel's entry for a descriptor is the one the channel of that descriptor made.
EntriesAgree ==
    \A fd \in DOMAIN interest :
        /\ Fd[interest[fd].channel] = fd
        /\ index[interest[fd].channel] = "kAdded"
        /\ interest[fd].events = events[interest[fd].channel]

\* ... and so is the one in m_channels.
MapAgrees ==
    \A fd \in DOMAIN channels :
        /\ Fd[channels[fd]] = fd
        /\ index[channels[fd]] # "kNew"

Registered ==
    \A c \in Channels :
        /\ index[c] = "kAdded" => Fd[c] \in DOMAIN interest
        /\ index[c] # "kNew" => Fd[c] \in DOMAIN channels

ActiveAlive == \A c \in active : life[c] = "alive"

PollerInv ==
    /\ TypeOK
    /\ NeverFatal
    /\ OneOwner
    /\ UnusedIsNew
    /\ EntriesAgree
    /\ MapAgrees
    /\ Registered
    /\ ActiveAlive

LEMMA PollerInvInit == Init => PollerInv
  BY PollerAssumption
  DEF Init, Empty, PollerInv, TypeOK, NeverFatal, OneOwner, UnusedIsNew, EntriesAgree,
      MapAgrees, Registered, ActiveAlive, Indices, Range

\* What is registered for the descriptor of a channel in use is registered for it.
LEMMA OwnEntry ==
    ASSUME PollerInv, NEW c \in Channels, life[c] \in {"alive", "removed"}
    PROVE  /\ Fd[c] \in DOMAIN interest => interest[Fd[c]].channel = c
           /\ Fd[c] \in DOMAIN channels => channels[Fd[c]] = c
<1>1. ASSUME Fd[c] \in DOMAIN interest PROVE interest[Fd[c]].channel = c
  <2> DEFINE d == interest[Fd[c]].channel
  <2>1. d \in Channels
    BY <1>1 DEF PollerInv, TypeOK
  <2>2. Fd[d] = Fd[c] /\ life[d] = "alive"
    BY <1>1, <2>1 DEF PollerInv, EntriesAgree, UnusedIsNew
  <2>3. QED  BY <2>1, <2>2 DEF PollerInv, OneOwner
<1>2. ASSUME Fd[c] \in DOMAIN channels PROVE channels[Fd[c]] = c
  <2> DEFINE d == channels[Fd[c]]
  <2>1. d \in Channels
    BY <1>2 DEF PollerInv, TypeOK, Range
  <2>2. Fd[d] = Fd[c] /\ life[d] = "alive"
    BY <1>2, <2>1 DEF PollerInv, MapAgrees, UnusedIsNew
  <2>3. QED  BY <2>1, <2>2 DEF PollerInv, OneOwner
<1>3. QED  BY <1>1, <1>2

(* Whatever m_index says, update() leads to epoll_ctl() calls that succeed *)
(* and leave the descriptor registered for the new events, or not at all.  *)
LEMMA UpdateEffect ==
    ASSUME PollerInv, NEW c \in Channels, life[c] = "alive",
           NEW newEvents \in SUBSET Events, UpdateChannel(c, newEvents)
    PROVE  /\ failed' = failed
           /\ events' = [events EXCEPT ![c] = newEvents]
           /\ \/ /\ index' = [index EXCEPT ![c] = "kAdded"]
                 /\ interest' = Put(interest, Fd[c], [channel |-> c, events |-> newEvents])
              \/ /\ index' = [index EXCEPT ![c] = "kDeleted"]
                 /\ interest' = Without(interest, Fd[c])
           /\ \/ channels' = Put(channels, Fd[c], c)
              \/ channels' = channels /\ index[c] # "kNew"
<1>1. index[c] \in Indices /\ index \in [Channels -> Indices] /\ failed = FALSE
  BY DEF PollerInv, TypeOK, NeverFatal
<1>2. Fd[c] \in DOMAIN interest <=> index[c] = "kAdded"
  BY OwnEntry DEF PollerInv, EntriesAgree, Registered
<1>3. CASE index[c] = "kNew"
  BY <1>1, <1>2, <1>3 DEF UpdateChannel, Ctl
<1>4. CASE index[c] = "kDeleted"
  BY <1>1, <1>2, <1>4 DEF UpdateChannel, Ctl
<1>5. CASE index[c] = "kAdded" /\ newEvents = {}
  BY <1>1, <1>2, <1>5 DEF UpdateChannel, Ctl
<1>6. CASE index[c] = "kAdded" /\ newEvents # {}
  <2>1. index' = [index EXCEPT ![c] = "kAdded"]
    BY <1>1, <1>6 DEF UpdateChannel
  <2>2. QED  BY <1>1, <1>2, <1>6, <2>1 DEF UpdateChannel, Ctl
<1>7. QED  BY <1>1, <1>3, <1>4, <1>5, <1>6 DEF Indices

LEMMA UpdateKeeps ==
    ASSUME PollerInv, NEW c \in Channels, life[c] = "alive",
           NEW newEvents \in SUBSET Events, UpdateChannel(c, newEvents),
           UNCHANGED <<life, ready, capacity, active, phase>>
    PROVE  PollerInv'
<1> DEFINE entry == [channel |-> c, events |-> newEvents]
<1> USE DEF PollerInv
<1>1. /\ index \in [Channels -> Indices] /\ events \in [Channels -> SUBSET Events]
      /\ Fd \in [Channels -> Fds]
  BY PollerAssumption DEF TypeOK
<1>2. /\ failed' = failed
      /\ events' = [events EXCEPT ![c] = newEvents]
      /\ index' = [index EXCEPT ![c] = index'[c]] /\ index'[c] \in {"kAdded", "kDeleted"}
  BY <1>1, UpdateEffect
<1>3. /\ \A fd \in DOMAIN interest' \ {Fd[c]} :
            fd \in DOMAIN interest /\ interest'[fd] = interest[fd]
      /\ \A fd \in DOMAIN interest \ {Fd[c]} : fd \in DOMAIN interest'
      /\ Fd[c] \in DOMAIN interest' => interest'[Fd[c]] = entry /\ index'[c] = "kAdded"
      /\ index'[c] = "kAdded" => Fd[c] \in DOMAIN interest'
  <2>1. CASE /\ index' = [index EXCEPT ![c] = "kAdded"]
             /\ interest' = Put(interest, Fd[c], entry)
    <3>1. /\ DOMAIN interest' = DOMAIN interest \cup {Fd[c]}
          /\ interest'[Fd[c]] = entry
          /\ \A fd \in DOMAIN interest \ {Fd[c]} : interest'[fd] = interest[fd]
      BY <2>1 DEF Put
    <3>2. QED  BY <1>1, <2>1, <3>1
  <2>2. CASE /\ index' = [index EXCEPT ![c] = "kDeleted"]
             /\ interest' = Without(interest, Fd[c])
    <3>1. /\ DOMAIN interest' = DOMAIN interest \ {Fd[c]}
          /\ \A fd \in DOMAIN interest \ {Fd[c]} : interest'[fd] = interest[fd]
      BY <2>2, WithoutProperties, Zenon
    <3>2. QED  BY <1>1, <2>2, <3>1
  <2>3. QED  BY <2>1, <2>2, UpdateEffect
<1>4. /\ DOMAIN channels' = DOMAIN channels \cup {Fd[c]}
      /\ channels'[Fd[c]] = c
      /\ \A fd \in DOMAIN channels \ {Fd[c]} : channels'[fd] = channels[fd]
  <2>1. CASE channels' = Put(channels, Fd[c], c)
    BY <2>1 DEF Put
  <2>2. CASE channels' = channels /\ index[c] # "kNew"
    BY <2>2, OwnEntry DEF Registered
  <2>3. QED  BY <2>1, <2>2, UpdateEffect
<1>5. \A fd \in DOMAIN interest \ {Fd[c]} : interest[fd].channel # c
  BY DEF EntriesAgree
<1>6. TypeOK'
  <2>1. entry \in [channel : Channels, events : SUBSET Events]
    OBVIOUS
  <2>2. \A fd \in DOMAIN interest' :
            fd \in Fds /\ interest'[fd] \in [channel : Channels, events : SUBSET Events]
    BY <1>1, <1>3, <2>1 DEF TypeOK
  <2>3. DOMAIN channels' \subseteq Fds /\ Range(channels') \subseteq Channels
    BY <1>1, <1>4 DEF TypeOK, Range
  <2>4. QED  BY <1>1, <1>2, <2>2, <2>3 DEF TypeOK, Indices
<1>7. EntriesAgree'
  <2> SUFFICES ASSUME NEW fd \in DOMAIN interest'
               PROVE  /\ Fd[interest'[fd].channel] = fd
                      /\ index'[interest'[fd].channel] = "kAdded"
                      /\ interest'[fd].events = events'[interest'[fd].channel]
    BY DEF EntriesAgree
  <2>1. CASE fd = Fd[c]  BY <1>1, <1>2, <1>3, <2>1
  <2>2. CASE fd # Fd[c]
    <3>1. interest[fd].channel \in Channels \ {c}
      BY <1>3, <1>5, <2>2 DEF TypeOK
    <3>2. QED  BY <1>1, <1>2, <1>3, <2>2, <3>1 DEF EntriesAgree
  <2>3. QED  BY <2>1, <2>2
<1>8. MapAgrees'
  <2> SUFFICES ASSUME NEW fd \in DOMAIN channels'
               PROVE  Fd[channels'[fd]] = fd /\ index'[channels'[fd]] # "kNew"
    BY DEF MapAgrees
  <2>1. CASE fd = Fd[c]  BY <1>2, <1>4, <2>1
  <2>2. CASE fd # Fd[c]
    <3>1. channels[fd] \in Channels
      BY <1>4, <2>2 DEF TypeOK, Range
    <3>2. QED  BY <1>1, <1>2, <1>4, <2>2, <3>1 DEF MapAgrees
  <2>3. QED  BY <2>1, <2>2
<1>9. Registered'
  <2> SUFFICES ASSUME NEW d \in Channels
               PROVE  /\ index'[d] = "kAdded" => Fd[d] \in DOMAIN interest'
                      /\ index'[d] # "kNew" => Fd[d] \in DOMAIN channels'
    BY DEF Registered
  <2>1. CASE d = c  BY <1>3, <1>4, <2>1
  <2>2. CASE d # c
    <3>1. index'[d] = index[d]
      BY <1>1, <1>2, <2>2
    <3>2. index[d] = "kAdded" => Fd[d] # Fd[c]
      BY <2>2 DEF OneOwner, UnusedIsNew
    <3>3. QED  BY <1>3, <1>4, <3>1, <3>2 DEF Registered
  <2>3. QED  BY <2>1, <2>2
<1>10. OneOwner' /\ UnusedIsNew' /\ ActiveAlive' /\ NeverFatal'
  BY <1>1, <1>2 DEF OneOwner, UnusedIsNew, ActiveAlive, NeverFatal
<1>11. QED  BY <1>6, <1>7, <1>8, <1>9, <1>10

LEMMA RemoveKeeps ==
    ASSUME PollerInv, NEW c \in Channels, Remove(c)
    PROVE  PollerInv'
<1> USE DEF PollerInv
<1>1. /\ index \in [Channels -> Indices] /\ life[c] = "alive"
      /\ index' = [index EXCEPT ![c] = "kNew"] /\ life' = [life EXCEPT ![c] = "removed"]
      /\ Fd \in [Channels -> Fds]
      /\ UNCHANGED <<events, ready, capacity, active, phase>> /\ active = {}
  BY PollerAssumption DEF TypeOK, Remove
<1>2. Fd[c] \in DOMAIN interest <=> index[c] = "kAdded"
  BY <1>1, OwnEntry DEF EntriesAgree, Registered
<1>3. /\ failed' = failed
      /\ DOMAIN interest' = DOMAIN interest \ {Fd[c]}
      /\ \A fd \in DOMAIN interest' : interest'[fd] = interest[fd]
  <2>1. CASE index[c] = "kAdded"
    <3>1. failed' = failed /\ interest' = Without(interest, Fd[c])
      BY <1>2, <2>1 DEF Remove, DelIfAdded, Ctl, TypeOK, NeverFatal
    <3>2. /\ DOMAIN interest' = DOMAIN interest \ {Fd[c]}
          /\ \A fd \in DOMAIN interest \ {Fd[c]} : interest'[fd] = interest[fd]
      BY <3>1, WithoutProperties, Zenon
    <3>3. QED  BY <3>1, <3>2
  <2>2. CASE index[c] # "kAdded"
    BY <1>2, <2>2 DEF Remove, DelIfAdded
  <2>3. QED  BY <2>1, <2>2
<1>4. /\ DOMAIN channels' = DOMAIN channels \ {Fd[c]}
      /\ \A fd \in DOMAIN channels' : channels'[fd] = channels[fd]
  BY WithoutProperties DEF Remove, EraseFromMap
<1>5. TypeOK'
  <2>1. Range(channels') \subseteq Range(channels)
    BY <1>4 DEF Range
  <2>2. QED  BY <1>1, <1>3, <1>4, <2>1 DEF TypeOK, Indices
<1>6. EntriesAgree'
  <2> SUFFICES ASSUME NEW fd \in DOMAIN interest'
               PROVE  /\ Fd[interest'[fd].channel] = fd
                      /\ index'[interest'[fd].channel] = "kAdded"
                      /\ interest'[fd].events = events'[interest'[fd].channel]
    BY DEF EntriesAgree
  <2>1. interest[fd].channel \in Channels \ {c}
    BY <1>3 DEF TypeOK, EntriesAgree
  <2>2. QED  BY <1>1, <1>3, <2>1 DEF EntriesAgree
<1>7. MapAgrees'
  <2> SUFFICES ASSUME NEW fd \in DOMAIN channels'
               PROVE  Fd[channels'[fd]] = fd /\ index'[channels'[fd]] # "kNew"
    BY DEF MapAgrees
  <2>1. channels[fd] \in Channels \ {c}
    BY <1>4 DEF TypeOK, MapAgrees, Range
  <2>2. QED  BY <1>1, <1>4, <2>1 DEF MapAgrees
<1>8. Registered'
  <2> SUFFICES ASSUME NEW d \in Channels, d # c, index[d] # "kNew"
               PROVE  /\ index'[d] = "kAdded" => Fd[d] \in DOMAIN interest'
                      /\ index'[d] # "kNew" => Fd[d] \in DOMAIN channels'
    BY <1>1 DEF Registered
  <2>1. Fd[d] # Fd[c]
    BY <1>1 DEF OneOwner, UnusedIsNew
  <2>2. QED  BY <1>1, <1>3, <1>4, <2>1 DEF Registered
<1>9. OneOwner' /\ UnusedIsNew' /\ ActiveAlive' /\ NeverFatal'
  BY <1>1, <1>3 DEF OneOwner, UnusedIsNew, ActiveAlive, NeverFatal, TypeOK
<1>10. QED  BY <1>5, <1>6, <1>7, <1>8, <1>9

LEMMA PollerInvStep ==
    ASSUME PollerInv, [Next]_vars
    PROVE  PollerInv'
<1>1. ASSUME NEW c \in Channels, Create(c) PROVE PollerInv'
  <2>1. OneOwner'
    BY <1>1 DEF Create, PollerInv, TypeOK, OneOwner
  <2>2. UnusedIsNew' /\ ActiveAlive'
    BY <1>1 DEF Create, PollerInv, TypeOK, UnusedIsNew, ActiveAlive
  <2>3. TypeOK'
    BY <1>1 DEF Create, PollerInv, TypeOK
  <2>4. QED
    BY <1>1, <2>1, <2>2, <2>3
    DEF Create, PollerInv, NeverFatal, EntriesAgree, MapAgrees, Registered
<1>2. ASSUME NEW c \in Channels, SetEvents(c) PROVE PollerInv'
  <2>1. events[c] \in SUBSET Events
    BY DEF PollerInv, TypeOK
  <2>2. PICK newEvents \in SUBSET Events : UpdateChannel(c, newEvents)
    BY <1>2, <2>1 DEF SetEvents
  <2>3. QED  BY <1>2, <2>2, UpdateKeeps DEF SetEvents
<1>3. ASSUME NEW c \in Channels, Remove(c) PROVE PollerInv'
  BY <1>3, RemoveKeeps
<1>4. ASSUME NEW c \in Channels, Free(c) PROVE PollerInv'
  \* remove() has left nothing for close() to take out
  <2>1. Fd[c] \notin DOMAIN interest
    BY <1>4, OwnEntry DEF Free, PollerInv, EntriesAgree, UnusedIsNew
  <2>2. DOMAIN interest' = DOMAIN interest /\ \A fd \in DOMAIN interest : interest'[fd] = interest[fd]
    <3>1. /\ DOMAIN interest' = DOMAIN interest \ {Fd[c]}
          /\ \A fd \in DOMAIN interest \ {Fd[c]} : interest'[fd] = interest[fd]
      BY <1>4, WithoutProperties, Zenon DEF Free
    <3>2. QED  BY <2>1, <3>1
  <2>3. UNCHANGED <<events, index, channels, failed, ready, capacity, active, phase>>
    BY <1>4 DEF Free
  <2>4. TypeOK' /\ EntriesAgree' /\ Registered'
    BY <1>4, <2>2, <2>3 DEF Free, PollerInv, TypeOK, EntriesAgree, Registered
  <2>5. OneOwner' /\ UnusedIsNew' /\ ActiveAlive'
    BY <1>4, <2>3 DEF Free, PollerInv, TypeOK, OneOwner, UnusedIsNew, ActiveAlive
  <2>6. QED  BY <2>3, <2>4, <2>5 DEF PollerInv, NeverFatal, MapAgrees
<1>5. ASSUME NEW fd \in Fds, SocketChanges(fd) PROVE PollerInv'
  <2>1. ready' \in [Fds -> SUBSET Events]
    BY <1>5 DEF SocketChanges, PollerInv, TypeOK
  <2>2. QED
    BY <1>5, <2>1 DEF SocketChanges, PollerInv, TypeOK, NeverFatal, OneOwner, UnusedIsNew,
                      EntriesAgree, MapAgrees, Registered, ActiveAlive
<1>6. CASE LoopStep
  <2> USE DEF PollerInv, NeverFatal, OneOwner, UnusedIsNew, EntriesAgree, MapAgrees,
              Registered, ActiveAlive
  <2>1. CASE Poll
    <3>1. PICK fds \in SUBSET Reportable : FillActiveChannels(fds) /\ capacity' = Grown(Cardinality(fds))
      BY <2>1 DEF Poll
    <3>2. \A c \in active' : c \in Channels /\ life[c] = "alive"
      BY <3>1 DEF FillActiveChannels, Reportable, TypeOK
    <3>3. capacity' \in Nat \ {0}
      BY <3>1 DEF Grown, TypeOK
    <3>4. QED  BY <2>1, <3>2, <3>3 DEF Poll, TypeOK
  <2>2. CASE BeginFunctors  BY <2>2 DEF BeginFunctors, TypeOK
  <2>3. CASE EndFunctors  BY <2>3 DEF EndFunctors, TypeOK
  <2>4. ASSUME NEW c \in Channels, HandleEvent(c) PROVE PollerInv'
    BY <2>4 DEF HandleEvent, TypeOK
  <2>5. QED  BY <1>6, <2>1, <2>2, <2>3, <2>4 DEF LoopStep
<1>7. CASE UNCHANGED vars
  BY <1>7 DEF vars, PollerInv, TypeOK, NeverFatal, OneOwner, UnusedIsNew, EntriesAgree,
              MapAgrees, Registered, ActiveAlive
<1>8. QED
  BY <1>1, <1>2, <1>3, <1>4, <1>5, <1>6, <1>7 DEF Next

LEMMA PollerInvariant == Spec => []PollerInv
  BY PollerInvInit, PollerInvStep, PTL DEF Spec

-----------------------------------------------------------------------------
(* Every variable keeps its type; between rounds nothing is left to        *)
(* dispatch.                                                               *)
THEOREM PollerTypeCorrect == Spec => []TypeOK
  BY PollerInvariant, PTL DEF PollerInv

(* No sequence of updates, removals and reuse of descriptors makes         *)
(* epoll_ctl() fail.                                                       *)
THEOREM CtlNeverFails == Spec => []NeverFatal
  BY PollerInvariant, PTL DEF PollerInv

(* m_index, m_events, m_channels and the kernel agree on every channel.    *)
THEOREM KernelAgrees == Spec => []RegistrationAgrees
<1>1. PollerInv => RegistrationAgrees
  <2> SUFFICES ASSUME PollerInv, NEW c \in Channels
               PROVE  /\ index[c] = "kAdded" <=>
                            Fd[c] \in DOMAIN interest /\
                            interest[Fd[c]] = [channel |-> c, events |-> events[c]]
                      /\ index[c] # "kNew" <=>
                            Fd[c] \in DOMAIN channels /\ channels[Fd[c]] = c
    BY DEF RegistrationAgrees
  <2>1. ASSUME index[c] # "kNew"
        PROVE  Fd[c] \in DOMAIN channels /\ channels[Fd[c]] = c
    BY <2>1, OwnEntry DEF PollerInv, Registered, UnusedIsNew
  <2>2. ASSUME Fd[c] \in DOMAIN channels, channels[Fd[c]] = c
        PROVE  index[c] # "kNew"
    BY <2>2 DEF PollerInv, MapAgrees
  <2>3. ASSUME index[c] = "kAdded"
        PROVE  Fd[c] \in DOMAIN interest /\
               interest[Fd[c]] = [channel |-> c, events |-> events[c]]
    <3>1. Fd[c] \in DOMAIN interest /\ interest[Fd[c]].channel = c
      BY <2>3, OwnEntry DEF PollerInv, Registered, UnusedIsNew
    <3>2. interest[Fd[c]] \in [channel : Channels, events : SUBSET Events]
      BY <3>1 DEF PollerInv, TypeOK
    <3>3. interest[Fd[c]].events = events[c]
      BY <3>1 DEF PollerInv, EntriesAgree
    <3>4. QED  BY <3>1, <3>2, <3>3
  <2>4. ASSUME Fd[c] \in DOMAIN interest,
               interest[Fd[c]] = [channel |-> c, events |-> events[c]]
        PROVE  index[c] = "kAdded"
    <3>1. interest[Fd[c]].channel = c
      BY <2>4
    <3>2. QED  BY <2>4, <3>1 DEF PollerInv, EntriesAgree
  <2>5. QED  BY <2>1, <2>2, <2>3, <2>4
<1>2. QED  BY <1>1, PollerInvariant, PTL

(* What is freed is not registered, not mapped and not about to be         *)
(* dispatched.                                                             *)
THEOREM NothingDangles == Spec => []NoDanglingChannel
<1>1. PollerInv => NoDanglingChannel
  BY DEF PollerInv, NoDanglingChannel, UnusedIsNew, EntriesAgree, MapAgrees, ActiveAlive,
         Range
<1>2. QED  BY <1>1, PollerInvariant, PTL
=============================================================================
