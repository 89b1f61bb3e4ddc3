# muduo-core in TLA+

TLA+ models of the reactor core of this library (`src/core`) and of the demo built on
it (`snippet/EchoServerDemo`), checked with TLC on small instances, and proofs, checked
with TLAPS, of their safety properties for every value of the constants. Paths are
relative to the repository root; line numbers are those of this commit.
`PROJECT.json` maps every definition to the lines it models.

## 1. Inventory

One loop per thread. `TcpServer` owns an `Acceptor` on the main loop and a pool of
`EventLoopThread`s; each accepted socket becomes a `TcpConnection` on one loop, and
everything that happens to it happens on that loop's thread. Other threads reach it
only through `EventLoop::runInLoop()`/`queueInLoop()`, and through the two atomics
they read or write directly: `EventLoop::m_quit` and `TcpConnection::m_state`.

| component | state | operations | talks to | must be true of it |
|---|---|---|---|---|
| `EventLoop` | `m_looping`, `m_quit`, `m_pendingFunctors` (under `m_mutex`), `m_callingPendingFunctors`, the eventfd, the active channels | `loop`, `quit`, `runInLoop`, `queueInLoop`, `wakeup`, `handleRead`, `doPendingFunctors` | poller and channels (calls), other threads (queue and eventfd) | never sleeps on work or on a quit; tasks run in order and once; rounds end |
| `EventLoopThread`, `Thread` | `m_loop` (under `m_mutex`), the thread, the start semaphore | `startLoop`, `threadFunc`, destructor; `start`, `join`, detach | its loop; the user's init callback | the pointer returned is usable; start and destruction return; the thread ends first |
| `TcpConnection` | `m_state`, both buffers, its `Channel` and socket | the four event handlers, `send`, `sendFile`, `shutdown`, `connectEstablished`, `connectDestroyed` | its loop, user callbacks, the server, the peer | the stream is what was sent; FIN after the data; down once, before destruction |
| `Channel`, `EPollPoller` | `m_events`, `m_index`, `m_channels`, the epoll set, the event array | `enable*`, `disable*`, `remove`, `poll`, `updateChannel`, `removeChannel` | the kernel; all owners of channels | agrees with the kernel, never fails, never dispatches what is freed, starves nobody |
| `Buffer` | the array and two indices | `append`, `retrieve*`, `ensureWritableBytes`, `readFd`, `writeFd` | `TcpConnection` | a byte queue in bounded space |
| `TcpServer`, `EventLoopThreadPool`, `Acceptor` | the map of connections, the loops and the round-robin index, the listening socket | `start`, `newConnection`, `removeConnection`, `getNextLoop`, `listen`, accept; destructors | all of the above | every connection is destroyed on its own loop, exactly once, whatever dies first; a client is kept waiting by a lack of descriptors only as long as it lasts |
| `AutoQuitEchoServer` and its clients | two atomic counters, the ready flag | connection and message callbacks, `runClient`, `main` | `TcpServer`, the main loop's queue | no client is refused; the server quits when all clients have been and gone; the program ends |
| `Socket`, `InetAddress`, utilities | none that matters here | system calls, formatting, logging | | |

What makes the system hard: user code on the loop thread calls back into the loop it
runs on; any thread may queue, quit, send and shut down between any two steps of the
loop; the state a call has tested may change before the rest of the call runs; a loop
and its thread end while others hold a pointer to them; writes are partial and the
socket may break at any time. `hazards` in `PROJECT.json` lists the places.

## 2. Modules

    TaskQueue <--implements-- EventLoop
                                  ^
                                  | extends (composition)
                            EventLoopThread
    ConnectionLife <--implements-- TcpServer
    ByteQueue <--implements-- Buffer
    MessageStream <--implements-- TcpConnection
    EPollPoller             EchoServerDemo

The proofs about module `M` are in `MProofs`, which extends it; `EventLoopThreadProofs`
also extends `EventLoopProofs`, and the refinement of `ConnectionLife` has a module of
its own, `TcpServerLifeProofs`, which extends `TcpServerProofs`.

Each component module has an `MC` module that a `.cfg` instantiates; `EventLoop` shares
that of `EventLoopThread`, whose worker drives it. `\* mutant:`
marks operators that no specification uses: each is a definition of the model with a
plausible mistake, and every property a passing run checks is violated when one of them
replaces the definition that follows it (`mutants` in `PROJECT.json`).

**EventLoop.** `loopPc` is the place of the owner thread in `loop()` and
`doPendingFunctors()`. A step is what no other thread can see half done: a critical
section (`Enqueue`, `Swap`), an atomic store (`ClearQuit`, `Quit`), a system call
(`PollReady`, `HandleRead`, `Wakeup`). A caller's `queueInLoop()` is two steps, the
section under `m_mutex` and the `write()`; so is `quit()`. User code on the owner
thread is the set of `Owner*` actions, enabled outside `loop()`, in an IO callback and
in a functor. Each task is submitted once, which identifies it. The eventfd is a
Boolean. Exceptions out of functors are not modelled: the code catches none.

**TaskQueue** is what the callers are promised: a queued task starts after those
queued before it, a task run on the loop thread starts at once, none runs twice or
disappears. `EventLoop!ImplementsTaskQueue` maps its queue to
`functors \o pendingFunctors`, the rest of the batch followed by `m_pendingFunctors`.

**EventLoopThread** extends `EventLoop`: the worker is the loop's owner, the starter
one of its callers. `m_mutex` is only held across steps in the section that resets
`m_loop` (`mutexHeld`), the other sections are one step each. The condition variable
wakes spuriously. The destructor's read of `m_loop`, which takes no lock, is a step of
its own. `DrivesEventLoop` says that the composition is a behaviour of
`EventLoop!Spec`, so what is proved of that module holds here. `userQuit` remembers
that someone other than the destructor quit the loop.

**TcpConnection.** One connection; a step of the loop thread is a whole handler, the
accesses to `m_state` from other threads are steps of their own (`UserSend`,
`UserShutdown`, `UserSetState`, `UserQueue`). A message is a sequence of units a
`write()` may take one at a time; `wire` is what the kernel took. Reported events are a
snapshot (`revents`) and the handlers for one report run one after another, as
`Channel::handleEventWithGuard()` calls them. User code on the loop thread may run
between any two of them: it stands for the callbacks of this connection, of others, and
for other functors. The state of the socket (`inbox`, `peerFin`, `reset`, `sockError`)
gives the events of `Ready`. `TcpServer` appears as far as it destroys the connection,
from `removeConnectionInLoop()` or from its own destructor. `Ops` restricts what the
surrounding program does, see the runs. `write()` on a dead socket returns an error
here; `SIGPIPE`, which nothing in the library ignores, is outside of the model.
`overtaken` is history: whether another thread's `shutdown()` has stored
`kDisconnecting`, and whether it did so over a `kDisconnected` it had not seen.
Properties that such a store breaks exempt the connections it hit, and no other.
`paused` is history too: a producer that pauses in its high water mark callback and goes
on in its write complete callback, the use the two callbacks exist for; both are set.

**MessageStream** is what the senders and the peer are promised: units enter one stream,
a message whole and each thread's messages in order as long as the connection is open,
what the loop's own thread sends enters at once, and the FIN of an open connection comes
behind everything that has entered. It promises a message sent by another thread no
place before the FIN, because the code does not (`fin_overtakes`).
`TcpConnection!ImplementsStream` maps its stream to `wire \o outputBuffer`. A file
enters in parts, between which messages of others may come, and is left out of the
mapping's run.

**TcpServer** is the server, its `Acceptor` and its `EventLoopThreadPool` over the main
loop and up to `MaxThreads` loops of the pool. A loop is reduced to its rounds: test
`m_quit`, dispatch, swap the queue into `functors`, run them one by one (`ran`), drop the
vector. The vector matters because the `shared_ptr`s bound in it live until the round
ends. `Start` publishes the threads before they enter `loop()`, which resets `quit`.
`HandleClose` and `CloseCallback` are two steps, because the main thread may destroy the
server in between. `~TcpServer()` is the sequence `DestroyConnection` (one per entry of
the map), `DestroyAcceptor`, and `QuitThread`, `JoinThread` for each member of the pool;
it runs around `loop()` or in a functor of the main loop. A connection has the states the
server can tell apart; `limit`, chosen in `Init`, is the number of descriptors the
process has left, and a connection holds one as long as it is `Held`. A user's `shutdown()` is left to `TcpConnection`. A server that is
destroyed inside a callback of one of its own connections is not modelled.

**ConnectionLife** is what becomes of a connection: new, up, down, removed from its loop,
freed, in this order, cut short only by the end of the server. `Stage` maps to it: freed
is `~Held`, no `shared_ptr` in the map, a queue, a batch or a running handler.

**EPollPoller.** The channels of one loop and the kernel's epoll set, with descriptors
that are reused after a close. `failed` is set by an `epoll_ctl()` that fails, which the
code treats as fatal for ADD and MOD. Removal and destruction happen in functors, as
`TcpServer` arranges.

**EchoServerDemo** is `main2.cpp` with `AutoQuitEchoServer`. The server underneath does
what `ConnectionLife` says: connections are up, down, or ended with the server. What is
detailed is what the demo adds: `main()`'s handshake with the server's thread, the two
counters, each access to them a step of the pool's threads (`CountTotal`, `CountAlive`,
`Leave`, `TestQuit`), the functor that quits, and the clients' sockets. An exception in
a client ends the program (`main = "aborted"`). A message is `MsgLen` units that TCP may
deliver in two reads; the server's destruction sends a reset to clients that still wait.

**Buffer** maps the unread bytes to **ByteQueue**. `readFd()` receives any data that
fits the writable space and the stack array together. Lengths and contents are small;
index arithmetic, moving, growing and the detour over the stack are as in the code.
`retrieveAsString(len)` with `len` beyond the unread bytes is the caller's mistake.

## 3. Runs

| run | instance | what it shows |
|---|---|---|
| `loop_thread` | 3 tasks, 1 IO channel, the starter and one user thread | of the loop: `NoLostWakeup`, refinement of `TaskQueue`; tasks and quits take effect without the poll timeout (`PromptlyRuns`, `QuitStops`). Three tasks: one in the batch, one queued behind it, one on its way. The two callers race each other and the owner. Of the thread: the start handshake loses no signal (`StartReturns`), the loop returned is alive and published (`ReturnedLoopUsable`), no thread outlives its object (`WorkerEndsFirst`), a quit of a loop that runs ends the thread (`DestructorReturnsOnceLooping`) |
| `lost_quit` | same, 2 tasks | **violated** `DestructorReturns`, finding below |
| `quit_race` | same, 2 tasks | **violated** `QuitUsesLiveLoop` |
| `conn_any_thread` | 2 messages of 2 units, 2 user threads, every `Ops` | what holds for every program: refinement of `MessageStream`, EPOLLOUT exactly with a backlog (`WritingIffBacklog`), back pressure that neither leaves a producer paused on an empty buffer nor lets it go on above the mark (`FlowControlled`). And, with exemptions that each property states: down is reported once and `kDisconnected` is final, unless another thread's `shutdown()` revived the connection; a removed channel stays out of the loop, unless another thread shut it down; `connectDestroyed()` reports exactly what was not reported, unless the connection was half closed or revived |
| `conn_live` | a message, a file, a user thread | a shutdown completes, a close completes, a file is delivered |
| `fin_overtakes` | 2 messages, 1 user thread | **violated** `FinAfterAllData` |
| `server` | 2 clients, 0 to 2 threads, 1 or 2 descriptors, the server destroyed at any time | every connection whose loop exists is in the map, queued for destruction or destroyed, and one of the three (`Accounted`); when the destructor returns, the pool's threads have ended, and a server without threads has left no removal on the main loop (`CallsFindServer`); refinement of `ConnectionLife`; a close frees its connection (`CloseReleases`) and its descriptor, so that a client that waits at the limit is accepted (`AcceptsWhenRoom`); the destructor returns (`DestructionEnds`) |
| `lost_destroy` | same | **violated** `DestroyedOnOwnLoop` |
| `poller` | 3 channels, 2 descriptors, array of 1 | no failing `epoll_ctl()`, registration agrees with the kernel, nothing freed is reachable, nobody starves |
| `buffer` | array of 2 bytes, stack array of 2, 4 unread bytes | refinement of `ByteQueue`; array below twice the unread bytes |
| `echo_demo` | 3 clients, 2 IO threads, messages of 2 units | no client's `connect()` is refused (`NeverRefused`), and the program ends (`DemoEnds`), be it by the exception of a client that `quits_early` cuts off |
| `quits_early` | 2 clients, 2 IO threads, messages of 1 unit | **violated** `QuitsAfterAllLeft` |

Bounds: the tasks, messages, channels and threads are finite sets; `MsgLen` is the
number of parts a write can be split into, two being a partial write and its rest;
`HighWaterMark` is two units so that a single message can cross it and a second one
does not; `MaxReadable` bounds the unread bytes of a buffer; `InitCapacity` is one so
that two ready descriptors overrun the array; two threads and two clients let the round
robin wrap, put two connections on different loops or, with no or one thread, on the
same, and let a destructor quit one thread while the other still works; with one
descriptor the second client has to wait for the first to be freed. In the demo three
clients on two threads put two on the same loop and one beside them; `MaxAttempts` is 2
for the code's 40, since no attempt is ever refused. Nothing else
is bounded: the state spaces are finite. Deadlock is checked for the poller, which never
stops, and not for the thread, the connection, the server and the demo, which end. In
`loop_thread` the loop is called once and is left alone once it has returned; that
`loop()` may be called again, with tasks that a stopped loop kept, is in `EventLoop!Spec`,
for which the safety properties are proved.

Fairness. The loop thread keeps running and user code returns (`WF` of its steps);
`epoll_wait()` returns when the eventfd is readable, but nothing is assumed of its
timeout except in `TimedThreadSpec`, where the destructor still hangs; a caller that has
stored reaches its `write()`. For a connection, epoll is level triggered and the peer
keeps reading, so what stays ready is reported again and again (`SF` of `PollReady`);
unread data is finite (`SF` of a `HandleRead` that empties the inbox); a retried
`sendfile()` makes progress now and then; a call under way is finished and the main loop
runs what it was given. For the server, the main loop's rounds, each thread of the pool
and the destructor go on (`WF` of each), and what epoll reports is handled in the end
(`SF` of `Reported`: a dispatch may take place without it, and each event is reported
once). In the demo every thread goes on when it can. Nothing makes `main()` call `loop()`, a client close, or anyone end the server.
The poller's run assumes that the loop goes on and nothing of the kernel's choice among
ready descriptors.

## 4. What the violated runs show

- `lost_quit`: `startLoop()` returns once `m_loop` is published, before the worker calls
  `loop()`, which starts with `m_quit = false`. A destructor that runs in between has
  its quit overwritten, and `join()` waits for ever. Quits that come later are safe
  (`DestructorReturnsOnceLooping`).
- `quit_race`: `quit()` stores `m_quit` and then writes the eventfd. A loop that was
  awake returns on the store alone, `threadFunc()` destroys it, and the write uses a
  dead object and a closed, perhaps reused, descriptor.
- `fin_overtakes`: `send(a)` is partly buffered; the same thread calls `send(b)` and
  `shutdown()`. Before the queued `sendInLoop(b)` runs, `handleWrite()` drains `a`, sees
  `kDisconnecting` and sends the FIN; `b` fails. What does hold is `MessageStream`:
  nothing that has reached the buffer, and nothing the loop thread itself has sent, is cut
  off.
- `quits_early`: the connection of the last client to come is between its two increments,
  `m_totalConnections` being complete, when the other one leaves on another thread:
  `--m_aliveConnections` gives 0 (or has given it just before), the test sees the total,
  and the server quits over a live client, which then fails with "peer closed early" and
  ends the program. What holds of the comment is that no quit comes before every client
  has been counted (`QuitWaitsForAll`), which is why none is refused.
- `lost_destroy`: `~TcpServer()` queues `connectDestroyed()` on a loop of the pool, and
  `~EventLoopThreadPool()` then quits that loop. A loop that has swapped its queue
  already finishes its round, sees `m_quit` before it looks at the queue again, and is
  destroyed with the functor in it: the connection is freed without a down callback, and
  its channel without being removed. `Accounted` therefore speaks of loops that exist.

Met on the way, without a run of their own. In `EventLoopThread`: user code that quits a
pool's loop leaves the pool a dangling pointer; a loop that quits at once, from a functor
its init callback queued, leaves `startLoop()` waiting. In `TcpConnection`: a `shutdown()`
that has seen `connected()` stores `kDisconnecting` over the close that came in between
and revives the connection; a queued send then writes, gets its rest buffered, enables
writing on a channel that was disabled, and the next hang-up reports the connection down a
second time (the exemption `overtaken = "afterDown"` of `DownOnceUnlessRevived`), or the
channel is back in its loop after its removal; a connection that was shut down but not
closed when the server dies is destroyed without a down callback, because
`connectDestroyed()` handles only `kConnected`, although its comment
(tcpconnection.cpp:83) knows no other case; a `shutdown()` cuts off, and a `send()`
interrupts, a file sent in parts, which the TODO in `sendFileInLoop()` half admits. In
`TcpServer`: the destructor of a server with threads, run in a functor of a main loop that
goes on, can be overtaken by a closeCallback that queues `removeConnectionInLoop()` for a
server that will be gone, so that `CallsFindServer` asks this of servers without threads
only.

## 5. Proofs

Every theorem is about the safety part of a specification and holds for every value of
the constants under the assumption its module states. Of the properties the passing runs
check, all invariants, all action properties and all refinements but one are proved;
`theorems` in `PROJECT.json` lists them. The inductive invariants were checked by TLC on
the runs' instances before they were proved.

| module | theorems | assumed of the constants |
|---|---|---|
| `EventLoopProofs` | `TypeCorrect`, `CoveredAlways`, `WakeupNotLost`, `ImplementsExecutor` | the wakeup channel is not one of the user's |
| `EventLoopThreadProofs` | `ThreadTypeCorrect`, `LoopUsable`, `NoThreadOutlives`, `ThreadDrivesEventLoop`, `ThreadNeverSleepsOnWork` | the starter is one of the callers |
| `EPollPollerProofs` | `PollerTypeCorrect`, `CtlNeverFails`, `KernelAgrees`, `NothingDangles` | each channel has a descriptor, which others may have too; the event array is not empty |
| `BufferProofs` | `BufferTypeCorrect`, `BufferSizeBounded`, `BufferIsByteQueue` | the stack array is not empty, and there are bytes |
| `TcpConnectionProofs` | `ConnectionTypeCorrect`, `BacklogIsWatched`, `DownOnce`, `RemovedChannelStaysOut`, `DestroyedReportsDown`, `DownStaysDown`, `FlowControl` | messages and files have at least one unit and are distinct, the loop's thread is no user thread; `FlowControl` has the hypothesis that the high water mark is above 0 |
| `TcpServerProofs` | `ServerTypeCorrect`, `DestroyedExactlyOnce`, `PoolEndsFirst` | finitely many connections |
| `TcpServerLifeProofs` | `ServerImplementsLife` | same |
| `EchoServerDemoProofs` | `DemoTypeCorrect`, `NoClientRefused`, `QuitWaitsForAll` | finitely many clients, at least one; a thread, a unit and an attempt at least |

**EventLoop.** `NoLostWakeup` speaks of one moment, the sleep in `epoll_wait()`, and is
not inductive: whether the loop may go to sleep was decided earlier. `Covered` adds the
places from which sleep is reached without another look at the queue (between the swap
and the next `epoll_wait()`): there a queued task is announced by a readable eventfd or
by a caller that is about to write it. While a round is being dispatched nothing is
required, because the swap is still to come; this is why a queueInLoop() from an IO
callback need not write. `Covered` also says that the batch is empty outside of
`doPendingFunctors()`, which the refinement needs: `Swap` then leaves the concatenation of
both unchanged and every other step either stutters, appends at its end or removes its
head.

**EventLoopThread.** `ThreadInv` ties the worker's place in `threadFunc()` to its loop's
place in `loop()`, and the starter's to the worker's: past its wait, the starter has seen
`m_loop` set, which happens after the loop was constructed. `StaysInLoop` is what makes
the returned pointer usable: unless somebody called `quit()`, `m_quit` is false and the
worker has not left `loop()`. The composition's steps are steps of `EventLoop!Next` or
stutter (`ThreadDrivesEventLoop`), so `NoLostWakeup` holds of it by `WakeupNotLost`.

**EPollPoller.** `RegistrationAgrees` is stated per channel in use and says nothing of a
descriptor whose channel is gone, so that a channel that takes the descriptor over could
find it registered. `PollerInv` adds the other direction: the kernel's entry for a
descriptor and the one in `m_channels` were made by the channel they point to, whose
`m_index` says so (`EntriesAgree`, `MapAgrees`), a channel not in use is `kNew`, and a
descriptor has one owner that has not closed it. From there ADD, MOD and DEL each find
what they need, and nothing freed is reachable.

**Buffer.** `TypeOK` with the order of the indices and `SizeBounded` together are
inductive. The refinement has one step per operation: what `makeSpace()` moves or grows
leaves the unread bytes as they are, and `readFd()`'s detour over the stack array appends
the same bytes.

**TcpConnection.** A handler takes long and user code runs inside it, so the proof first
says what `send()` and `sendFile()` can come to (`SendOutcome`) and what each functor can
be, and then treats the handlers. `ConnInv` relates `m_state`, the channel, the backlog
and the counts of what was reported: before the connection is up nothing is
(`BeforeUp`, `UpFirst`), a poll reports the end once, of a channel the poller has
(`ReportsOneEnd`), down is final but for a revival (`DownIsFinal`), removals follow downs
(`RemovalsFollowDowns`), a channel that was removed stays out (`RemovedIsOut`), and a
half-closed connection has sent its FIN or waits for its backlog (`HalfClosed`).
`WritesBacklog` is `WritingIffBacklog` without the exemption of a channel that is not in
the poller, which a step that adds it needs. `FlowControl` needs the order of the queued
callbacks: `FlowInv` says that the last of the two callbacks in the queue is the one the
buffer calls for (`GoesOn` with an empty buffer, `Pauses` above the mark), or that none is
queued and the producer is right already. With a mark of 0 it is false, and the code
agrees: an old length below 0 is never crossed from.

**TcpServer.** `Accounted` counts functors in queues and batches. The lemmas about
`WaitsFor(op, c)`, the number of functors of one kind for a connection that a loop still
has to run, say what an `Append`, a swap and the end of a functor do to it. With them
`OneAccount` (the map's entry, the pending destruction and the destructions sum to 1) is
inductive together with: no functor waits for a client that was not accepted
(`UntouchedBefore`), functors sit on the connection's own loop (`OwnLoop`), establishment
is queued once, and so is removal while the server lives (`EstablishedOnce`,
`RemovedOnce`), a connection stays in the map until its down (`KeptUntilDown`), and no
closeCallback of the main loop is under way once the destructor has begun (`MainQuiet`).
`ServerTypes` holds what the pool's threads and the destructor have come to (`PoolInv`).
`CallsFindServer` follows from it and from `NoRemovals`: the closeCallbacks of a server
without threads run the removal at once and queue none.

`ServerImplementsLife` adds that `connectEstablished()` is queued in front of
`connectDestroyed()` in queue and batch (`EstablishedFirst`), that it does come as long as
the loop exists (`EstablishmentComes`), and that a destroyed connection is disconnected
(`DestroyedIsDown`). A `shared_ptr` that lets a connection be referred to again
would revive it; `NothingRevived` shows that no step makes one for a freed connection, and
`OneMoves` that a step changes the stage of one connection, or frees several at the end
of a round, which is why `ConnectionLife` frees a set.

**EchoServerDemo.** `CountsAgree` bounds the two counters by the number of connections
that have not been counted, are between the two increments, or are up (cardinalities of
sets of clients; `InStateMoves` says what a step of one connection does to them). From it
`alive <= total` and `total <=` the clients, and a client that is not counted yet keeps
the total below what is expected (`NotAllCounted`). `QuitsLast` is what `NeverRefused`
comes down to: no quit is queued before every client is counted. A refused `connect()`
would be one of a client that is not counted, by a server that has quit
(`RefusesNobody`).

Only model-checked: liveness, which TLAPS does not prove under fairness (`PromptlyRuns`,
`QuitStops`, `StartReturns`, `DestructorReturnsOnceLooping`, `ReadyIsDispatched`,
`ShutdownCompletes`, `CloseCompletes`, `FileDelivered`, `CloseReleases`,
`AcceptsWhenRoom`, `DestructionEnds`, `DemoEnds`); and `ImplementsStream`, the refinement
of `MessageStream`, which needs an invariant about the order of queued sends and holds
only without files.

## 6. Not modelled

An `Acceptor` without a callback, which no `TcpServer` has. The other snippets and
`main1.cpp`, which runs for ever; the tests. `Socket`, `InetAddress`, `Logger`, `Timestamp`,
`NetUtils`, `CurrentThread`: wrappers and formatting. In the modelled components: log output, names, the poller chosen from the
environment, the errno that `poll()` saves and only logs, `m_inputBuffer`'s contents, urgent data, the exact choice of events the
kernel reports with an error.

## 7. Plan

What is left to prove is the refinement of `MessageStream` for `Files = {}`: that each
thread's queued `sendInLoop()`s are in the order it made them and are what `accepted`
says minus what has entered the stream, that no unit enters behind the FIN of an open
connection, and from these the mapping, one action at a time.
