# SecondGear in TLA+

SecondGear is a small network library in C++ in the style of muduo: one event
loop per thread, channels behind `poll(2)`, timers behind one timerfd, and a TCP
server whose connections live on the loop. This directory models its core in
TLA+, checks it with TLC on small instances and proves part of it with TLAPS
for every instance. `PROJECT.json` maps every definition to the lines it models.

Contents: [inventory](#inventory), [modules](#modules), [runs](#runs),
[proofs](#proofs), [disagreements found](#disagreements-found),
[what is left out](#what-is-left-out), [plan](#plan).

## Inventory

| Component | State | Operations | Correct when |
|---|---|---|---|
| `EventLoop` | `looping_`, `quit_`, `callingPendingFunctors_`, `pendingFunctors` under `mutex_`, `activeChannels_`, the eventfd `wakeupFd_` | `loop`, `quit`, `runInLoop`, `queueInLoop`, `wakeup`, `handleRead`, `doPendingFunctors` | no functor is lost, doubled or reordered; the loop never sleeps over work or a request to quit; functors cannot starve `poll` |
| `Poller`, `Channel` | `pollfds_`, the map `channels_`; of a channel `events_`, `revents_`, `index_` | `updateChannel`, `removeChannel`, `poll`, `enableReading`, `enableWriting`, `disableWriting`, `disableAll`, `handleEvent` | each channel finds its slot however slots are moved; a report reaches a registered channel that asked for it |
| `TimerQueue`, `Timer`, `Timestamp` | the ordered set `timers_`, the timerfd, expirations | `addTimer` (through `runAt`, `runAfter`, `runEvery`), `handleRead`, `getExpired`, `reset`, `resetTimerfd` | the timerfd is armed whenever a timer is waiting, and early enough; timers are called, as often as they should be |
| `Buffer` | a vector and two indices | `append`, `prepend`, `retrieve` and variants, `hasWritten`, `makeSpace`, `readFd`, `shrink` | a queue of bytes; 0 <= reader <= writer <= size |
| `TcpServer`, `Acceptor`, `TcpConnection` | `connections_`, `listenning_`; of a connection `state_`, its buffers, its channel, its descriptor | `start`, `listen`, `newConnection`, `removeConnection`, `connectEstablished`, `connectDestroyed`, `handleRead`, `handleClose`, `send`, `shutdown` | map, registry, `state_` and object lifetimes agree; a descriptor is closed only when nothing polls it; bytes arrive in order and before the end of the stream |
| `Thread`, `CountDownLatch`, `Condition`, `MutexLock`, `CurrentThread` | `started_`, `joined_`, `tid_`, the latch's count | `start`, `join`, `countDown`, `wait` | `start` returns with `tid_` set |
| `EventLoopThread` | `loop_`, the mutex and condition, the thread | `startLoop`, `threadFunc`, destructor | `startLoop` returns a live loop; the destructor ends it |
| `net/` | descriptors, addresses | wrappers of system calls | errors a server should survive do not end it, others do |

How they interact. A `Channel` calls its `Poller` through the loop
(`updateChannel`, `removeChannel`); `poll` fills `activeChannels_`, whose
channels call back into `EventLoop`, `TimerQueue`, `Acceptor` and
`TcpConnection`. These call user code, which calls all of them again on the same
stack. Threads meet only in `EventLoop`: through `pendingFunctors` (mutex),
`quit_` and the eventfd. Everything else reaches the loop thread as a functor.

What is hard, and where (each is a hazard of `PROJECT.json` with its line):

- *Threads against the loop*: the store and the `wakeup()` of `queueInLoop` and
  `quit` are two steps; the loop reads the eventfd, swaps the queue and polls in
  between.
- *Callbacks against the dispatch*: the registry and the server's map change
  while events of the same `poll` wait, and slots move under the channels.
- *Deferred destruction*: a connection leaves the map in a handler and the
  registry in a functor; the object, and with it the descriptor, lives by
  reference counts.
- *Functors that outlive what they refer to*: lambdas that capture by
  reference, or a bare `this`.
- *Two clocks*: expirations on the wall clock, the timerfd on the monotonic one;
  a one-shot timerfd that is set anew between `poll` and `handleRead`.
- *Boundaries*: slot encodings `-fd-1` with descriptor 0, a delay of zero, a timer
  that expires at exactly now, moving or growing a buffer.
- *Partial failure*: `write` takes part of a message, `accept`, `poll` and `read`
  fail, descriptors run out, system calls that must not fail end the process.
- *Rounding*: delays are doubles, expirations whole microseconds.

## Modules

| Module | Role |
|---|---|
| `EventLoop` | the loop thread and any number of other threads |
| `TaskExecutor` | abstract: what the loop promises to those who hand it functors |
| `Poller` | registry, setters of channels, `poll`, dispatch |
| `Registry` | abstract: what the Poller and the users of channels agree on; both `Poller` and `TcpServer` implement it |
| `TimerQueue` | timers, timerfd, two clocks, timers added by another thread |
| `Buffer` | the vector with its indices |
| `ByteQueue` | abstract: what a buffer promises |
| `TcpServer` | server, acceptor, connections and their peers on one loop |
| `ConnectionService` | abstract: what a server promises to the users of its connections |
| `EventLoopThread` | a thread with a loop and its owner, with `Thread` and `CountDownLatch`; run by TLC as it is |
| `MCEventLoop`, `MCPoller`, `MCBuffer`, `MCTimerQueue`, `MCTcpServer` | instances for TLC |
| `EventLoopProofs`, `PollerProofs`, `BufferProofs`, `TimerQueueProofs`, `TcpServerProofs`, `EventLoopThreadProofs` | theorems and proofs |

Names of variables and actions are those of the members and methods, without the
trailing underscore. Operators marked `\* mutant` are faulty variants of the
definition that follows them, kept to show that each property can fail; nothing
uses them.

**EventLoop.** `pc` is where the loop thread is in `loop()`: `check` (the test
of `quit_`), `poll`, `dispatch`, `pending` (before the swap), `run`, and the
places where user code runs: `outside`, `callback`, `functor`. `QueueInLoop` and
`Quit` are the store, `Wakeup` the `write` that follows; the set `waking` holds
the threads between the two. A critical section of `mutex_` is one step.
`origin` and `ran` are history. `Poll` may return at any time: a timeout of
`kPollTimeMs` or an error; that it *sleeps* is what `WakeupComing` excludes.

**Poller.** A slot is a record `[fd, events]`; slots count from 0 in `index`.
One `poll` reports a set of conditions for some slots, `handleEvent` works out
which callbacks to call, and each callback returns in turn, with setters of any
channel in between. Channels are removed between any two steps, from a callback
too, as `Poller::removeChannel` allows: that nobody should, while reports wait, is
the users' part (`RemovalWaits`, below). The guards state what the callers in this
repository respect: the first update of a channel enables something, and a removed
channel is not used again.

**TimerQueue.** Users call `runAt`, `runAfter` and `runEvery`. Delays and intervals
count in fractions of a microsecond (`Resolution`), which `addTime` drops as the
cast to `int64_t` does. `timerfd` is the delay left, 0 when disarmed. `Tick` advances
both clocks, `AdjustClock` the wall clock only. `handleRead` is three steps
because callbacks may add timers: reading the timerfd with `getExpired`, one
`run` per expired timer in order, `reset`. A timer of another thread is `passed`
until its functor runs; `frames` says whether the local that the functor refers
to still exists. What a functor reads after that is a nondeterministic choice: the
timer is added with another expiration, or is lost, or the process ends.

**Buffer.** The object is one record and the member functions are operators on
it, so that `readFd`, which appends what did not fit, is one step.

**TcpServer.** The loop appears as its phases, the registry as `Registry` has it. A
connection is one record, `conn[c]`: state, descriptor, interest, whether its slot
is switched off, output buffer, what `write` took, whether `shutdownWrite` was
called. `peer` is the other end: it connects once the server listens, waits in the
backlog until it is accepted, and may close at any time. `poll` is
level-triggered: a stream that ended and a waiting peer are reported until they
are dealt with. `accept` may fail; the errors that `sockets::accept` expects,
`EMFILE` among them, leave everything as it is. `Alive` is defined from the
references that exist: the server's map, the users' pointers, the queued
`connectDestroyed`; so an object ends, and its descriptor becomes free for
`accept`, in whatever step drops the last one. User code on the loop thread may
call between any two handlers or functors. The loop may be left after each batch
(`quit`) and entered again. `pc = "aborted"` is a failed assertion or, with
`MayStop`, a system call that failed and must not; with `MayStop` the server may
also be destroyed when the loop has returned. With `RemoteCalls` other threads call
`send`, `shutdown` and `start`: the test of `state_`, the store, the push and the
return are separate steps, so the unsynchronised accesses to `state_` interleave
with the loop's.

**EventLoopThread.** `owner` is where the thread that owns the object is in
`startLoop`, in its use of the loop and in the destructor; `thread` is where the
new thread is in `runInThread`, `threadFunc` and `loop()`. A wait is a test under
the mutex and a sleep that ends by a notification or spuriously;
`pthread_create` may fail. A use of a loop that no longer exists is undefined:
the owner is `crashed`, or goes on as if nothing had happened. Three faults of
the code are in the model, but nothing in the repository says that they cannot
happen, so no property is about them: `startLoop` waits for ever when
`pthread_create` fails; the destructor uses `loop_` also when `startLoop` was never
called or the loop has ended; and a `quit()` that comes between the publication of
`loop_` and the entry of `loop()` is forgotten, after which the destructor does not
return. `DestructorReturns` is stated for a loop that was entered and accepts a
crash.

**Registry and ConnectionService.** The modules compose by interface. `Registry`
is the one between the Poller and the users of channels. Its `Spec` is what the
Poller promises: a descriptor has one owner, a channel that asks for nothing is
switched off, and reports go to registered channels that ask for something and are
switched on. Whether asking again switches a channel on again is left open, so the
contract holds with the fault that `poller_reenable` shows and without it. Its
`RemovalWaits` is what the users owe: no channel leaves while reports of the same
`poll` wait. `Poller` implements `Spec` through its slots and indices
(`ImplementsRegistry` of `Poller`: interest and switch are read from the slot that
`index` leads to); `TcpServer` keeps to `Spec` and to `RemovalWaits`
(`ImplementsRegistry` of `TcpServer`). The latter is the answer to the
question the source asks at `TcpServer.cpp:113-115`, why `removeConnection` queues
a functor although it runs on the loop thread. Of the loop, `TcpServer` uses what
`EventLoop` shows: `CallbackFunctorsPrecedePoll` and batches in order. Towards the
users, `ConnectionService` is the promise: up and down once each, messages taken
whole and delivered in order, the end of the stream after what is kept and
followed by nothing. It holds for users on the loop thread; with calls of other
threads it does not, as `server_remote_calls` shows.

## Runs

Passing runs:

| Run | Instance | States | Shows |
|---|---|---|---|
| `event_loop` | 2 other threads, 3 functors, eventfd limit 2 | 294 000 | `FunctorWakesPoll`, `QuitWakesPoll`: no sleeping over work or quit. `CallbackFunctorsPrecedePoll`. `NoneLostNoneTwice`. `DrainIsBounded`. `QuitStopsLoop`. `ImplementsTaskExecutor`: refinement with liveness |
| `poller` | 4 channels on descriptors 0, 1, 2, 1; 2 conditions reported per poll | 549 000 | `SlotsMatchChannels`, `SlotsOwned`, `ReportsAreAsked`, `ImplementsRegistry` |
| `buffer` | 2 byte values, prepend 1, initial size 2, 3 bytes per call | 6 152 | `IndicesOrdered`, `GrowsOnlyWhenFull`, `ImplementsByteQueue`, `CallsAreExact` |
| `timers` | a remote one-shot timer and one that repeats every 1.5 microseconds, 7 ticks, 1 clock jump | 128 000 | `NoTimerForgotten`, `ArmedInTime`, `OneShotOnce`, `RepeatsSpaced`, `TimersAreCalled` |
| `loop_thread` | one owner, one thread | 177 | `AssertionsHold`, `LoopAliveWhenReturned`, `StartLoopReturns`, `EarlyFunctorRuns`, `DestructorReturns` |
| `server` | 3 connections, 2 descriptors, 2 messages of 2 bytes | 639 000 | `LifeCycle`, `ClosedNotPolled`, `AssertionsHold`, `ImplementsService`, `ImplementsRegistry` |
| `server_remote` | 2 connections, 1 descriptor, 1 message of 1 byte, other threads, `MayStop` | 159 000 | `RegisteredIsOpen`, `PeerCloseIsTold`, `WaitingIsAccepted` under calls of other threads |

Each also checks the type invariant of its module, except `server_remote`. The
runs of expected violations are under
[disagreements found](#disagreements-found).

Bounds. Two threads are needed for two wakeups to cross; three functors for a
batch, a functor queued while it runs and a third in the queue; the eventfd limit
of 2 only bounds the counter, of which the loop tells zero from the rest. Three
descriptors give three slots at once, so that a removal moves a slot over another
while a third stays where it is; the fourth channel takes a descriptor over from one
that was removed. Two conditions per poll make two channels active in one dispatch,
or call two callbacks of one. A buffer of two cells moves its bytes and
grows within a few calls. An interval of 1.5 microseconds is not what `addTime`
adds. Two timers give an earlier and a later one, `MinDelay = 2`
separates the least delay from one tick, and one jump of the clock goes anywhere.
Three connections on two descriptors are closed in one dispatch with a third
accepted under a descriptor that was just freed; messages of two bytes may be
written in part. With one descriptor for two connections `accept` fails for want of
descriptors while the other peer waits. `MaxPending` only bounds repeated calls of `start` by other
threads. Symmetry is used in `server` (connections, messages) and in
`poller` (the two channels of one descriptor), which check no liveness.

Deadlock is checked in all runs except `server_remote` and
`server_remote_calls`, where the process or the server may end, and
`loop_thread`, where the object is destroyed in the end.

Fairness. `WF(LoopStep)`: the loop thread goes on; `poll` has a timeout, and
callbacks and functors are assumed to return. `WF(Wakeup(th))`: a thread that has
pushed its functor goes on to its `write`. `WF(Tick)`: time passes.
`WF(OwnerStep)` and `WF(ThreadStep)` of `EventLoopThread`: both threads go on with
what they have begun; spurious wakeups and the timeout of `poll` are not part of
either, so nothing rests on them. `SF(Poll)` and `SF(AcceptSucceeds)` of
`TcpServer`: a signal or a failure meets `poll` and `accept` now and then, not for
ever; `SF(handleClose(c))`: what a peer sent before it closed is finite, so `read`
returns 0 at some time. The liveness properties of `TcpServer` are about behaviours
in which the loop runs on (`LoopRuns`), since nobody is assumed to enter it
again. `OutputDrains` is refuted even under strong fairness of polls that report a
writable socket. Nobody is assumed to call anything.

## Proofs

The theorems hold for any sets of threads, functors, channels, timers,
connections and bytes and any sizes that satisfy the named assumptions of the
modules (`ThreadsAssumption`, `EventfdAssumption`, `FdAssumption`,
`NoChannelAssumption`, `ZeroAssumption`, `SizesAssumption`, `TimersAssumption`,
`IntervalAssumption`, `TimeAssumption`, `ConstantsAssumption`). No set need be
finite. Every invariant, action property and refinement of the passing runs is a
theorem, the fairness of `TaskExecutor` excepted. Where a module has fairness, the
theorems are about its `SafeSpec`, which has none.

- `EventLoopProofs`: `TypeCorrect`, `NoLostWakeup`, `QuitNeverSleeps`,
  `CallbackFunctorsFirst`, `NoFunctorLost`, `BatchIsFixed`, and `Refinement` (the
  safety part of `TaskExecutor`). `FunctorWakesPoll` and
  `CallbackFunctorsPrecedePoll` speak of `poll` only; `IndInv` extends them to every
  place but `dispatch`, `callback` and `pending`, the stretch between the read of the
  eventfd and the swap, in which a functor may wait without a wakeup because the swap
  is still to come. `FlagsTellPlace`, a part of `TypeOK`, ties `looping` and
  `callingPendingFunctors` to `pc`: that a functor which queues is seen as such by
  `queueInLoop` rests on it.
  `NoneLostNoneTwice` is inductive once a batch is known to be empty at the swap,
  which would drop it otherwise.
- `PollerProofs`: `TypeCorrect`, `SlotsFollowChannels`, `NoOrphanSlot`,
  `OnlyAskedReported` (an action property) and `RegistryRefinement`. `SlotsMatchChannels` alone is not inductive: a removal must
  know that every slot has an owner, or the channel it looks up for the moved slot
  might not exist, and that removed channels keep an index that nothing uses
  (`IndexInv`). `OneOwner` shows that two registered channels never share a slot,
  since a slot tells its descriptor also when it is switched off (`SlotEncoding`,
  descriptor 0 included). The refinement rests on these: a removal moves one slot
  and the registry, which reads interest and switch through `index`, must see
  nothing but the removed channel disappear.
- `BufferProofs`: `TypeCorrect`, `IndicesStayOrdered`, `Refinement`
  (`ByteQueue`), `ExactCalls` (each call puts in or takes out exactly its bytes) and
  `GrowsWhenFull`. The inductive invariant is the type invariant with the order of
  the indices; the lemmas say what `CopyTo`, `makeSpace` and `append` do to the
  readable bytes.
- `TimerQueueProofs`: `TypeCorrect`, `NoneForgotten`, `InTime`, `CalledOnce`,
  `Spacing`. The properties speak of the time outside `handleRead`, where alone they
  hold; the invariant says what makes them true again at the end. `Placed`: `timers`,
  `expired` and `called` are disjoint, so that `reset` puts nothing back that is still
  there. `Once`: a one-shot timer that can still be called was not called. `Armed`:
  while callbacks run the timerfd need not be armed, since `reset` arms it for the
  earliest timer, except for a timer of the invalid time 0, which `reset` passes over
  (`TimerQueue.cpp:191`): adding it has armed the timerfd with the least delay, or it
  has expired since. Without this clause `NoTimerForgotten` is not inductive.
  `Spaced`: the next expiration of a timer that was called is counted from the
  `handleRead` that took it. `LeastNatural` gives the earliest timer of any set;
  `DropsLessThanOne` bounds what the cast to microseconds loses.
- `TcpServerProofs`: the invariant `Inv` holds with and without calls of other
  threads, failing system calls and the end of the server. `Life` says where a
  connection is: in the map, or with one `connectDestroyed` due, or out of the
  registry. That there is one and not two (`DestroysOnce`) is what keeps the second
  from failing its assertion; that it is queued by a handler and taken before the
  next `poll` (`Batched`) is what keeps a closed connection from being reported.
  `FdOwned` ties the registry to descriptors, from which it follows that `accept`
  gets none that the registry knows (`FreeFdIsUnknown`); `FunctorsConstructed` that
  functors name connections that were accepted; `BeingDestroyed` is about the
  stretch in which `connectDestroyed` calls the user.

  | Theorem | For |
  |---|---|
  | `TypeCorrect`, `RegistryIsOpen` (`RegisteredIsOpen`), `NeverPollsClosed` (`ClosedNotPolled`) | all values of the constants |
  | `LivesAgree` (`LifeCycle`), `RegistryRefinement` (`ImplementsRegistry`) | `~RemoteCalls` |
  | `NoAssertionFails` (`AssertionsHold`), `ServiceRefinement` (`ImplementsService`) | `~RemoteCalls` and `~MayStop` |

  `RegistryRefinement` includes `RemovalWaits`: a descriptor loses its owner in
  `connectDestroyed` alone, and `Life` leaves no report for the time of functors.

  The hypotheses are those of the run `server`. `shutdown` on another thread may
  store `kDisconnecting` over the loop's `kDisconnected`
  (`TcpConnection.cpp:155-157`), after which the state no longer agrees with the
  registry. With `MayStop` a failing system call ends the process, which is the
  place `aborted`, and `~TcpServer` drops connections that were never told to be
  down. `ServiceRefinement` needs `Waits` besides `Inv`: output that waits has asked for a
  writable socket, hence `shutdownInLoop` does not end a stream before it. Messages
  have any length (`SplitBytes`).
- `EventLoopThreadProofs`: `TypeCorrect`, `NoAssertionFails`, `ReturnsLiveLoop`.
  `ThreadInv` says how far the thread is when `tid`, `count` and
  `loop` have their values, and that it leaves `loop()` only when told to quit;
  `OwnerInv` that the owner gets beyond a wait only when the thread has done its
  part. The properties relate `owner` and `thread` only through these.

Only model-checked: liveness, which is beyond the prover (`QuitStopsLoop`,
`StartLoopReturns`, `EarlyFunctorRuns`, `DestructorReturns`, the fairness of
`TaskExecutor` within `ImplementsTaskExecutor`, `TimersAreCalled`, `PeerCloseIsTold`,
`WaitingIsAccepted`). The invariants `Inv` of `TimerQueueProofs` and
`TcpServerProofs` were found with TLC on the instances of the runs before they were
proved.

## Disagreements found

| Run, property | The code | What the repository says |
|---|---|---|
| `poller_reenable`, `EnabledIsPolled` | `updateChannel` never restores the descriptor of a slot it switched off: a channel enabled again is not polled (`Poller.cpp:79-87`) | `Channel.h:56`: `update()` is called when events change |
| `timers_boundary`, `AssertionHolds` | the sentry of `getExpired` precedes entries of the same microsecond | `TimerQueue.cpp:146`: `assert(it == timers_.end() \|\| now < it->first)` |
| `timers_remote`, `TimerAliveWhenAdded` | the queued functor refers to `addTimer`'s local (`TimerQueue.cpp:97`) | `TimerQueue.h:37`: thread safe, usually called by other threads |
| `server_drain`, `OutputDrains` | no write callback is set: what `write` did not take stays in `outputBuffer_` | `TcpConnection.cpp:178`: "I am going to write more data" |
| `server_remote_calls`, `RemoteCallsSafe` | functors of `send` and `shutdown` hold a reference to the caller's string and a bare `this` (`TcpConnection.cpp:145`, `159`) | `TcpConnection.h:34`, `36`: "Thread safe." |

## What is left out

- Of `thread/`: a `Thread` that is never joined, `Condition::waitForSeconds` and
  latches that count from more than one, which no part of the library uses.
- `TcpConnection::handleWrite`: the constructor sets no write callback, so nothing
  leads to it; a model that called it would be of another program.
- After `~TcpServer` the Poller may still have the channels of connections whose
  objects and descriptors are gone, and of the acceptor. Entering the loop again
  is then undefined; the model stops there, and `LifeCycle` and `RegisteredIsOpen`
  speak of the time before. `connectDestroyed` is not called for those
  connections.
- `Buffer::swap`, which exchanges two objects whole, and `Buffer::shrink`, which
  nothing calls (it would leave the indices beyond a smaller vector,
  `Buffer.h:131`).
- Of `net/`: creating and binding the listening socket, which happen before the
  server exists or end the process, and the formatting of addresses (as of
  timestamps): pure I/O.
- Conditions for which a connection's channel has no callback (hang-up, error,
  writable): `handleEvent` ignores them. That `poll` returns at once as long as
  they last costs time and reaches no other state.
- SIGPIPE, which would end the process at a `write` to a closed peer; sizes of
  integers (`nextConnId_`, microseconds in 64 bits): no run of the program comes
  near their limits. Negative delays.
- The order of the channels in one dispatch: any order is allowed.

## Plan

The modules, runs and theorems above are complete for the safety of what is
modelled. What could follow:

1. With calls of other threads, how far `LifeCycle` still holds: everything but the
   clause that the state of a connection out of the registry is `kDisconnected`.
   `Inv` has most of it.
2. Safety lemmas that the liveness properties rest on, such as that a loop told to
   quit is never beyond its last test of `quit_` without a wakeup coming; the
   properties themselves stay with TLC.
