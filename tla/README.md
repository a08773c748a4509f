# YATWB: a model of its reactor, its server, its timers and its buffers

YATWB is a small C++ network library: a reactor (`EventLoop`) that waits in
poll(2) and calls back, a TCP server with its connections and timers on top of
it, and a pool of threads with a reactor each.  This directory holds TLA+ models of its core, the TLC
configurations that check them, and TLAPS proofs of the central properties.

All paths below are relative to the repository's `src/` directory; `PROJECT.json`
("map") gives the lines each definition stands for.

## 1. Inventory

| Component | State | Operations | Interaction | Hard about it | Correct when |
|---|---|---|---|---|---|
| `EventLoop` | `looping_`, `quit_`, `calling_pending_functors_`, `mutex_`, `pending_functors_`, the eventfd, `active_channels_` | `loop`, `runInLoop`, `queueInLoop`, `wakeup`, `handleRead`, `doPendingFunctors`, `quit` | every thread queues functors in it; it calls channels' handlers and functors | wakeups, the mutex held while functors run, `quit()` at any time | no functor is slept on; each runs once and in order; `quit()` ends the loop; nobody deadlocks |
| `Channel`, `Poller` | `events_`, `revents_`, `index_`; `poll_fds_`, `channel_map_` | enabling and disabling events, `handleEvents`, `poll`, `updateChannel`, `removeChannel` | owned by connections, acceptor, timer queue; dispatched by `EventLoop` | callbacks change the poll set during dispatch; descriptors are reused; indices move | index, set and map agree; no dead channel is dispatched; enabled means polled |
| `Thread`, `CountDownLatch`, `EventLoopThread`, `EventLoopThreadPool` | `started_`, `tid_`, `count_`, `loop_`, `loops_`, `next_` | `start`, `startLoop`, `IOThreadFunc`, `getNextLoop`, destruction | `TcpServer` starts the pool and takes loops from it | two hand-shakes at start-up; the loop is on the thread's stack | start-up and `join()` return; loops handed out are alive and evenly used |
| `Buffer` | `buffer_`, `reader_idx_`, `writer_idx_` | `append`, `prepend`, `retrieve*`, `readFd`, `makeSpace`, `shrink`, `swap` | input and output of a connection | arithmetic at the boundaries | indices ordered; a queue of bytes |
| `TcpConnection` | `state_`, its channel's events, `output_buffer_`, who holds a pointer to it | `send`, `shutdown`, `handleRead/Write/Close`, `establishConnection`, `destroyConnection` | its loop, its peer, `TcpServer`, any thread | close and destruction in two steps; calls of other threads | stream in order; graceful shutdown; no dangling channel; destroyed in the end |
| `TcpServer`, `Acceptor` | `connections_`, `next_conn_id_`, `started_`, `listenning_` | `start`, `newConnection`, `removeConnection`, `listen`, `handleRead` | connects acceptor, pool and connections | base loop and I/O loops are different threads; descriptors run out and are reused; clients stall, abort and reset | each connection lives in its own loop; names, channels, objects and descriptors stay in step; every client is served |
| `TimerQueue`, `Timer`, `Timestamp` | `timers_`, `expiration_`, the timerfd | `addTimer`, `handleRead`, `getExpired`, `reset`, `insert` | a channel of the loop; `addTimer` from any thread and from timer callbacks | equal and exactly-now expirations, re-arming, two clocks | an alarm stands for every timer; every timer fires, none early or twice |
| `Socket`, `sockets::`, `InetAddress` | a descriptor | wrappers of system calls | used by acceptor and connections | close when the last owner goes | a descriptor has one user |
| Logging headers | declarations only | - | - | - | - |

What the code leaves unconnected is modelled the way its users need it, and
these are the assumptions every module makes:

* `EventLoop::EventLoop()` does not construct `poller_`, `timer_queue_`,
  `wakeup_fd_` and `wakeup_channel_`, although `loop()`, `wakeup()` and
  `handleRead()` use them.  The models assume a poller, an eventfd, and a
  channel that reads it with `EventLoop::handleRead()`.
* `CurrentThread::tid()` has no `return` on its cached path.  The models take
  `isInLoopThread()` to answer correctly.
* `Channel::owner_loop_` is never set.  This is not assumed away: in `Poller`
  its comparison with the loop has either outcome for each channel, and a
  failure of that assertion is told from one of Poller's own.
* `abortNotInLoopThread()` and the logging functions have no definition.
  `TcpServer` takes the former to end the process.
* `timer_queue.cpp` does not compile as it stands: the constructor initialises
  `timerfd_channel_` where the class has `channel_`; `TimerEntryCmp` takes two
  `unique_ptr<Timer>` where the set holds pairs; `addTimer()` binds, and
  `getExpired()` copies, a `unique_ptr`.  `TimerQueue` reads it as its names
  and comments intend: one channel; entries ordered by the expiration of their
  timer and by nothing else; ownership passed on.  The sentry of
  `getExpired()` then stands for its time alone.  What does not depend on that
  reading - both assertions, the read of `timer` after the move - is kept.

The hazards this code is exposed to, each at its line and with the properties
that cover it, are listed in `PROJECT.json` ("hazards").

## 2. Modules

    TaskQueue <--refines-- EventLoop            <- MCEventLoop
                               ^-- EventLoopProofs
                           Poller               <- MCPoller
                               ^-- PollerProofs
                           EventLoopThreadPool  <- MCEventLoopThreadPool
                               ^-- EventLoopThreadPoolProofs
    ByteQueue <--refines-- Buffer               <- MCBuffer
                               ^-- BufferProofs
                           TcpConnection        <- MCTcpConnection
                               ^-- TcpConnectionProofs
                           TcpServer            <- MCTcpServer
                               ^-- TcpServerProofs
    TimerService <--refines-- TimerQueue        <- MCTimerQueue
                               ^-- TimerQueueProofs

`TcpServer` composes server, acceptor, poller, connections and clients; it
keeps of a connection what the others see (its life cycle, events, descriptor
and how many bytes wait), while `TcpConnection` has one connection in full.
Where a module uses what another has established, it says so in a comment (the
pool's `StartReturns`).

In the component modules a definition marked `mutant` is a deliberately wrong
variant of the definition that follows it.  It is used by nothing; it is there
to show that the property named in `PROJECT.json` ("mutants") notices that
mistake.

**EventLoop.**  Several loops and threads.  A loop and the thread that created
it are one actor.  Every place where the library hands control to user code (a
handler, a functor, `main()` before `loop()`, a free thread) makes one call of
the interface, drawn from a constant set.  `queueInLoop()` is two steps, both
under the mutex: push and wakeup; `quit()` is two as well, as it takes no
mutex.  `doPendingFunctors()` takes the mutex in `SwapFunctors` and gives it
back in `EndPendingFunctors`, because the lock guard of the code lives that
long.  The eventfd is a counter that poll reports while it is not zero and
`handleRead()` clears.  `calling_pending_functors_` starts with either value.
`TypeOK` includes what `looping_` is for: it is on exactly while the thread is
inside `loop()`.
`TaskQueue` is what a caller of `queueInLoop()` is promised: a first-in
first-out queue per loop; it is refined with the functors of the running batch
in front of `pending_functors_`.

**Poller.**  Channels of one loop, each constructed, registered, changed and
destroyed at any moment user code runs, with the descriptors the kernel hands
out again.  `poll_fds` keeps descriptor and events of each entry,
`-fd - 1` for an ignored one; `index`, `channel_map` and the swap of
`removeChannel()` are as in the code, and every `assert()` is a condition whose
failure sets `failed`: to "owner" for the one on `owner_loop_`, to "removed" for
one in Poller met by a call on a channel that was removed before, to "poller"
for any other.  Calls on a removed channel are made because a connection that
outlives its `destroyConnection()` makes them (`connection_send`);
`AssertionsHold` is about the third kind, `OwnerAsserted` about the first.
`destroyConnection()` is the only way a channel is removed, and it runs as a
functor; the channel is destroyed, and its descriptor free, some time later
(`FreeChannel`).  Channels are dispatched in any order, which covers
the order of `poll_fds_`.

**EventLoopThreadPool.**  The owner of the pool and the threads it creates,
with `Thread::start()`, the latch, `startLoop()`, `IOThreadFunc()`,
`getNextLoop()` and `~EventLoopThread()`.  A wait on a condition variable is a
state only a notification or a spurious wakeup leaves.  The loop inside a
thread is reduced to `quit_`, the eventfd and the check of `quit_`.

**Buffer.**  One buffer with its vector and indices; every `assert()` is a
condition.  Callers respect the documented arguments (`retrieve()` at most what
is readable, `prepend()` at most what fits).  `ByteQueue` is the queue of bytes
it implements under the mapping `Content`.

**TcpConnection.**  One connection in a server without I/O threads, from
`newConnection()` to the end of `destroyConnection()`, with the loop's thread
(poll, callbacks, functors), its peer, user code that gets control in
`connection_cb_`, `message_cb_`, `write_cmpl_cb_` or the callback of another
channel, and a second thread that calls `send()` and `shutdown()`.  `setup`
says, for a whole behaviour, which calls that thread makes and whether
`write_cmpl_cb_` is set; `Alone` is the setup without either.  Who holds a
`TcpConnectionPtr` is part of the state (`Alive`); functors made by
`send()` and `shutdown()` hold none.  In the `connection_cb_` of
`destroyConnection()` user code may keep the pointer it is given; what it calls
does nothing, as the state is Disconnected by then.  A message has two bytes so that write(2)
can take none, half or all of it.  SIGPIPE is ignored by the library, so EPIPE
is one more way for write(2) to take nothing.  The data read is not modelled:
`message_cb_` may do anything its interface allows.  Poll never reports a
connection that called `disableAllEvents()` (`Poller`, `DisabledIsSilent`), and
registering a removed channel fails (`UpdateAsserts`).  POLLHUP without POLLIN
and together with POLLPRI, which Linux does not report for TCP, is left out.

**TcpServer.**  `start()` and `loop()` as `example/main.cpp` calls them, a
second thread that calls `start()` again, the `Acceptor`, `connections_` under
the generated names, `channel_map_` of the Poller, the connections with
`EchoServer::onMessage()` as user code, and clients that connect, send, read,
close, abort and reset.  A connection object exists while `connections_` or a
`destroyConnection()` functor has a pointer to it; when the last one goes, its
descriptor is closed and may be the next that accept(2) hands out.  accept(2)
fails without a free descriptor, and may when the client has reset the
connection; both are only logged.  Bytes are counted per client: on their way
in, in `output_buffer_`, on their way out, received.  An error of a socket is
lost once it was logged, and the end of the stream follows.  With
`NumThreads` > 0, `getNextLoop()` picks a loop of the pool, and
`establishConnection()` finds itself in the wrong thread.

**TimerQueue.**  `timers_` as a set of timers with their expirations, the
timerfd as the ticks until it expires and whether an expiration is unread, and
two clocks: the wall clock, which expirations refer to and which may be set,
and the ticks on which the timerfd counts.  `howMuchTimeFromNow()` is the
difference of wall clock times with its floor of 100 microseconds
(`MinDelay`).  `handleRead()` is taken apart where user code runs: expired
timers are taken out, their callbacks made one by one, then `reset()` restarts
and re-arms; callbacks and handlers may add timers meanwhile, and another
thread may queue `addTimerInLoop()`.  Both assertions set `crash`.
`TimerService` is what a user of `runAt()`, `runAfter()` and `runEvery()` is
promised: no callback before its time, none lost, one per expiration.  The
mapping takes a timer whose callback was made as restarted, although `reset()`
comes later.

## 3. Runs

| Run | Shows |
|---|---|
| `loop_all` | two loops, one thread, a handler, a pre-loop call and functors that hand work from one loop to the other and quit it: types and `looping_`, `NoLostWakeup`, `NoCircularWait`, refinement of `TaskQueue`, `TasksRun`, `QuitEnds` |
| `loop_crosswise` (violation) | functors of two loops that queue into each other's loop wait for each other's mutex |
| `poller_safety` | four channels on three descriptors, `owner_loop_` right or wrong, calls on removed channels: types, `IndexInv`, `AssertionsHold`, `ActiveAlive`, `DisabledIsSilent` |
| `poller_reenable` (violation) | a channel disabled and enabled again is deaf |
| `pool_all` | two threads, whose creation may fail and whose loops may quit by themselves: types, `TidKnown`, `ReturnedLoopsAlive`, `RoundRobin`, `StartReturns`, `JoinReturns` |
| `pool_dangling` (violation) | the destructor's `quit()` touches a loop that is gone |
| `buffer_queue` | `IndicesOrdered`, `AssertionsHold`, refinement of `ByteQueue`, call by call (each call adds or takes exactly its bytes), with `shrink()` called on a front-aligned buffer |
| `connection_all` | the loop, alone and with a second thread: types, `BytesInOrder`, `OutputWatched`, `RegisteredAlive`; alone: `AloneNoCrash`, `GracefulShutdown`, `ShutdownCompletes`, `ClosedIsDestroyed` |
| `connection_send` (violation) | `send()` from another thread is not safe against the end of the connection |
| `server_all` | three clients, two descriptors, no I/O threads: types, `NoCrash`, `DescriptorsApart`, `MapIsCurrent`, `EchoConserved`, `ClientsServed`, `DescriptorsReturn` |
| `server_threads` (violation) | with I/O threads the first connection aborts the process |
| `timer_all` | three timers, one repeating, and a wall clock that is set once: types, `AlarmStands`, refinement of `TimerService`, `TimersFire` |

A violation run states what a comment or an assertion of the code says and shows
a behaviour of the code that breaks it; `PROJECT.json` ("findings") quotes the
line.  `loop_crosswise` has two loops; a functor that queues into its own loop is
the same with one.

More places where the code does not do what its lines say have a configuration
of their own, in which TLC finds the property violated.  They concern what the
runs above except or assume, so that the rest can be checked:

| Configuration | Property | Shows |
|---|---|---|
| `EventLoop_preloop.cfg` | `NoLostWakeup` | a functor that the loop's own thread queues before `loop()` is slept on, while `event_loop.cpp:105-107` allows leaving the wakeup out "only when queueInLoop is called in handleEvents()" |
| `EventLoop_quit.cfg` | `TasksBeforeQuitRun` | functors queued before `quit()` may never run, since `loop()` tests `quit_` before it drains again; `event_loop.cpp:129-130` wakes the loop "to handle tasks this thread has assigned" |
| `Poller_owner.cfg` | `OwnerAsserted` | `owner_loop_`, which nothing initialises, fails the assertion of `event_loop.cpp:59` at the first registration |
| `Pool_create.cfg` | `StartAlwaysReturns` | when `pthread_create()` fails, `startLoop()` waits for ever "until an EvenLoop is created" (`event_loop_thread.cpp:23`); `StartReturns` has that case as its one exception |
| `Buffer_shrink.cfg` | `IndicesOrdered` | `shrink()` after a `retrieve()` leaves indices outside the vector, against the picture in `buffer.h:19`; `buffer_queue` has `ShrinkAnywhere` = FALSE |
| `Connection_shutdown.cfg` | `DisconnectedIsFinal` | `shutdown()` of another thread, "thread safe" (`tcp_connection.h:45`), finds the state Connected, the loop destroys the connection, and then it becomes Disconnecting again |
| `Connection_complete.cfg` | `NoSelfWait` | with a `write_cmpl_cb_`, a `send()` of another thread makes the loop wait for its own mutex: `sendInLoop()` runs as a functor and queues the callback; `AloneNoCrash` leaves `write_cmpl_cb_` out |
| `Timer_exact.cfg` | `SplitIsClean` | a timer that expires exactly when `handleRead()` reads the clock fails the assertion in `getExpired()`; `TimersFire` has a stopped process as its exception |
| `Timer_equal.cfg` | `BatchRestarts` | two repeating timers with one interval that expire in one batch are restarted to the same time and fail the assertion in `insert()`, as two do that are set for the same time |
| `Timer_moved.cfg` | `SchedulingEnds` | with `MovedReads` = FALSE, which is what the standard library does, the first timer that becomes the earliest is read after it was moved away; `timer_all` takes the intended reading |

Some more of this kind has no configuration:

* A `quit()` that comes before `loop()` is overwritten by `quit_ = false`, and
  whoever joins the thread waits for ever; `JoinReturns` names it as its one
  exception (`lostQuit`).
* A `write_cmpl_cb_` that sends makes the loop wait for its own mutex without a
  second thread.
* `TcpServer::start()` is documented as thread safe; in a thread other than the
  loop's, the first call ends in `EventLoopThreadPool::start()`, which asserts
  the loop's thread.  The model lets other threads call it only afterwards.
* Setting the wall clock forward delays timers by as much: the timerfd is not
  set again.  `AlarmStands` has the amount as its one allowance.
* `bindOrDie()` and `listenOrDie()` log and go on, where `socket.h` says "abort
  if address in use".

**Bounds.**  `EventLoop`: each call of a repertoire is made once, so a queue
holds at most a handful of functors; two loops and one thread give every pair
of roles (owner and stranger, two strangers).  `Poller`: four channels are the
fewest for which a removal in the middle, a swap and the reuse of a descriptor
meet; each is constructed once, and the two that share a descriptor are
interchangeable (`Reusers`).  Its answers of poll are data, and a hang-up
with an error, which makes two callbacks.  `EventLoopThreadPool`: `MaxPicks` =
5 goes twice around two threads.  `Buffer`: the sizes are scaled down to 2
(front), 2 (initial) and 2 (extrabuf) with `MaxLen` = 3 and `MaxSize` = 7, so
that each of the three paths of `readFd()` and both of `makeSpace()` are taken
on both sides of their boundaries.  `TcpConnection`: two messages of two bytes,
which is what it takes for a message to meet an output that is half written.
`TcpServer`: three clients and two descriptors, so that one has to wait and a
descriptor is used again; one client sends two bytes through a socket that
takes one, one sends nothing, one may stall; each connects once.
`TimerQueue`: times up to 4, with a floor (`MinDelay`) of 2, so that delays
below, at and above it occur; an interval of one tick; one setting of the wall
clock, back or forward, by any amount.  Beyond `MaxTime` the wall clock stands
still and the timerfd goes on.

Runs that say `CHECK_DEADLOCK FALSE` are of systems that may stop: a loop that
has quit, a pool that is destroyed, a connection that has ended, or a deadlock
another run is about, a server all of whose clients are done, or a process an
assertion has stopped.

**Fairness.**  `EventLoop`, `EventLoopThreadPool`: every thread that can run
does (weak fairness of its steps), as the operating system schedules threads.
No I/O event, timeout of poll or spurious wakeup is promised, so progress rests
on the wakeups alone.  `TcpConnection`: the loop's thread runs (weak fairness);
and the peer does its part (strong fairness): the socket becomes writable again
and again and write(2) then takes something, and the end of the peer's stream
is reported and read after finitely much data.  Without the latter no
implementation could promise more.  `std::mutex` does not promise that a thread
that waits for it gets it while others take it again and again; `TasksRun` and
`QuitEnds` have that case (`HeldUp`) as an exception instead of assuming it
away.  `TcpServer`: the loop's thread and every client that is not in `Stalled`
take their steps (weak fairness); no client is made to connect, abort or reset.
`TimerQueue`: the loop's thread runs when there is something for it to do, and
time passes; no timeout of poll and no other event helps.

## 4. Proofs

The theorems hold for all values of the constants that satisfy the `ASSUME`s of
the component modules (sets of actors disjoint, functions of the right type).

* `EventLoopProofs`: `TypeCorrect`; `WakeupsSuffice`;
  `RankedLoopsNeverDeadlock`; `Refinement`.  The inductive invariant behind them is `TypeOK` with
  `LockInv` (whoever is inside `queueInLoop()` has the target's mutex; during a
  batch that is the loop itself, and its queue is empty; the batch is used up
  when it ends).  `NoLostWakeup` is inductive with it and with `PreLoopInv`
  under the assumption `PreLoopQuiet`: before `loop()` the loop's own thread
  queues nothing in it.  That assumption is needed (`EventLoop_preloop.cfg`).  Most steps move
  one actor and leave the queues alone; `LockKept` and `WakeKept` deal with them
  once.  `Refinement` needs `BatchUsedUp` for the step that swaps the queue.
  `RankedLoopsNeverDeadlock` says when functors that run under their loop's
  mutex do no harm: when the loops can be ranked so that a functor handed to a
  loop queues only into loops of lower rank (`LocksRanked`); handlers and
  threads, which hold no mutex, may queue anywhere.  `loop_crosswise` is what
  happens without such a ranking.  Its invariant adds to `LockInv` that
  the holder of a mutex is inside the section the mutex guards
  (`HolderIsInside`) and that every functor queued or running, and every call in
  progress, respects the ranking (`RankInv`); then of any set of loops each of which waits for one in the set,
  the one of lowest rank would wait for a lower one.
* `PollerProofs`: `TypeCorrect`; `PollSetConsistent` (`IndexInv`), whose inductive
  invariant adds to the agreement of index, set and map that open descriptors
  differ, that the map has no stale entry, and that a channel that is not yet
  constructed has index -1; `NoDanglingChannel`, with `TeardownApart`: channels
  are taken apart only in the functor phase, when nothing waits to be
  dispatched; `OnlyLateCallsFail` (`AssertionsHold`): whatever `owner_loop_`
  holds, and whatever callbacks and functors do, an assertion of Poller fails
  only for a call on a channel that was removed before;
  `DisabledStaysSilent`, which is inductive with the agreement of index and set,
  since an entry is reached through the index of its channel.
* `EventLoopThreadPoolProofs`: `TypeCorrect`, `TidIsKnown`, `LoopsStayAlive` and
  `RoundRobinIsFair`, for every number of threads.  Their invariant `PoolInv`
  says of each thread how far it is, given what it has published (`ThreadOK`:
  `tid_` before the latch, the latch before `loop_`), and how far the owner can
  have come (`OwnerOK`: threads ahead of it do not exist, one whose latch it has
  passed has counted down, and the loop of every thread behind it is
  published).  Neither half is inductive alone: the owner's step past a wait is
  justified by what the thread has done, and a loop is only known to be alive
  because its thread is past publishing it.
* `BufferProofs`: `IndicesStayOrdered`, `RoomIsAlwaysMade` and `BufferIsAQueue`,
  all under `~ShrinkAnywhere` (section 3 says why), with the invariant that the
  vector is never shorter than the room in front.  `BufferIsAQueue` rests on
  lemmas about the bytes between two positions of a vector: data copied right
  behind or right in front of them, the whole copied elsewhere, the vector made
  longer, the first position moved on (`CopiedBehind`, `CopiedInFront`,
  `CopiedWhole`, `GrownBehind`, `Dropped`), and what readv(2) split in two
  (`SplitIsWhole`).  With them `RoomKeepsContent` and `AppendedContent` say what
  `ensureWritableBytes()` and `append()` do to the content, and each call is
  shown to be its step of `ByteQueue`.
* `TcpConnectionProofs`: `TypeCorrect`, `StreamInOrder`, `WatchesOutput`,
  `NoDanglingChannel` for every set of messages and every setup, other threads
  included.  Their invariant `ConnInv` adds `Untouched` (before
  `newConnection()` nothing has happened) and `Removal`: the pointer of a
  registered channel's connection is in `connections_`, or in the queued
  `destroyConnection()`, or in the one that runs.  `RegisteredAlive` follows from
  it and is not inductive by itself, since a step that drops one pointer has to
  know of the next.  `SafeAlone` and `ShutdownIsGraceful` are about the setup `Alone` and rest on `AloneInv`: `LifeCycle` (the only
  functor is the one `destroyConnection()`, pending from the removal from
  `connections_` on; reading means being in `connections_`; a round of callbacks
  closes at most once) and `Shutdown` (the write side is shut only in
  Disconnecting or Disconnected, with no output left).  That `Alone` is needed
  is what `connection_send` and `Connection_complete.cfg` show.
* `TcpServerProofs`: `TypeCorrect`; `EchoIsConserved`, with `EchoInv` (a client
  has sent all its bytes or none, none before it connects; an accept event is
  pending only with someone in the backlog); `DescriptorsStayApart`, for any
  number of threads; `SafeWithoutThreads` and `MapStaysCurrent`, under
  `NumThreads = 0`, without which `server_threads` refutes the former.  Their
  invariant is `ServerInv`: either the process has ended in
  `establishConnection()` in the wrong thread, or `LifeInv` holds: every
  connection is at one place of its life, from the backlog through
  `connections_` and its `destroyConnection()` in queue and batch to gone
  (`ConnOK`), those in `connections_` are under their names (`NamesOK`), those in
  `channel_map_` are Connected and under their descriptors (`ChannelsOK`), open
  descriptors differ (`FdsApart`), and no `destroyConnection()` is queued twice
  (`QueuesOK`).  The reuse of a descriptor makes these one invariant: that the
  next accept may have it rests on the channel being gone, which rests on the
  order of the two steps of a close.
* `TimerQueueProofs`: `TypeCorrect`; `AlarmAlwaysStands`; `TimersServed`.  Their
  inductive invariant is `TypeOK` with `OnePlace` (a constructed timer waits in
  the queue of functors, or is in `timers_`, or in the batch: never in two of
  them, nor twice in the queue) and `BatchInv` (the batch exists only during
  `handleRead()`, and the clock was read past all of it).  `AlarmStands` is
  inductive only with `ZeroIsArmed`: `reset()` takes an expiration of 0 for
  "none" and leaves the timerfd alone, so it has to be armed for that timer
  already; that is so because only a callback of the same batch can have added
  it, and it was the earliest then.  The steps of the clocks need `Delay` to
  shrink by no more than the clock moved forward.  In `TimersServed` adding a
  timer is `Set`, reading the clock `ReadClock`, a callback `Fire`, and all
  other steps stutter: a functor moves a timer from one place to another, and
  `reset()` does what the mapping counted as done at the callback.

Only model-checked: everything that says something happens in the end
(`TasksRun`, `QuitEnds`, `StartReturns`, `JoinReturns`, `ShutdownCompletes`,
`ClosedIsDestroyed`, `ClientsServed`, `DescriptorsReturn`, `TimersFire`), since
liveness under fairness is beyond the prover.  Every invariant, action property
and refinement a passing run checks is proved as well.

## 5. Not modelled

`TimerQueue::cancel()` is declared and not defined, and `TimerId` is of no use
without it.  Formatting of timestamps and addresses, and socket options, have no
state.  Logging exists as declarations only; `Buffer::swap()` is called by
nothing; thread names, and threads that nobody joins, do not touch what is
checked.  `~EventLoopThread()` of a thread that was never started dereferences a
null `loop_`; the pool never creates one.  `~TcpServer()` drops its connections
without removing their channels; `main()` destroys the server only after
`loop()` has returned, and nothing in the repository makes it return.  Data
races on plain members (`TcpConnection::state_`, `listenning_`) are modelled as
atomic reads and writes, as an aligned enum or bool is on the platforms this
code builds for.  A server with I/O threads is modelled up to its first
connection, where the process ends.

## 6. Plan

The safety properties of the runs are proved.  What is left:

1. `shrink()`: that `~ShrinkAnywhere` is the weakest condition on its callers,
   i.e. from any other reader position the content changes or the indices leave
   the vector.
2. Safety halves of the liveness properties: that a loop that was told to quit
   always has its eventfd readable while it sleeps, and that a connection that
   is closed always has its `destroyConnection()` pending, from which the fair
   steps of `QuitEnds` and `ClosedIsDestroyed` follow.
