# PracticeMuduo in TLA+

LearningMuduo holds an implementation of the muduo network library in C++
(`PracticeMuduo/`) and a number of programs around it.  This directory models
the library, the protobuf service of `src/protobuf/codec` and the two servers of
`src/idleconnection`: what their threads share, in which order they touch it, and
what the code promises about it.  TLC checks the models on small instances; TLAPS proves
the safety of the event loop and its thread, of both pollers, of the timer queue, of
the TCP server and client, of the Buffer, of the logger and its files, of the generated
message classes and of the idle connection servers, for every number of threads,
channels, timers, connections, lines and calls.

Paths below are relative to the repository's `PracticeMuduo/` unless they start
with `src/`.

## 1. Inventory

### Reactor

**EventLoop** (`reactor.muduo/EventLoop.cpp`).  One thread calls `loop()`: it
polls, runs the handlers of the active channels and then the functors queued by
others.  State: `looping_`, `quit_`, `callingPendingFunctors_`, the vector
`pendingFunctors_` under `mutex_`, the eventfd `wakeupFd_` with its channel, the
list `activeChannels_`.  Any thread may call `runInLoop()`, `queueInLoop()` and
`quit()`.  Hard: the push of a functor and the write to the eventfd are two
steps, so are `quit_ = true` and its write, while the loop thread may be about
to poll; functors queue functors; the vectors are swapped under the pushers.
Correct when no functor and no `quit()` waits for the ten-second poll timeout,
and functors run once each in the order they were queued.

**EventLoopThread** (`reactor.muduo/EventLoopThread.cpp`, `thread.muduo/`).  A
thread with an `EventLoop` on its stack, published in `loop_` under `mutex_` and
announced on a condition variable.  Hard: the start handshake, and a destructor
that reads `loop_` without the lock while the thread may be leaving `loop()`.
Correct when `startLoop()` returns, the destructor ends and the thread never
touches the members of a destroyed object.

**EventLoopThreadPool** (`reactor.muduo/EventLoopThreadPool.cpp`).  `loops_` and
the round-robin index `next_`.  Used by the TcpServer from the base thread.

**Channel** (`reactor.muduo/Channel.cpp`).  A descriptor, the events asked for
(`events_`) and reported (`revents_`), the poller's note `index_`,
`addedToLoop_`, an optional `tie_`.  Must be removed before it is destroyed, and
not while it is in `activeChannels_` unless it is the one being handled.

**EPollPoller** and **PollPoller** (`reactor.muduo/`).  Both keep `channels_`,
descriptor to channel; the first mirrors it in the kernel's interest list and
keeps one of three marks in `index_`, the second keeps a vector of `pollfd` with
each channel's position in `index_` and fills holes with the last element.
Three copies of one fact have to agree after any order of calls.

### Timers

**TimerQueue**, **Timer**, **TimerId** (`TimerQueue.muduo/`).  Two sets of the
same timers (`timers_` by time, `activeTimers_` by address and sequence number),
the batch `expired_` while callbacks run, `cancelingTimers_`, a one-shot timerfd,
and the counter that numbers timers.  `addTimer()` and `cancel()` go through the
loop's functors when called from another thread.  Hard: cancels from inside a
callback, of the running timer or of another one of the batch; addresses that
are used again; three different readings of the clock in one expiry; a timerfd
that nobody arms again.

### TCP

**Acceptor**, **TcpServer** (`tcp.muduo/`).  The base loop accepts, gives each
connection to the next io loop and keeps it in `connections_`.

**TcpConnection** (`tcp.muduo/TcpConnection.cpp`).  `state_`, a channel, the two
buffers, the callbacks.  Closing goes from the io loop to the base loop and back
to the io loop, over two functor queues, while the program may go on calling
`send()`, `shutdown()` and `forceClose()` from its callbacks and from other
threads.  Correct when every connection is reported UP and DOWN once each in its
own loop, is alive as long as a poller points to its channel, passes every
assertion, and a closed peer leads to the end of the connection.

**Connector**, **TcpClient** (`tcp.muduo/`).  A nonblocking connect with retry
and exponential backoff, `stop()` and `restart()`; the client owns the one
connection.  Hard: `stop()` does not cancel the retry timer, the channel is
reset one functor later, handlers are bound to a plain `this`, and `~TcpClient`
in another thread races `newConnection()`.

**Buffer** (`tcp.muduo/Buffer.h`).  A vector with a reader and a writer index;
grows or moves its content in `makeSpace()`; `readFd()` reads past its end into
a stack buffer.  Correct when it behaves as a queue of bytes, whatever happens to
the storage, and `makeSpace()` picks the branch whose assertion holds.

### Logging

**AsyncLogging** (`logging.muduo/AsyncLogging.cpp`).  Front-end threads append to
`currentBuffer_` under a lock and hand full buffers to `buffers_`; a thread swaps
that vector out, writes it and recycles two buffers.  Hard: a signal sent without
the lock by `stop()`, messages left behind at the end, buffers dropped when more
than 25 pile up, a timed wait whose timeout aborts the process
(`port/port_posix.cpp:76` with `:9`).

**LogFile**, **AppendFile**, **FixedBuffer**.  When to roll and to flush; short
writes; how much room a buffer has left.

**LogStream**, **Logging**.  One line, put together within one thread: integers and
pointers by `convert()` and `convertHex()`, strings, the text around them.

### Programs on top of the library

**Generated protobuf classes** (`src/protobuf/codec/query.pb.{h,cc}`): `Query`,
`Answer` and `Empty`.  Presence bits, string fields that share one empty string until
they own theirs, repeated fields, bytes of unknown fields.  Correct when the bits say
which fields are set after any sequence of calls, and parsing gives back what was
serialized.

**Codec, dispatcher, client and server** (`src/protobuf/codec/`).  Frames of length,
type name, message and checksum over a stream that cuts them anywhere; a callback per
type; a server that answers one query and shuts down.  Hard: a frame is removed only
after its callback, and a bad one stays in the buffer.

**Idle connections** (`src/idleconnection/`): two echo servers that close connections
from which nothing comes.  `echo.cc` has a wheel of buckets of reference-counted
entries, `sortedlist.cc` a list ordered by the time of the last message.  Hard: the
bounds on when a silent connection goes, a scan that trusts an order made of two
clock readings, a wall clock that is set back.

### The rest

Sockets, addresses and byte order (`socket.muduo/`), pthread wrappers (`port/`,
`thread.muduo/`), atomics, value types (`common/`, `Timestamp`): wrappers or
values without control of their own.
`src/base`, `src/ch2`, `src/logging`, `src/common`, `src/protobuf/descriptor_test`,
`issues/`: exercises, earlier copies and a reduced copy kept to reproduce a problem.

`PROJECT.json` lists every part with its status, and the hazards of the code
with the property that answers each, or the reason why none does yet.

## 2. Modules

| module | models | composes |
| --- | --- | --- |
| `EventLoop` | `loop()`, `quit()`, `queueInLoop()`, `runInLoop()`, `doPendingFunctors()`, `wakeup()`, `handleRead()` | |
| `SerialExecutor` | abstract specification: functors accepted, and done in that order | |
| `EventLoopThread` | `startLoop()`, `threadFunc()`, `~EventLoopThread`, `Thread::start/join` | every step of `EventLoop` |
| `EventLoopProofs` | the proofs about the loop, alone and inside its thread | `EventLoopThread`, `SerialExecutor` |
| `Channel` | construction, the enable and disable calls, dispatch, destruction; `index_` and `channels_`, which either poller writes | |
| `EPollPoller`, `PollPoller` | `updateChannel()`, `removeChannel()`, `poll()` | `Channel` |
| `PollerProofs` | the proofs about both pollers | `EPollPoller`, `PollPoller` |
| `TimerQueue` | `addTimer()`, `cancel()`, `handleRead()`, `reset()`, the destructor, `Timer`, the sequence counter | |
| `TimerQueueProofs` | the proofs about `TimerQueue` | `TimerQueue` |
| `TcpConnection` | a connection's state and operations, as actions on it | |
| `TcpServer` | `start()`, `newConnection()`, `removeConnection()`, the Acceptor, the thread pool, the loops that run all of it | `TcpConnection` |
| `TcpServerUse` | the program's other threads that hold a `TcpConnectionPtr`, and the properties of the server | `TcpServer` |
| `TcpServerProofs` | the proofs about the server | `TcpServerUse` |
| `Connector` | `start()`, `stop()`, `restart()`, `connect()`, `retry()`, the handlers of a connect that ends | |
| `TcpClient` | `connect()`, `disconnect()`, `stop()`, `newConnection()`, `removeConnection()`, the destructor, the one connection and the loop that runs all of it | `Connector` |
| `TcpClientProofs` | the proofs about the client and its Connector | `TcpClient` |
| `Buffer` | the vector and its two indices, and every call that changes them | |
| `ByteQueue` | abstract specification: a queue of bytes, open at the front for `prepend()` | |
| `LogStream` | `FixedBuffer`, the `operator<<` of a LogStream, the line of a Logger | |
| `LogFile` | `LogFile` and `AppendFile`: append, flush, roll, short writes | |
| `AsyncLogging` | `append()`, `threadFunc()`, `start()`, `stop()`, `LOG_FATAL` | `LogStream`, `LogFile` |
| `AsyncLoggingProofs` | the proofs about the logger, its files and its numbers | `AsyncLogging` |
| `WireFormat` | the calls of the protobuf library that the generated classes make; external | |
| `QueryMessages` | `Query`, `Answer`, `Empty`: construct, clear, merge, parse, sizes, serialize | `WireFormat` |
| `MessageObjects` | two message objects under any sequence of calls | `QueryMessages` |
| `ProtobufCodec` | `fillEmptyBuffer()`, `onMessage()`, `parse()`, the checksum | `QueryMessages` |
| `QueryService` | `client.cc`, `server.cc`, the dispatcher, the stream between them | `ProtobufCodec` |
| `MessageProofs` | the proofs about `Buffer` and the messages | `Buffer`, `ByteQueue`, `MessageObjects` |
| `IdleConnections` | `echo.cc` and `sortedlist.cc` with the loop that runs either | |
| `IdleConnectionsProofs` | the proofs about both servers | `IdleConnections` |

Each `MC*` module names the model values of the instance TLC checks.  An operator
whose name ends in `_Something` next to another definition is that definition
with one mistake in it; it is never used by a specification, only to see that a
property notices the mistake.

**Granularity.**  In `EventLoop` and `EventLoopThread` each access to shared
state outside a lock is a step; a critical section is one step, since none of
them blocks inside.  In `EventLoop` user code is any sequence of calls made at
the points where the loop thread is in a callback, in a functor, or outside
`loop()`.  In `TimerQueue` the loop's functor queue is a FIFO, which is what
`EventLoop` shows it to be; the load and the store of the sequence counter are
two steps.  In the TCP modules a functor, a channel's handler and a user callback
of one loop are steps, and the loops interleave; a call from another thread takes one
step for each piece of state it shares with the loop.  In `AsyncLogging` a critical
section and each unlocked access are steps of the front end, the logging thread or the
owner.  In `QueryService` one turn of the loop of `onMessage()` is a step, and so is the
arrival of any number of bytes.

**State.**  Variables with a trailing underscore are members of the class of the
same name.  Others are the kernel's state (`wakeupFd_`'s counter, `ready`,
`armed`, `eof`), a program counter (`pc`, `thr`, `own`, `cb`), a local of a
function that another thread can see the effect of (`functors`, `toRun`), or a
history variable, marked as such.

In `Buffer` a call is a step: a Buffer belongs to one thread.

**Data.**  A functor, a channel, a timer's address are model values.  A message
is a unit of `outputBuffer_`: what is told apart is whether anything unsent is
left.  Times are ticks of 100 microseconds, the least `howMuchTimeFromNow()`
waits.  An event mask is a subset of `{"in", "out", "rest"}`, `rest` standing for
all the other bits, because `events_ |= ~kWriteEvent` sets them.  In `Buffer` the
bytes themselves are kept, since the question is where they end up; the integer
calls (`appendInt32()`, `readInt16()`, ...) are the calls they end in.  The protobuf
modules work on bytes, since encoding and parsing are what is asked about; a text of a
log line is a sequence of characters, the fixed parts being one character each.  A
descriptor names its connection in `TcpClient`.

**Failure.**  A failing assertion or a `LOG_FATAL` sets `failed` and nothing
follows it.  A call on a destroyed EventLoop, where the code can make one, has
every outcome a build can produce, of which `crashed` is one.  In `AsyncLogging` `dead`
says why the process ended: an assertion, the abort of a timed wait, `LOG_FATAL`, or a
write past the end of a buffer, which is undefined.

## 3. Runs

| run | instance | shows |
| --- | --- | --- |
| `event_loop` | 2 other threads, 2 functors, 1 channel, 2 calls of `loop()` | `NoLostWakeup`, `NoLostQuit`, `FunctorsInOrder`; the loop implements `SerialExecutor` (`ImplementsExecutor`); a queued functor runs (`QueuedFunctorRuns`) and `quit()` stops the loop (`QuitStopsLoop`) without the poll timeout |
| `event_loop_thread` | one owner, code of the program in both threads, which may stop the loop at any time | `startLoop()` returns, the destructor ends when the loop runs, the thread touches no destroyed member |
| `epoll_poller` | 3 channels, two of them on one descriptor, every call | `index_`, `channels_` and the kernel agree unless `disableReading()` or `disableWriting()` set bits; no dead channel is dispatched to |
| `poll_poller` | 4 channels on 3 descriptors, descriptor 0 among them, any order of calls | each `index_` points at its own `pollfd` after every order of updates and removals; poll() watches what was asked for until `disableAll()` and nothing after it; an assertion fails exactly when a channel is misused (section 5) |
| `timer_queue` | 2 timers, 2 addresses, the loop thread and another one, both inside `incrementAndGet()` if they like | the two sets agree and a Timer has one owner (`OwnedOnce`), the timerfd is armed, cancels are exact, a due timer runs |
| `tcp_server` | 2 connections, with or without an io loop; one is used in its callbacks and once from another thread, and forced to close up to twice | UP and DOWN once each and in order, no failed assertion but in the cases of section 5, alive while registered, nothing written after the FIN, a closing peer ends the connection |
| `tcp_client` | 3 descriptors, two delays, up to three calls in any order from either thread, callbacks that take longer than timers, destruction in the loop thread | an assertion fails only in the cases of section 5, every descriptor has one owner, `stop()` is final, an unfinished connect is tried again, a destroyed client leaves nothing behind |
| `buffer` | two values of a byte, 2 bytes kept for `prepend()`, a vector of 4 to 7 bytes | the indices stay in order, the assertions of `makeSpace()` and `ensureWritableBytes()` hold, the Buffer implements `ByteQueue` |
| `message_objects` | two objects of a class, two ids, two texts, five inputs | presence bits and fields agree after any calls; what is serialized has the announced size and parses back, and concatenation merges |
| `query_service` | 14 scripts of good and bad frames, cut at any place | what is delivered is what was sent up to the first bad frame, and every client ends, with its answer if it asked |
| `async_logging` | 3 lines, 2 seconds, one short `fwrite()` | the assertions of `threadFunc()` hold, every line is in one place and in order, what was taken is on disk when the thread waits, numbers read back |
| `idle_connections` | 2 connections, 6.5 seconds, a clock set back once | a silent connection is shut within the bound, no other is, the list matches the connections |

Where the code fails its own promise under some use of it, the property says exactly
when: `LoopRunning` in `DestructorEnds`, the bits in `KernelAgrees`, `past` in `IndexAgrees`,
`TimerIdsDistinct` in `CancelIsExact`, `ClosedTwice` and `late` in `NoFailure`, `careless`
and `overruled` in the client's properties, `output.faults` and `dead` in the logger's.
Each of these cases is reached in its run, but for two timers with one TimerId, which
takes four timers: `timer_queue` without its liveness property, with `MaxCreated` = 4,
`MaxTime` = 3 and `MaxPending` = 1, reaches it and passes too (7.2 million states).
Section 5 tells what happens in each case.

**Bounds, and why they are enough.**

- `MaxWakeups` bounds the eventfd's counter for calls of `quit()` only: one
  pending write is enough to keep poll() from blocking, a second one changes
  nothing that the code can see.  Functors are submitted at most once each, which
  bounds all the other writes.
- `MaxLoops` = 2 lets a loop be left and entered again, with functors and a
  `quit_` left over from the first time.
- Two functors and two other threads give every order of two pushes around the
  swap, a functor that queues a functor, and a `quit()` between them.
- The pollers need two channels that share a descriptor, registered in turn (a map
  entry or a kernel entry left behind by the first hurts the second; both objects may
  live, as Connector's channel and TcpConnection's do until `resetChannel()`), and the PollPoller
  also a removal from the front, the middle and the end of the vector; descriptor
  0 is there because a disabled entry stores `-fd-1`.
- `MaxTime`: the clock stops at the bound, and the last tick is only taken when
  the loop has nothing left to do at the one before, so that no timer is reported
  as never run because time ended.  `MaxCreated` timers at as many addresses let
  an address be used again; `MaxPending` is the length of the functor queue at
  which other threads wait.
- `MaxSends` = 1 message per connection is enough to have something unsent.
- `kCheapPrepend`, `kInitialSize` and `kExtra` are 2 instead of 8, 1024 and 65536,
  and `MaxLen` = 3 bytes per call is more than each of them: a call may fit, need
  the move, need the vector to grow, or go through `extrabuf`, and `prepend()` may
  move the reader index below `kCheapPrepend`.  `MaxSize` = 7 lets the vector grow
  more than once.  The theorems have no bounds.
- `tcp_server`: the program uses one of the two connections (`Used`), calls
  `forceClose()` on it up to twice (`MaxForces`) and calls once from another
  thread (`MaxCalls`), so that a connection can be closed by the peer, by a callback
  and by the other thread in any combination of two; the other connection shares its
  loops.  The theorems hold for every value of the bounds.
- `tcp_client`: three descriptors are an attempt, a connection that is being destroyed
  and one to reuse; delays 1 and 2 have the backoff reach its limit.  `MaxCalls` = 3
  calls reach `connect()`, `stop()` and `connect()` around a retry timer, and a
  `disconnect()` between two of them.  The theorems hold for every value of the bounds.
- `message_objects`: the id 300 takes two bytes on the wire; one repeated item and one
  unknown field; inputs that stop inside a field, have an unknown field, a known one
  with the wrong type, or a tag 0.
- `query_service`: `kMaxMessageLen` is 64; one letter stands for each text.
- `async_logging`: buffers of 10 characters hold two lines, files roll after 6
  characters, `kMaxBuffers` is 3 instead of 25, so that three lines and the logging
  thread's own buffers reach each of them; `checkEveryN_`, which the code never sets,
  is 0 or 2.
- `idle_connections`: a second is two units, a round of the loop may take one, the idle
  time is two seconds; `MaxTime` lets a connection be heard, fall silent, be shut down
  and be closed by force.  The clock is set back by one unit at any moment, and the
  timers, which are points of the wall clock, come late by as much.  The bounds in
  `SilentIsShut`, `OnlySilentIsShut` and `ListMatchesConnections` are tight, with and
  without a setback: smaller ones are violated.

Deadlock is checked for `buffer` and `message_objects`: each of the other systems may
stop, when the owner has left, the queue is destroyed, the connections are closed or
nothing is asked of it.

**Fairness.**  `EventLoop`: weak fairness of the loop thread's own steps and of a
pending `Wakeup`, that is, the operating system schedules the threads and user
callbacks return.  `PollTimeout` gets none, so that nothing rests on the
ten-second timeout.  `LoopEnter` gets none: nobody has to call `loop()`.
`EventLoopThread`: the same, with the steps of the thread and the owner's steps
inside `startLoop()` and the destructor.  `TimerQueue`: the loop thread's steps,
functors, the end of `addTimer()`, and the clock.  `TcpServerUse`: each loop's steps.
`TcpClient`: the loop's steps and those of a call that another thread has begun, and
strong fairness of a poll() that reports the timer: a timer that is set expires, even
if poll() could report other descriptors each time.  `QueryService`: some step is taken
as long as there is one, that is, bytes that were sent arrive and handlers return; each
step uses something up.  Peers and the program never have to do anything.

## 4. Proofs

`EventLoopProofs` proves, for any sets of threads, functors and channels and any
bounds, from `LoopAssumption` (the loop thread is not among the others; the bounds
are natural numbers):

- `TypeCorrect`: `TypeOK`, which also says that `looping_` and
  `callingPendingFunctors_` are true exactly inside `loop()` and
  `doPendingFunctors()`.
- `WakeupNeverLost`: `NoLostWakeup`.  As it stands it speaks of poll() only and
  is not inductive: a functor may be pushed anywhere.  The strengthening
  `WakeupInv` says that what is pending was queued before `loop()` or has a wakeup
  underway, everywhere but between the return of poll() and the swap, where the
  functors are about to be taken whatever the eventfd holds.  The step that needs
  it is the one back to poll(): what was pushed while functors ran was pushed by a
  thread that writes to the eventfd, or by the loop thread with
  `callingPendingFunctors_` set, which writes as well, and nothing resets the
  eventfd before the next poll().
- `QuitNeverLost`: `NoLostQuit`, inductive with `TypeOK`.  A `quit()` by the loop
  thread needs no write, since the loop thread is not in poll() then and tests
  `quit_` before it gets there.
- `FunctorsRunInOrder`: `FunctorsInOrder`.  The strengthening `FunctorsInv` adds
  that the local vector is empty outside the part that runs it, without which the
  swap would lose its remains.
- `LoopImplementsExecutor`: every step of `Spec` is a step of `SerialExecutor` or
  leaves the functors accepted and done as they were, by the same invariant.

The lemmas about sequences (`RangeOfAppend`, `MoveHead`, `AppendToLast`) say how
`Append`, `Head`, `Tail` and `\o` move one functor from a vector to the next.

Each lemma about a step speaks of `LoopNext`, that is `Next` or a `quit()` of any thread
at any time: the steps of an owner of the loop are covered by it too.

`EventLoopProofs` goes on with the loop inside its thread, from `ThreadAssumption` (the
owner is one of the other threads) besides:

- `ThreadOutlivesNoMember`: `NoMemberUseAfterDestroy`.  The strengthening `ThreadInv`
  relates where the owner and the thread can be at the same time; the step that needs it
  is a destructor that reads `loop_ == NULL` and leaves without `join()`: the thread is
  past its last access then.
- `ThreadLoopIsReliable`: `NoLostWakeup`, `NoLostQuit` and `FunctorsInOrder` of the loop
  inside, under `SpecThread`: each step of the composition is a step of `LoopNext` or
  leaves the loop alone.
- `ThreadImplementsExecutor`: the composition refines `SerialExecutor`.

`PollerProofs` proves, from `ChannelAssumption` (descriptors are natural numbers; several
channels may have the same one), for any set of channels:

- `KernelAlwaysAgrees`: `KernelAgrees`.  `EPollInv` adds that `ChannelMap`
  and the interest list hold living channels under their own descriptor, and where the
  dispatch is.  That the only failure is a mask with other bits is part of it.  Callers
  are trusted with one thing, `OwnsFd`: no channel is used while another one is registered
  for its descriptor.
- `IndexAlwaysAgrees`: `IndexAgrees`.  `PollInv` says that entry and `index_` point at
  each other, entry by entry, and that there are as many entries as registered channels
  (`CountInv`), and that a channel's `past` tells whether its descriptor is negated; the
  lemma about `removeChannel()` follows the last entry into the hole,
  whether it is ignored (`-fd-1`) or not.
- `EPollDispatchedChannelsLive` and `DispatchedChannelsLive`: `NoDanglingChannel` under
  either poller, from the part of the invariant about the dispatch: what is still to be
  reached is registered, and only the channel whose callback runs may go.

`TimerQueueProofs` proves, from `TimerAssumption` (the loop thread is one of the threads,
bounds are natural numbers), for any addresses and threads:

- `TimersOwnedOnce`: `OwnedOnce`.  `OwnInv` has the three facts apart: an owner (the set,
  the batch, a queued `addTimerInLoop()`, a thread inside `addTimer()`) points to a live
  Timer and knows its key, no two owners have the same one, every Timer has one;
  `activeTimers_` is `timers_` with other keys.  Nothing in it needs distinct sequence
  numbers: two entries with one TimerId would have one address.
- `TimerfdAlwaysArmed`: `TimerfdArmed`, inductive with `OwnInv`: `cancel()` may leave the
  timerfd armed too early, never too late.
- `CancelAlwaysExact`: `CancelIsExact`.  `CountInv` bounds the TimerIds by the timers
  created, so that one more with a number that was used makes them not distinct;
  `FateInv` says what became of each; `FreshInv`, as long as TimerIds are distinct, that
  no cancelled one waits, is queued or is being built, and that `reset()` knows those of
  the batch.

`TcpServerProofs` proves, from `ServerAssumption` (the base loop is not in the pool, and
the model values differ), for any number of connections and io loops, with io loops or
without, and any calls of the program and its threads:

- `ServerAlwaysSafe`: `ServerInv`, from which `RegisteredAlwaysAlive`
  (`RegisteredIsAlive`), `CallbacksFollowProtocol` (`CallbackProtocol`), `FinComesLast`
  (`NothingSentAfterFin`) and `FailuresAreExplained` (`NoFailure`) follow.  None of the four
  is inductive: a connection is kept alive by a functor on its way, so that the invariant
  (`Life`) has to say, for each phase of a connection, which functors are queued in which
  loop, how often, and what the map, the channel, `state_` and the callbacks say
  meanwhile (`BeforeUp`, `WhileServing`, `WhileClosing`, `WhileForcing`, `States`,
  `InItsLoop`).  `Untouched` is the frame: a step of one connection keeps `Life` of every
  other.  `CloseStep` is the one argument about `handleClose()`, which the end of the
  stream, `forceCloseInLoop()` and the functor `removeConnectionInLoop` share.
  In a state after a failed assertion nothing moves, and only `SafeInv` is claimed.

`TcpClientProofs` proves, from `ConnectorAssumption` (`NoFd` is no descriptor, the
first retry delay is positive and not above the largest) and `ClientAssumption` (the
Connector's channel and the timerfd, which poll() reports under the names "connector" and
"timer", are not descriptors of connections; `MaxCalls` is a natural number), for any
set of descriptors and any number of calls:

- `ClientAlwaysConsistent`: `ClientInv`, from which the other four follow.  Queues of
  functors and timers are described by what is in them (`Has`), how often (`Once`) and
  in which order (`Precedes`); the lemmas about `Append`, `Tail` and the expired part of the timers
  are stated for these once.  `OpenInv` holds as long as no assertion has failed, and
  also says that the Connector is connected while the client has a connection or is
  about to call `restart()`; `LifeInv` holds as long as the client was not used in one of
  the ways that `careless` records and section 5 describes; `StopInv` and `TryInv` always.
- `AssertionsAlwaysHold`: `ClientAssertionsHold`.  An assertion about `channel_` at the
  next attempt rests on the reset of the channel having run, one functor after the
  attempt ended.  `AttemptInv` says that a channel is set only during an attempt or with
  that functor queued.  A timer that does not overtake it (`Overtakes`) and a `connect()`
  of a Connector that is not `Busy` find neither, and `StartInv` keeps it so until the
  attempt of a `connect()` begins.
- `OwnersAlwaysLive`: `OwnersAreLive`.  `OpenInv` says that an open descriptor is that of
  the attempt or of a connection, never of both; `GoneInv` that the timer
  `removeConnector` is set as long as a functor or the attempt needs the Connector of a
  destroyed client; `ConnInv` that a connection is watched until it closes and that
  `connectDestroyed()` is then queued once, after every `shutdownInLoop()`.
- `StopAlwaysFinal`: `StopIsFinal`.  A `stop()` of another thread takes three steps;
  `StopInv` says what is left of it, and that an attempt still under way has
  `stopInLoop()` ahead of it.  The retry timer that `stop()` does not cancel finds
  `connect_` false.
- `AlwaysKeepsTrying`: `KeepsTrying`, inductive as `TryInv` with `LifeInv`: a functor or
  a timer that starts an attempt is used up only by the attempt.

`MessageProofs` is about bytes and messages.  Of the Buffer it proves, from
`BufferAssumption` (the sizes are natural numbers and 0 is a byte):

- `TypeCorrect`: `TypeOK`, the picture above the class (`Buffer.h:23`), which is
  inductive; that the vector is never shorter than `kCheapPrepend` belongs to it,
  since `retrieveAll()` sets both indices there.
- `AssertsHold`: `NoAssertFails`.  The moving branch of `makeSpace()` is taken when
  `writable + prependable >= len + kCheapPrepend` and `writable < len`, which gives
  `kCheapPrepend < readerIndex_` also after `prepend()`.
- `ImplementsQueue`: `IsByteQueue`.  One lemma per operation says what it does to the
  content (`EnsureMakesRoom`, `FilledHolds`, `AppendAdds`, `RetrieveTakes`,
  `PrependAdds`, `UnwriteTakes`, `ShrinkKeeps`, `ReadAdds`); `StepOfQueue` combines
  them, one step per action.

Of the messages it proves, from `InputsAssumption` (what is parsed is a
sequence of numbers):

- `BitsAlwaysMatch`: `BitsMatchFields`, inductive once it is said that both objects are of
  one class (`ObjectsConsistent`).  One lemma per operation: `CallsKeep`, `ClearKeeps`,
  `MergeFromKeeps`, `CopyFromKeeps`, `CopyKeeps`, `SwapAndMoveKeep`, `ParseKeeps`, each
  by cases on the class.  `Clear()` empties only the strings whose bit is set: that the
  others are empty already is the invariant itself.  A parser that fails inside a string
  has set its bit already, and the field has a string of its own by then.  The loop of
  the parser is an induction over its turns (`TurnsExists`, `MergeFieldsKeeps`); nothing
  about the bytes is needed.

`IdleConnectionsProofs` proves, from `IdleAssumption` (a second, the idle time, the delay
of `forceCloseWithDelay()` and the length of a round of the loop are positive), for any
connections and any times:

- `IdleAlwaysConsistent`: `IdleInv`, from which the other three follow.  `OnTime` bounds
  how late a timer is, on the wall clock with which it is compared: by less than a round
  until poll() reports it, and by another one until its callback runs.  Setting the clock
  back makes the timer less late on that clock, and the time longer by as much, once.  `WheelInv`: the last bucket that holds the Entry of a
  connection bounds its silence from both sides, which the rotation of the wheel, one
  bucket per `onTimer()`, keeps.  `ListInv`: the list holds each live connection once, in
  the order of the last messages up to the length of a round, and `lastReceiveTime` is
  what the wall clock showed then, which has been set back since by no more than `back`.
- `SilentAlwaysShut` and `OnlySilentAlwaysShut`: `SilentIsShut`, and the action property
  `OnlySilentIsShut`.  The bounds are those that the run shows to be tight.
- `ListAlwaysMatches`: `ListMatchesConnections`.

`AsyncLoggingProofs` proves, from `StreamAssumption`, `FileAssumption` and
`LoggingAssumption` (a number fits in the small buffer and the small buffer in the large
one; sizes and intervals are natural numbers; a buffer limit of 2 at least, which
`threadFunc()` keeps when it drops), for any lines, any blocks, any number of seconds and
any `checkEveryN_`:

- `InvAlways`: `Inv`, from which the other three follow.  `FrontInv` says what
  `append()` finds, `BackInv` which of the logging thread's two buffers are there: in a
  round one or both were given to the front end, and there are as many buffers to
  write, so that they can be taken back, also after the drop.  `FileInv` describes the
  files and the open FILE.  `LinesInv` is about the content: there is a line up to which
  all that was not dropped is in the files or among the buffers that will be written,
  and the lines after it are in the buffers about which nothing is decided yet.  Without
  that line the invariant would not say that what is dropped comes before what is
  appended later.
- `AssertionsAlwaysHold`: `LoggingAssertionsHold`.
- `NothingEverLost`: `NothingLostOrReordered`.  A line is known by its number in the
  invariant and by its text in the property: `HistoryText` goes from one to the other.
  One lemma for each operation of the files says that it keeps what they hold together,
  or adds to its end: `FlushKeeps`, `RollKeeps`, `AfterAppendKeeps` and their like.
- `NumbersAlwaysReadBack`: `NumbersReadBack`, for every integer.  The digits that
  `convert()` produces from the last to the first, of a negative number from negative
  remainders, reversed, have the value of the number and no leading zero.

The last two, and the parser of the messages, need induction over numbers and sequences.
The library's induction theorems take a predicate and cannot be instantiated here;
`NumbersByInduction`, `SequencesByInduction` and `IntegersByInduction` state it about a
set instead (a set with 0 that is closed under successor is `Nat`) and are proved from
the least element of a set of numbers.  A recursive function (`FlattenSeq`, `Digits`,
`Value`, the loop of `MergeFields`) is shown to exist in the same way before its equation
is used.

Only model-checked: all liveness (`QueuedFunctorRuns`, `QuitStopsLoop`,
`StartLoopReturns`, `DestructorEnds`, `InsertedTimerRuns`, `PeerCloseEndsConnection`,
`EverythingReleased`, `ClientEnds`), which needs fairness and `ENABLED` and is out of the
prover's reach, and two invariants of the protobuf modules.  `RoundTrip` holds for the
inputs of its run but not for all sequences of numbers, since `WireFormat` writes the tag
of an unknown field as one byte, which it is for field numbers below 16.
`DeliveredAsSent` depends on it, and on what is said of the frames in `Scripts`: that one
called bad is refused is a statement about each of them.

## 5. Where the code does not do what it should

Cases that the models contain, most of them named by a property as its exception:

- A `quit()` that comes before `loop()` executes `quit_ = false` (`EventLoop.cpp:96`)
  is lost; a destructor of EventLoopThread that is quick enough then waits in `join()`
  for ever.  A loop that its own thread stops before `startLoop()` has looked at
  `loop_` leaves `startLoop()` waiting.
- `disableReading()` and `disableWriting()` are `events_ |= ~k...Event`
  (`Channel.h:30-31`): they set all the other bits and clear none.
- A channel that is disabled and enabled again under the PollPoller stays ignored:
  `PollPoller.cpp:107` negates the descriptor and no line restores it.  `sendInLoop()`
  does so when it asks for POLLOUT after `handleClose()` (`TcpConnection.cpp:84`, `:194`).
  A channel whose first call is `disableAll()` and that is then removed, as `~Acceptor`
  does when `listen()` was never called, fails the assertion at `PollPoller.cpp:120`.
  A channel that is used again after `remove()`, whose `index_` nothing resets, fails one
  of those of `updateChannel()`; no code of the repository does so.
- `incrementAndGet()` loads and stores (`AtomicPointer_temp.h:34`): two threads that
  add timers can get the same sequence number, and a TimerId can then name two timers.
- `cancel()` in the loop thread acts at once, also when `addTimerInLoop()` of that timer
  is still queued (`TimerQueue.cpp:159`): it finds nothing, and the timer runs.
- `handleClose()` leaves `state_` as it is (`TcpConnection.cpp:79`), and so does
  `forceClose()` as far as its own test is concerned (`:216`): two calls of
  `forceClose()`, or one that meets the peer's close, close the connection twice, and
  the assertion at `TcpServer.cpp:81` fails.
- `send()` and `shutdown()` of another thread bind a plain `this`
  (`TcpConnection.cpp:149`): their functor may run after the connection is gone.
- A TcpClient destroyed inside a callback of its connection, or while a functor of its
  Connector is queued, or just when the peer closes too, fails an assertion or
  leaves a functor with a dead Connector.
- `connect()` of a TcpClient whose Connector is busy fails the assertion at
  `Connector.cpp:37`, at once or at the next retry: `stop()` does not cancel the retry
  timer (`:52`), and a connection that was lost, or abandoned after a `stop()` (`:171`),
  leaves `state_` at `kConnected`, since only `restart()` sets it back.
  One that comes before the reset of the channel fails that at `:119`.
- After a callback that takes longer than a timer, poll() reports the timer while
  functors are queued, and timers run first.  A retry that overtakes `resetChannel()`
  (`Connector.cpp:134`) fails the assertion at `:119`; `removeConnector()`, one second
  after the client (`TcpClient.cc:78`), deletes a Connector whose `stopInLoop()` or
  `resetChannel()` is still queued, and `:25` fails or they run on a dead object.
- A `stop()` of another thread between the close of the connection and `restart()` is
  overruled: `restart()` sets `connect_` again (`Connector.h:25`).
- A logging thread that hears nothing for its flush interval aborts the process:
  `waitForSeconds()` hands `ETIMEDOUT` to `PthreadCall` (`port_posix.cpp:76`).
- `FixedBuffer::available()` is the size of the buffer, not what is left of it
  (`FixedBuffer.h:29`): `append()` writes past the end of a nearly full buffer.
- A short `fwrite()` is continued with the start of the data (`AppendFile.cpp:27`).
- Lines appended after the last swap are not written when `stop()` is called
  (`AsyncLogging.cpp:56`): `NothingLostOrReordered` finds them in the front end.
- `assert(running_ = true)` assigns (`AsyncLogging.cpp:47`); `checkEveryN_` is never
  initialised (`LogFile.cpp:8`).

Others:

- `EventLoop::quit()` sets `quit_` and then writes to the eventfd
  (`EventLoop.cpp:123-125`).  Called from another thread on the loop of an
  EventLoopThread, the thread may see the flag, leave `loop()` and destroy the loop
  before the write.  `~EventLoopThread` (`EventLoopThread.cpp:22-24`) has the same
  window, and a second one between its test of `loop_` and the call.
- `~TcpServer` is empty (`TcpServer.cpp:21-23`): connections that are still open
  when their last pointer goes meet the assertion of `~Channel`
  (`Channel.cpp:31`).
- The constructor of TcpConnection installs read, close and error callbacks and no
  write callback (`TcpConnection.cpp:41-43`), so `handleWrite()` is never called.
  Data that the socket did not take ("I am going to write more data",
  `TcpConnection.cpp:167`) stays in `outputBuffer_`, the channel reports POLLOUT on
  every poll and a later `shutdown()` never shuts the socket down.
- `TcpConnection` never gets a value for its high water mark, and the TcpServer
  keeps a write-complete callback that it does not hand to its connections.

## 6. Not modelled

The byte order of integers, `findCRLF()` and `findEOL()` of the Buffer, which change
nothing, are left out.  Buffers are counters of messages in the TCP modules; the
write-complete and high-water-mark callbacks and `handleWrite()`, which nothing calls,
are left out.  The Acceptor's spare descriptor for `EMFILE` is left out: `AcceptFails`
stands for an `accept()` that returns an error.  poll() always has room for all ready
channels (fewer than sixteen); signals (`EINTR`) are retried by the loop as an empty
poll.  Logging calls inside the reactor have no effect on it.  A TcpClient is destroyed
in the loop thread only: elsewhere `connection_` is read while the loop writes it.  The
wall clock of the idle servers is set back and never forward, which would make the list
shut down connections heard just before.  Of the log stream floating point and `Fmt`, of the generated classes arenas, reflection
and descriptors are left out.  The parts without a module are listed with reasons in
`PROJECT.json`.

## 7. What is left

The Acceptor's spare descriptor, with a table of descriptors that other threads take from.
