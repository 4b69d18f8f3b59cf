# A TLA+ development of MyLearning

MyLearning is a collection of small C++ programs and libraries.  Its core is a
reactor network library in the style of muduo (`myMuduo/`, with an earlier
version in `muduo/`); beside it stand a token-bucket rate limiter
(`BroadCast/lib/mytbf.cpp`), a few data structures (`Alog/`), a 2D game
(`SDLRe/`) and exercises.  This directory holds TLA+ models of the library, the
rate limiter, the data structures and the game, the TLC configurations that
check them, and TLAPS proofs.

    tlc -config EventLoop.cfg EventLoop        # one of the runs below
    tlapm EventLoop_proofs.tla                 # one of the proof modules

## 1. The system and its parts

| Component | State | Operations | Hard behaviour |
|---|---|---|---|
| `EventLoop` | `quit_`, `callingPendingFunctors_`, `pendingFunctors_` under `mutex_`, the eventfd | `loop`, `quit`, `runInLoop`, `queueInLoop`, `wakeup`, `doPendingFunctors` | other threads push and wake while the loop polls, reads the eventfd, swaps and runs |
| `TimerQueue`, `Timer`, `Timestamp` | `timers_`, `activeTimers_`, `cancelingTimers_`, `callingExpiredTimer_`, the timerfd | `addTimer`, `cancel`, `handleRead`, `reset` | cancel from a callback, from another thread, of a timer that is gone; addresses reused; a wall clock that is set, a timerfd on the monotonic one |
| `EpollPoller`, `Channel` | `channels_`, `events_`, `index_`, the kernel's interest list | `updateChannel`, `removeChannel`, `poll` | handlers change and destroy channels while the active list is walked; `epoll_ctl` fails |
| `EventLoopThread`, `EventLoopThreadPool`, `Thread` | `loop_`, `loops_`, `next_`, `started_`, `joined_` | `start`, `startLoop`, `getNextLoop`, `getLoopForHash`, `getAllLoops`, destructors | handshake with a loop on another thread's stack, shutdown |
| `Connector` | `connect_`, `state_`, `retryDelayMs_`, `channel_` | `start`, `stop`, `restart`, `handleWrite`, `handleError`, `retry` | calls from another thread, stale timers, deferred destruction of the channel |
| `mytbf` (BroadCast) | `job[]` under `mut_job`; `token` of each bucket under its mutex | `mytbf_init`, `fetchtocken`, `returntoken`, `destory`, `thr_alrm` | two lock levels, condition variable, table entries that come and go |
| `Acceptor`, `Socket`, `SocketOps` | listening socket, its channel, the reserve descriptor, the process's descriptor table | constructor, `listen`, `handleRead`, destructor | running out of descriptors while other threads open and close theirs |
| `Buffer` | the vector, `readIndex_`, `writeIndex_` | `append`, `hasWriten`, `retrieve` and its variants, `readFd`, `makeSpace`, `swap` | bytes that move inside the vector |
| `LogStream`, `FixedBuffer` | `cur_` in a fixed array | `operator<<`, `append`, `formatSI`, `formatIEC` | the last byte, rounding at a threshold |
| `Logging` | level and zone; by thread the date rendered last | the life of a `Logger`, `setLogLevel`, `setTimeZone` | a cached date that is stale, a clock that steps back, a zone that changes |
| `InetAddress`, `Endian` | a union of two socket addresses | constructors, `resolve`, `setScopeId`, `isSlefConnect` | byte order, a text that is refused, a peer that is gone |
| `Alog` tree and heap | nodes with three pointers; an array | insert, search, remove, print; `heapSort` | pointer surgery, index arithmetic |
| `SDLRe` game | player, map, portal | the main loop, walking, teleporting | two coordinates and a map that change in one frame |
| `muduo/` | the earlier library | | cannot get as far as a connection, section 7 |
| `TcpConnection`, `C++20`, `LinuxSystemProgram`, `VulkanDemo`, `BroadCast` main, `client`, `shell`, `backup` | | | unfinished or sequential programs, configuration |

**How they interact.**  One thread per `EventLoop`.  `EventLoop::loop` calls
`EpollPoller::poll`, dispatches `Channel::handleEvent`, and then runs the
functors other threads queued.  `TimerQueue` is a channel (its timerfd) of the
loop, and `addTimer` and `cancel` reach the loop thread through `runInLoop`;
`Connector` uses the loop's functor queue, its timers and a channel of its own;
`EventLoopThread` owns a loop that lives on its thread's stack and hands its
address to `EventLoopThreadPool`.  A module that builds on another's promise
uses that promise and not its internals: TimerQueue and Connector contain a
FIFO queue of functors, which is what EventLoop is proved to implement.
`Acceptor` has a channel in the loop, gets its descriptors from the table every
thread shares, and is ended by `LOG_SYSFATAL`, that is by `~Logger`.  `LogStream`
holds the text of a `Logger`'s line.  `mytbf`, the tree, the heap and the game
share nothing with the rest.

**What makes a part correct.**  No wakeup is lost and functors run once and in
order; no timer is lost, leaked, run after cancellation; the poller's three
records of a channel agree and nothing freed is dispatched; a pool starts and
stops; a connector closes the sockets of its attempts and never stalls; a bucket hands out what
it has and its waiters are served; bytes leave a buffer in the order they came;
a log line carries its own date and stays in its array; an acceptor closes only
its own descriptors; a tree is a bag, a sort sorts, a player stays out of walls,
an address goes where it was asked to.  The hazards behind these, at their lines, are
listed in `PROJECT.json`.

### How the source is read

Much of the repository does not compile as committed.  Where the code is not
C++ it is read by its evident meaning, and only there:

* `cond_.wait(ul, loop_!=nullptr)` (EventLoopThread.cpp:28, and
  CountDownLatch.cpp:12) is a wait for that condition;
* `loop=nullptr` (EventLoopThread.cpp:46) assigns to the local object's name and
  not to the member, so `loop_` keeps its address;
* `myMuduo/lib/Channel.cpp` is empty; `Channel::update`, `remove` and the
  destructor are those of `muduo/lib/channel.cpp`.  Of `handleEvent` nothing is
  taken from there but that it calls the callback of what it dispatches: that file
  (line 31) tests for `POLLPRI|POLLRDHUP` and not for `POLLIN`, so a model that
  relied on it would never read.  EpollPoller lets `handleEvent` read what is
  there or not, and claims only that it is called.  EventLoop, TimerQueue and
  Acceptor are about read callbacks (`EventLoop::handleRead`,
  `TimerQueue::handleRead`, `Acceptor::handleRead`) and assume, for their liveness
  properties, that `handleEvent` calls the read callback of a readable descriptor;
* `TimerId` is returned by value although it is declared noncopyable;
* members that are functions are called where only their name stands
  (`acceptSocket_.fd` in Acceptor.cpp:54, `getSockAddr()` over `sockaddr_cast`),
  `loops_.[...]` (EventLoopThreadPool.cpp:56) is an index, and
  `acceptSocket_.accept(peerAddr)` passes the address of its argument;
* `append`'s casts (Buffer.hpp:77-89) pass the same bytes on;
* `kMaxNumberSize` and `kMaxNumericSize` of LogStream are one constant;
* `setTimeZone` is defined in Logging.cpp:219 although its declaration is
  commented out;
* `mytbf.hpp` declares `mytbt_fetchtoken`, `mytbf.cpp` defines `mytbf_fetchtocken`.

What is well-formed is taken as it stands, defects included: `start()` of the
connector lowers `connect_`; `addTime` truncates seconds to an `int`;
`quit()` wakes the loop only when called on the loop's own thread; `Thread::start`
leaves `started_` false; `mytbf_fetchtocken` returns 0 and not the count;
`Buffer::append` does not advance `writeIndex_`; `acceptChannel_` is initialised
with its own `fd()`; `sockets::accept` aborts on every error; `bindOrDie` and
`connect` pass the size of a `sockaddr`, which is too small for AF_INET6.

## 2. Modules

| Module | Models | |
|---|---|---|
| `TaskQueue` | the promise of an event loop: a FIFO queue of tasks run one at a time | abstract |
| `EventLoop` | `EventLoop.cpp` with threads, the eventfd, another channel | implements TaskQueue |
| `EventLoop_proofs` | | proofs |
| `TimerQueue` | `TimerQueue.cpp`, `Timer.hpp`, `addTime` | |
| `TimerQueue_proofs` | | proofs |
| `EpollPoller` | `EpollPoller.cpp`, the dispatch and `removeChannel` of EventLoop, the kernel's epoll | |
| `EpollPoller_proofs` | | proofs |
| `EventLoopThreadPool` | `EventLoopThreadPool.cpp`, `EventLoopThread.cpp`, `Thread.cpp` | |
| `EventLoopThreadPool_proofs` | | proofs |
| `Connector` | `Connector.cpp` | |
| `Connector_proofs` | | proofs |
| `TokenBucket` | `mytbf.cpp` | |
| `TokenBucket_proofs` | | proofs |
| `Buffer` | `Buffer.hpp`, `Buffer.cpp` | |
| `LogStream` | `LogStream.hpp`, `LogStream.cpp` | |
| `Logging` | `Logging.hpp`, `Logging.cpp` | |
| `Acceptor` | `Acceptor.cpp`, `Socket.cpp`, the socket calls of `SocketOps.cpp` | |
| `InetAddress` | `InetAddress.cpp`, `Endian.hpp`, the address functions of `SocketOps.cpp` | |
| `KeyBag` | the promise of a search tree: a bag of keys | abstract |
| `SearchTree` | `Alog/lib/binarySearchTree.cpp` | implements KeyBag |
| `SearchTree_proofs` | | proofs |
| `Heap` | `Alog/lib/heap.cpp` | |
| `Game` | `SDLRe`: `Game.cpp`, `Player.cpp`, `MapManager.cpp`, `TileMap.cpp` | |
| `Parts` | the eight components that share nothing, side by side | |
| `MCParts` | the maps, numbers and addresses of Parts' run | for TLC |
| `Parts_proofs` | | proofs |

A component's theorems are in `<Module>_proofs`.  A module of the proofs can be
about several components: those of Buffer, LogStream, Logging, Acceptor, InetAddress,
Heap and Game are in `Parts_proofs`, about the composition that TLC runs.

Each `<Module>.cfg` gives the model values and bounds and lists what TLC checks.
Definitions keep the source's names.  An operator introduced as *Mutant* in its
comment is a plausible mistake in the definition that follows it; no
specification uses it, and each property fails when its mutant takes that
definition's place.

### EventLoop

The loop thread is a state machine over `pc` (outside, test, poll, dispatch,
handler, run, functor), one action per step of `loop()` and
`doPendingFunctors()`.  `queueInLoop` on another thread is two steps, because
`wakeup()` follows the release of `mutex_`; on the loop thread no other
observer of its two halves exists and it is one.  User code inside a handler or
functor may queue functors and quit any number of times.  A functor is queued
again only when no copy is queued, which bounds the queue.

*Run `event_loop`* (3 functors, 2 threads, 17,656 states):
`NoLostWakeup` relates the blocked loop to what is queued; `ImplementsTaskQueue`
is the refinement with `queue <- functors \o pendingFunctors_`; `QueuedIsRun`
needs no poll timeout; `IoIsServed` says batches do not starve channels;
`QuitReturns` has the poll timeout as a hypothesis because the code gives
`quit()` from another thread no other way to be noticed (line 108).
Three functors and two threads are enough for a functor queued during a batch by
another functor while a third thread is between push and wakeup.

The exception in `NoLostWakeup` (`unannounced`) is functors the loop's own
thread queues before `loop()`: nothing wakes the first poll for them.

### TimerQueue

Objects have addresses, so that `delete` and `new` can reuse one.  `addTimer` on
another thread is three steps: create, queue, and read `timer->sequence()` from
an object the loop may by then have deleted (line 84); that read yields the old
number, another timer's, or garbage.  `handleRead` is one step up to the first
callback; each callback is a state in which user code may add and cancel; `reset`
is one step.

Time is discrete, `Second` units long, and there are two clocks.
`Timestamp::now()` is the wall clock (`now`), which somebody may set forward or
back (`SetClock`); the timerfd counts down on CLOCK_MONOTONIC (line 22), which
nobody sets.  `howMuchTimeFromNow` (line 30) takes a difference on the first and
`timerfd_settime` arms the second with it, `TimeFromNow` and `ArmAt`.  The history
`drift` is what the wall clock gained on the monotonic one since then.

*Run `timer_queue`* (2 addresses, 1 thread, 2 timers that run once or repeat, clock
1..2 which is set at most once, half-second units, 532,900 states): two addresses
and two sequence numbers give address reuse; a repeating timer of one unit has its
interval truncated to 0 and expires again at once.  `SetsAgree` and `OneOwner` are
invariants, and so are `CancelSticks` and:

* `TimerfdArmed`: no timer is stranded.  The timerfd is readable or due no later than
  the earliest timer is on a wall clock that runs on as it did when it was armed;
  if that clock was set forward since, the timer is late by as much (`drift`) and no more.
  It holds although nothing re-arms the timerfd on cancel (a timerfd armed too
  early is harmless) and `reset` leaves it alone when no timer remains.
* `OnlyExpiredOrCancelledLeave` (an action property): what takes a timer out is its
  expiry or a `cancel` with its own id.  The model keeps, with every id `addTimer`
  returned, the timer it was called for, so that "its own" means what the caller
  means.  The exception is `TakenForEarlier`, which nothing prevents and
  the race of line 84 can produce: an `addTimer` that read the number too late returned an id
  that names a *later* timer at the same address, and `cancel` with it takes that
  one out.
* `TimersFire` is liveness: a scheduled timer is handled or cancelled once the
  clocks get there, section 3.

### EpollPoller

`index_`, `channels_` and the kernel's list are three variables.  A handler may
create, update, remove and destroy channels; descriptors are closed and reused.
Preconditions of callers are guards: a channel is destroyed after it was removed,
a descriptor has one channel, and `EventLoop::removeChannel`'s assertion holds
(`MayRemove`).  That last guard is what `NoDangling` depends on.

Every `epoll_ctl` may fail.  For ADD and MOD that is `LOG_SYSFATAL`, the end of the
process (`UpdateFails`); a failed DEL is only logged (line 144), and the poller
forgets the channel while the kernel goes on watching the descriptor with the old
pointer (`undeleted`).  When that descriptor becomes ready, `fillActiveChannels`
asserts that the pointer is of a registered channel, which ends the process unless
it is one again.

*Run `epoll_poller`* (2 channels, 2 descriptors, event list of length 1, 736,968
states): the list is shorter than the number of ready descriptors, so `poll` must
choose, and grow it.  Deadlock is not checked, because the process may end.
`RegistryAgrees`: the three records agree, and what the kernel watches beside them
are the descriptors a DEL failed for.  `NoDangling` has one exception, `Twice`,
which TLC reaches: after a failed DEL the address of the old channel belongs to a new
one with another descriptor, the kernel reports it for both, and when it removes
itself at the first it is dispatched again.  `EveryReadyIsHandled` says that
`handleEvent` of every ready descriptor is called, not that it reads.

### EventLoopThreadPool

The base thread starts each loop thread, waits for the latch and for the
published address, hands loops out (`getNextLoop` in turn, `getLoopForHash`,
`getAllLoops`) and destroys them.  `pthread_create` may fail and a thread's
function may throw; either ends the process (`aborted`).  The loop is reduced to
what its owner sees: `loop()` clears `quit_` on entry, and returns some time
after `quit_` is set, which is `QuitReturns`.

*Run `thread_pool`* (up to 3 threads, 5 calls, 61,297 states): deadlock is not
checked, because the process ends.  `LoopsAreLive` says that what the pool
returns are its own loops, each alive on its thread's stack.  `DtorReturns` has
two exceptions besides an aborted process, both real: a `quit()` that arrives
between the publication of the loop and `loop()`'s first line is erased, and the
join waits for ever (`quitLost`); and a `quit()` on a loop that has returned, or
returns between the two lines of `quit()`, is called on an object that is gone,
since `loop_` still points to its place on the stack (`quitDead`).  Such an access
may end the process, find that the thread id differs, or take what it finds for an
eventfd and write to it (`QuitAccess`); the model goes on with each and the property claims
nothing after it.
*Run `thread_pool_join`* is a violation, section 4.  A pool without threads has
no loop, and control runs off the end of `getNextLoop` (`GetNextLoopEmpty`),
although EventLoopThreadPool.cpp:32 speaks of the main loop for that case.

### Connector

The loop's functor queue is a sequence, retry timers a counter, sockets a set.
Timers, handlers and functors interleave freely; the real loop runs the
functors of a round after its handlers, so the model has every order the loop
can produce and some more.  A failing assertion ends the process (`failed`).

*Run `connector`* (2 descriptors, up to 3 retry timers and 2 functors at the time of a call,
45,024 states): deadlock is not checked, since a process whose assertion failed
is over.  `SocketsOwned`: the open sockets are exactly those handed to the user and
that of the attempt in `kConnecting`, which its handlers and `stopInLoop` close.
There is one exception, and the code has nothing against it: `restart()` sets `state_`
to `kDisConnected` while an attempt is under way (line 96); if the new `connect()` then
gives up (lines 75-89) the old channel stays registered, its handlers and
`stopInLoop` ignore it, and its socket is never closed (`orphan`).
`StopFollows`: after `stop()` the `stopInLoop` that closes an attempt still in
`kConnecting` is queued.
`NeverStalls`: a connector that is to connect has a retry timer, unless its last
`connect(2)` failed with an error that is not retried (`gaveUp`).
*Runs `connector_start` and `connector_stale_start`* are violations,
section 4.  `addTime` takes whole seconds, so the first delay of 500 ms is 0; the
model lets a retry timer fire at any time and says nothing of durations.

### TokenBucket

Both mutexes are explicit: the alarm thread keeps `mut_job` over its whole
round and takes each bucket's mutex inside.  `pthread_cond_wait` may return
spuriously.  The addition and the cap are separate steps.  When the alarm thread
cannot be made the process exits (`ModuleLoadFails`).  Two things are asked of
callers that the code does not check: they destroy a bucket only when no other call
on it is under way, and give `cps`, `brust` and the sizes as at least 1.  The
repository has no caller.  A bucket with `cps` or `brust` below 1 would never get
a token from the alarm thread that lasts, and a fetch from it would wait for ever.

*Run `token_bucket`* (2 buckets, a table of 1, 2 threads, 83,042 states, deadlock
checked): the table is full when both buckets exist.  The proofs cover larger
rates, tables and thread counts.  `FetchersAreServed` does not promise that a
particular fetcher wins, because it need not: it says that while it waits, calls
on its bucket keep completing.

### The parts in run `parts`

Eight components share no state with the others.  Module `Parts` extends Buffer and
puts an instance of each of the others beside it; its variable `subject`, chosen initially, says
which one a behaviour is about, so that the run explores the union of the eight
state spaces and not their product (1,105,857 states, a minute and a half; most
are the tree's).  Parts has the
components' constants for its own; `MCParts.cfg` gives them values, and MCParts
those a configuration cannot write down.  Deadlock is
not checked, because some of them end.

**Buffer.**  The object is one record; each operation of the class is an
action on it, and `makeSpace` is part of the operations that call it.  Bounds: 2
bytes, a vector of at most 5, of which one is the prepended room, and an
`extrabuf` of 2: `makeSpace` takes both of its branches and `readFd` all three.
`StreamOrder` is an action property: what can be read changes only by
bytes that leave at the front and bytes that join at the end, and what `readFd`
reads is what it makes readable.  *Run `buffer_append`* is a violation, section 4.

**LogStream.**  The array is its length and the last byte written.  `StaticCheck`
is what the code's `staticCheck` stands for: a number is shorter than the room
reserved.  `TerminatorFits` says no sequence of operators writes behind the
array.  `FormatsAreRight` compares `convert`, `convertHex`, `formatSI` and
`formatIEC` with what they should show, on numbers on both sides of each
threshold.  The values are those of int64_t written as mantissa and exponent,
since TLC's integers are 32 bits wide.  An exception is written into the property:
the last number below 9.995P (and 99.95P, 999.5P) is not told from it by a double
and comes out one character longer than the comment promises.

**Logging.**  Two threads, two seconds, a clock that goes either way, a valid time
zone and an invalid one, which means UTC.  `formatTime` is two steps, since it reads
the zone twice (lines 138 and 152).  `StampIsTrue`: the date on a line is of the line's
own second, and its zone and the zone the `Z` behind it speaks of were both in force
since the thread's first line of that second in a row.  So a line may show a
zone from before `setTimeZone`, which leaves every thread's cached date as it is,
or one zone in its date and another in its `Z`, but not one that was replaced
before those lines began.  The history `spell` keeps those zones; it follows the
lines and not the cache.

**Acceptor.**  Four descriptors, two waiting connections.  `handleRead`
is one step per system call, and between any two the rest of the process opens
and closes descriptors.  `acceptChannel_` watches whatever number lay in its
memory.  `DescriptorsOwned`: the acceptor closes nothing but its own, also when
the reserve could not be opened again; a connection that gets number 0 is the one
exception, which line 44 takes for a failure.  Since a failed `accept` ends the
process, the reserve is only given up after an `accept` that returned 0.
*Run `accept_errors`* is a violation, section 4.

**InetAddress.**  Two ports, whose two bytes differ, three IPv4 addresses of which
two are this machine's, one IPv6 address, texts of either form and of none.
`AddressesAgree`: port and IP survive the way into network order and back, a
refused text means any address, and `isSlefConnect` says yes exactly for a socket
that is its own peer, also when the peer is gone.  `resolve` into an AF_INET6
address writes its flow label (InetAddress.cpp:88); the property names the case.
A lookup that fails leaves the address as it was.

**SearchTree.**  Three keys, five nodes, addresses used again after `delete`.
A turn of a loop is a step, and so is a call or a return of a recursive function:
`call` is the operation under way with its local variables, among them the
recursive calls that have not returned (`inorderPrint`, `destroy`).  Nobody else
looks at a tree meanwhile; the steps are small so that each changes what it
changes once.  `ImplementsBag` is the refinement of KeyBag: the bag counts, by key,
the nodes that are alive (`Held`), `insert` adds one when it allocates its node
and `remove` takes one out when it deletes its target, and what a search or a
print answers on its return is true of the bag then.  KeyBag's `Begin` is the
first step of a query or a removal, which forgets the last answer.

**Heap.**  All vectors of up to five values out of three.  One action is a turn of
one of `heapSort`'s loops or a call of `maxHeapfiy`, whose call of itself is its
last step: `index` is the argument of the call under way.  `SortLoop` is the
invariant of the two loops: the heap behind `i`, the sorted tail and the
permutation.

**Game.**  The two maps and the places of `assets/Map.json` and
`assets/Role.json`, with tiles two pixels wide instead of 64 and a speed of one,
so that the player stands on and between tiles.  A failed `init` leaves
`isRunning_` as it was found.  `NotInWall`: wherever keys and portals lead, the
player overlaps no wall of its map, and the portal it looks for is its map's.

## 3. Fairness

* The operating system runs every thread that can run (weak fairness of each
  thread's steps), and callbacks return.
* `TimersFire` needs the clocks to go on (weak fairness of `Tick`), `handleEvent` to
  call the read callback of the readable timerfd (weak fairness of `HandleRead`,
  see section 1), and the wall clock to be set finitely often (`MaxSteps`): one that
  is set back for ever never gets to the timer.
* `EveryReadyIsHandled` needs the loop thread to run, and nothing of what a
  handler does.
* EventLoop does not assume the poll timeout; `QuitReturns` names it as its
  hypothesis (`PollTimesOut`, 10 s).
* TokenBucket assumes strong fairness for taking a mutex: the alarm thread
  releases everything and sleeps a second between rounds, so a thread that
  waits for a mutex is not shut out for ever by it.
* No fairness is assumed for calls of users, signals or peers, and none in
  `parts`, whose properties are all safety.

## 4. What the code does that its text denies

| Run | Property | |
|---|---|---|
| `thread_pool_join` | `JoinAsserts` | `Thread::join` asserts `started_`, `start` never sets it |
| `connector_start` | `ConnectIsWanted` | `start()` sets `connect_` to false |
| `connector_stale_start` | `StartAsserts` | a timer left over from before a restart, or a second start, runs into `assert(state_==kDisConnected)` |
| `accept_errors` | `AcceptSurvivesExpectedErrors` | every failed `accept` is logged as SYSFATAL, which aborts, before the errors it means to survive are told apart |
| `buffer_append` | `AppendedIsReadable` | `append` copies behind the readable bytes and does not move `writeIndex_` |

## 5. Proofs

All proofs hold for arbitrary constants subject to the named assumptions
(`NoTaskAssumption`, `ConstantsAssumption`, `BoundsAssumption`; for Buffer
`ConstantsOK`, which `PartsAssumption` contains with those of the other parts), which TLC evaluates in the runs.

**EventLoop_proofs.**  `TypeCorrect` is inductive with its conjunct `FlagsMatch`.
`WakeupsAreNotLost` strengthens `NoLostWakeup`: it speaks only of a blocked loop,
and to know what is queued when the loop gets there one must follow a functor
through dispatch and run.  The inductive invariant says, at each point of the
loop, which functors still have a wakeup or a thread about to write one.
`LoopIsTaskQueue` maps each step to a step of TaskQueue or a stutter; `SwapFunctors` is
a stutter because the mapped queue is the concatenation.

**TokenBucket_proofs.**  `Inv` adds to the checked properties who holds which
mutex (`Holders`, `AlarmHolds`), that a call's bucket exists (`CallsLive`) and
that making or destroying one excludes other calls (`Exclusive`).  From it follow
`TypeCorrect`, `TableIsTrue`, `TokensStayInRange` and `FetchesTakeTokens`.

**TimerQueue_proofs.**  The checked invariants are not inductive by themselves.
`Inv` adds what the code relies on without saying so: sequence numbers are unique
among living timers (`Numbered`), which makes the pair in a TimerId tell a reused
address apart; a timer cancelled while its batch runs is in `cancelingTimers_`
until `reset` (`CancelRemembered`); a batch is open exactly during `handleRead`
(`BatchIsOpen`); and a timer set for time 0 by a callback has armed the timerfd in
`addTimerInLoop` (`ZeroIsArmed`), which `NoTimerStranded` needs because
`reset` arms it only for a time that is `valid()`.  An id never names a timer
earlier than the one its `addTimer` made (`IdsNameNoEarlier`), which leaves the exception of
`OnlyExpiredOrCancelled` as the only other case.  `NoTimerStranded` holds for any
setting of the wall clock, because `drift` takes part in each of its steps.  That `reset`'s minimum exists
uses the well-foundedness of the naturals, so the theorems need no bound on the
number of timers.  They are `TypeCorrect`, `SetsStayEqual`, `EveryTimerHasOneOwner`,
`NoTimerStranded`, `CancelledStaysCancelled` and the action property
`OnlyExpiredOrCancelled`.

**EpollPoller_proofs.**  `RegistryAgrees` is inductive, failed DELs included
(`ForgetEffect`).  `NoDangling` needs one fact more, `Settled`: the channel being
handled is no longer among those that wait, so that the one active channel a handler may
remove, its own, is not dereferenced again; every other is protected by
`removeChannel`'s assertion.  `Settled` holds unless `Twice` does, and `Twice`
lasts until the active list is made anew (`TwiceKept`, `PollSettles`).

**Connector_proofs.**  `SocketsOwned`, `ResetIsForRemoved`, `StopFollows` and
`NeverStalls` hold together or not at all, so `Inv` has all of them: a socket is
closed by its owner because the registered channel is never one handed out, a new
channel is made only when the old one is gone, and the old one goes once because
`resetChannel` is queued exactly while a removed channel is left.  What the run
does not state is `AttemptIsWatched`, which ties the channel in the poller to the attempt under way
or to the orphan of a restart, and `AskedFor`, that `connect_` is true only of a connection asked for.  That there is one `resetChannel` in a queue is reasoned about without
counting (`OneReset`) and turned into `Cardinality` at the end.

**EventLoopThreadPool_proofs.**  `LoopsAreLive` needs to know which threads exist:
`startLoop` makes them in order and returns when the loop is published, so the
pool's loops are those of threads 1 to `i - 1` (`InOrder`), later threads do not
exist (`NotYet`), and a thread leaves its loop only after it was asked to
(`ReturnsWhenAsked`).  `DealtEvenly` follows from `Rounds`: `getNextLoop` has gone
round some number of times and dealt one more to the loops up to `next_`.

**Parts_proofs.**  A step of Parts is a step of one component and leaves the others
alone (`PartsStep`), so each component has its own invariant.

* *Buffer:* the type invariant is inductive by itself.  What takes the
  work is that `makeSpace` carries every byte along: `MovedKeeps` and `GrownKeeps`
  show, byte by byte, that what can be read is the same before and after it, for
  every layout of the vector; `EnsureKeeps` adds that there is room then, which is
  the assertion at Buffer.hpp:98, and `BufferStepKeeps` puts the operations
  together.  The theorems are `BufferTypeCorrect`, `MakeSpaceAssertsHold` (the
  assertion at Buffer.cpp:49, whose branch is taken only if there is room in front)
  and `StreamIsOrdered`.
* *LogStream:* `StreamInv` is `TerminatorFits` with the types.  It is inductive
  because `append` asks for strictly more room than it takes and `InPlace` for
  `kMaxNumericSize`, which every number is shorter than: `ConstantsOK` says so, and
  TLC evaluates it.  `TerminatorAlwaysFits`, `StreamTypeCorrect`.
  `FormatsAlwaysRight` is about what `Decimal` and `Hex` compute, which are
  recursive functions.  An induction principle with an operator as its parameter
  is out of reach, so induction is over a set of numbers that holds 0 and with n
  holds n + 1 (`AllNumbers`).  `Recursion` shows that both functions exist, with
  the absolute value as the measure; `DigitsAre` that what they return stands for
  the number and starts with no zero; `ValueIs` that `Value` reads it back.
  `SIIsRight` and `IECIsRight` then go through both sides of each threshold: the
  rounded quotient has three digits (or is at most 1023 without a point), except for
  the inexact tie, which the proof comes upon where the property excepts it.  It
  covers every integer and pointer, every size m * 10^e and m * 10^e - 1 with m of
  at most four digits, and every whole number of the unit below for formatIEC.
* *Logging:* `CacheIsTrue` ties the date a thread keeps to the second it noted, and
  its zone to the zones of the thread's spell of lines, wherever the second is the
  spell's; the present zone is always one of them.  Together with it `StampIsTrue`
  is inductive: `StampsAreTrue`.
* *Acceptor:* `NumbersMean` says, point by point of `handleRead`, what each number
  the acceptor knows refers to, and when `idleFd_` is stale; `NothingForgotten`
  that nothing else is open for it.  That the kernel's lowest number exists uses
  the well-foundedness of the naturals.  `DescriptorsStayOwned` holds for every
  size of the table.
* *InetAddress:* bytes turned round twice come back (`SwapOfTwo`, `PortComesBack`),
  and two IPv4 ends with one port and address are the same end, which is not the
  zeros `getPeerAddr` leaves for a lost peer (`SelfFound`): `AddressesAlwaysAgree`.
* *Heap:* in the middle of `maxHeapfiy` there is no heap; there is one with a hole at
  `index`, whose parent is not smaller than what is below the hole (`SiftAt`).
  `SiftDown` shows that the hole moves down, `RootIsLargest` that the root of a heap
  is its maximum (by the least counterexample), `SwapKeepsCopies` that an exchange
  loses nothing.  `HeapSortSorts` is `SortLoop`, `VectorIsSorted` what a caller of
  `heapSort` sees, for vectors of any length.
* *Game:* `NotInWall` is inductive with the map's existence: `NeverInWall`, on all
  maps whose portals lead to free tiles.
* *SearchTree:* `TreeIsBag` carries `TreeImplementsBag` of SearchTree_proofs over to
  the tree of Parts; `SameSteps` and `SameBags` say that the two instances are one.

**SearchTree_proofs.**  A tree of any size has to be reasoned about without
induction on its height.  The invariant says there is a function `D` from pointers to
sets of nodes, `D[n]` being `n` and what is below it, that agrees with the pointers:
a node's set is the node and the disjoint sets of its children (`Splits`), children
and parents point at each other (`ChildrenAgree`, `ParentsAgree`, `RootOnTop`), sets
are nested along the parents (`Nested`), and the keys left of a node are smaller and
those right of it are not (`Ordered`).  That leaves no room for cycles.  Each change
of the pointers has a lemma that names the `D` afterwards: a new leaf is in the sets
of the nodes above it (`LeafKeepsTree`), a node with at most one child leaves the
sets it was in (`UnlinkKeepsTree`, `TransplantUnlinks`), and one with two children
leaves them to the node that takes its place (`SwapKeepsTree`).  `ReplaceKeepsTree` puts
the two together for lines 97-104 and needs the replacement to be the least node
on the right, which is what `Replacing` has found while `minimun` goes down.
Of an operation under way `Placed` says where it has got to: the way down of
`insert` and `search` leads to where the key belongs (`Inserting`, `Searching`), what
is still to be printed is not smaller than what has been, and what has been printed
counts, by key, the nodes that are done (`Printing`), and whatever is alive during the
destructor is still to be visited (`Destroying`).  Each action then keeps
the invariant and is a step of KeyBag or a stutter (`Follows`): the theorems
`TypeCorrect` and `TreeImplementsBag`.

**Only model-checked:** the liveness properties, since TLAPS does not prove liveness
under fairness, nor ENABLED.  Every invariant and every action property that a
passing run checks is also a theorem.

## 6. Plan

1. TaskQueue, EventLoop and their proofs (done).
2. TimerQueue, EpollPoller, EventLoopThreadPool, Connector, TokenBucket (done), with
   the proofs named above.
3. Buffer, LogStream, Logging, Acceptor, InetAddress, SearchTree, Heap and Game
   (done), with the proofs of Buffer and LogStream.
4. The invariants of Connector, EventLoopThreadPool, Logging, Acceptor, InetAddress,
   Heap and Game as theorems (done).
5. SearchTree as a model that walks one node a step, the structure of the tree as its
   invariant, and from it `ImplementsBag` (done).

## 7. Not modelled

* Destructors of EventLoop, TimerQueue and Connector (single-threaded, at the end
  of the program); `module_unload` of mytbf (runs at process exit).
* The text of log messages, the two output function pointers, `Fmt`, thread names
  and the cached thread id, `Exception`'s stack trace.  `after_fork` is never
  registered: no `ThreadNameInitializet` exists (Thread.cpp:30).
* `TcpConnection`: only its constructor is written.
* The earlier `muduo/`.  `EventLoop` never makes its `poller_`;
  `Poller::updateChannel` looks a new channel up with `at()`, which throws
  (poller.cpp:51), and asserts the opposite of what it means (:54); `Channel`
  dispatches no `POLLIN` (channel.cpp:31); `disableAll` and
  `EventLoop::removeChannel` are not written.  So there is no connection to close,
  although its close path calls the close callback twice
  (tcpConnection.cpp:28-29) against an assertion (tcpServer.cpp:9).  What it does
  is modelled in its successor.
* BroadCast's server: option parsing aborts at the end of the options, because
  the -1 of `getopt` reaches the `default` branch, so nothing behind it runs; the
  channel and list threads are empty files.  The client binds descriptor 2.
* The exercises of `C++20` and `LinuxSystemProgram`: independent programs, each
  a call of the library or the system it shows.  VulkanDemo is a third-party
  tutorial; `shell` and `backup` are configuration.
* `timerfd_settime` and `read` of the timerfd are taken to succeed; their failure is logged
  and changes nothing else.
* No property depends on the frame counters of `Game` or on the level logging starts
  at; they are in the models as part of the steps that change or read them.
* Integer overflow of `token += size`: no caller fixes the range.
