# Verification of annotation-of-jewel

The repository holds annotated copies of five projects: `coroutine`, `libco`, `muduo`,
`nginx` and `redis`. This project specifies in TLA+ the parts whose concurrency and
long-lived state are hard to test: the reactor of `muduo`, with what is built on it, and
two parts of `redis`. It model-checks them with TLC and proves the central results with
TLAPS.

Paths are relative to `src/muduo/muduo/net/` unless they say otherwise; `base/` is
`src/muduo/muduo/base/` and `redis/` is `src/redis/src/`.

## The system and its parts

A muduo program runs *one loop per thread*. An `EventLoop` polls descriptors, calls the
handlers of the `Channel`s that are ready, and then runs the functors that other threads
(or its own handlers) have queued. Connections, timers and clients live in a loop and
are reached from other threads through its queue of functors. A redis server keeps its
data in hash tables (`dict`) that are rehashed while they are used; a redis cluster
replaces a failed master by an election among its replicas.

| part | role | here |
|---|---|---|
| `EventLoop` | loop, functor queue, wakeup by eventfd, quit | run, proved; destructor left out |
| `EventLoopThread` | starts a thread that runs a loop; destructor stops it | run, proved |
| `TimerQueue`, `Timer`, `TimerId` | timers of a loop on one timerfd | run, proved; destructor left out |
| `TcpConnection` | a connection, shared by its io loop, the server's loop and users | run, proved |
| `TcpServer` | map of connections, creation and removal | one connection of it |
| `Channel`, `EPollPoller` | events of a descriptor, registration with epoll | inside the two above |
| `TcpClient`, `Connector` | connecting, retry, stop, restart, destructor | run, proved |
| `Buffer` | bytes with a prepend area | proved; integer encodings and line search left out |
| `base/ThreadPool` | bounded queue of tasks, two conditions | proved |
| `base/AsyncLogging` | double-buffered logging | run, proved |
| `redis/dict.c` | hash table with incremental rehash, iterators, scan | run, proved; unsafe iterators and sampling left out |
| `redis/cluster.c` | failover election | run, proved; the rest of cluster.c left out |

`PROJECT.json` lists every part with the reason for its status, and every hazard of the
code with the line where it bites and the properties that would notice.

## Modules

    SerialExecutor            what a loop promises: functors in order, once
      ^ refined by
    EventLoop
      ^ extended by
    EventLoopThread ------ MuduoNetProofs          the loop composed with its owner
    TimerQueue ----------- TimerQueueProofs        the loop as a queue of functors
    TcpConnection -------- TcpConnectionProofs     two loops as queues, one connection
    TcpClient ------------ TcpClientProofs         client and connector in one loop
    ByteQueue  <- refined by Buffer -- MuduoNetProofs
    AsyncLogging --------- MuduoBaseProofs
    ThreadPool ----------- MuduoBaseProofs
    KeySet     <- refined by Dict ---- DictLemmas, DictProofs
    ClusterElection ------ ClusterElectionProofs

`MC<module>` instantiates a module for TLC, `MC<module>[_<run>].cfg` gives the constants.
`TimerQueue`, `TcpConnection` and `TcpClient` do not repeat the loop's wakeups: they take
the functor queue as a first-in first-out queue, which `EventLoop` is proved to
implement. A definition whose comment begins with "Mutant of" is a deliberately wrong
variant that a property must catch; no specification uses it.

### EventLoop

State: `quit_`, `looping_`, `callingPendingFunctors_`, `pendingFunctors_`, the vector
`doPendingFunctors` has swapped out (`functors`), the eventfd counter (`wakeupFd`), the
ready and active channels, the size of the poller's event array, and the position of
each thread (`pc` for the loop thread, `threadPc` for the others). A functor is its
number in the order of the pushes.

Actions: `QueueInLoop`, `Quit` and `Wakeup` are the calls of another thread, cut where
the mutex is released and before the write to the eventfd. `QueueInLoopSelf` and
`QuitSelf` are the same calls in the loop thread, possible wherever user code runs.
`Loop`, `While`, `Poll`, `PollNothing`, `HandleRead`, `HandleEvent`, `Return`,
`SwapFunctors`, `RunFunctor`, `FunctorsDone` are the steps of `loop()`. `ChannelReady` is
the kernel. The eventfd saturates (`WakeupFdMax`), the event array is too small at first
and doubles.

### EventLoopThread

Adds the owner (`ownerPc`), the thread function (`threadFunc`) and `loop_` (`loopPtr`).
The loop thread's steps are those of `EventLoop`. `quit()` of the destructor is
`Quit(Owner)`. A wait on the condition is one evaluation of its loop, woken by `Publish`.

### TimerQueue

Timers are cells of a small heap that is used again after `delete`, so that a stale
`TimerId` may name a new timer: only its sequence tells. `timers`, `activeTimers`,
`cancelingTimers` are the three sets; `expired` and `toRun` the batch of `handleRead`;
`timerfd` a countdown on the monotonic clock, `now` the wall clock, which `Jump` sets.
Other threads go through `functors`; `AddTimerReturn` is the read of the sequence after
the timer was handed over, with any result when the timer has been deleted by then.

### TcpConnection

One connection from `newConnection` to its release. State: `state_`, `reading_`, the
length of the output buffer, `events_` and `index_` of the channel, `connections_`
(`inMap`), the functor queues of the io loop and of the base loop, the socket (`peer`,
`input`, `writeShut`, `sockErr`), and the iteration of the io loop: `handling` with the
`revents` still to handle, then `batch` functors, then the next poll.

Handlers and functors run to their end in one step. `Channel::handleEventWithGuard` is
four actions in its order (`CloseEvent`, `ErrorEvent`, `ReadEvent`, `WriteEvent`), since
user code runs between them. Calls from other threads (`ThreadCall`, `ThreadSetState`,
`ThreadQueue`) are cut at the test and at the assignment of `state_`, which no lock
protects. `write()` takes any part of the output or fails. A failed assertion records
its name in `failed` and ends the program; so does a call on a destroyed server.

A behaviour begins by choosing a `use` from the constant `Uses`: which functions other
threads and the user code in the loop call, how many calls there are, whether both loops
are one, whether the server may be destroyed, and whether `startRead` and `stopRead` are
called only while `connected()`. `Careful` names the uses for which the library keeps all
of its promises; the three refuted runs below show why each of its conditions is there.
The properties that need no care (`WritingIffOutput`, `FinAfterOutput`) are stated for
every use.

### TcpClient

`TcpClient.cc` and `Connector.cc` in one loop. State: `state_`, `connect_` and `channel_`
of the connector, the retry timers by age, the timer with which `~TcpClient` keeps the
connector alive (`hackTimer`), `retry_`, `connect_` (`wanted`) and `connection_` of the
client, and the loop's phase and functors. `StartInLoop` covers `connect()` with its three
classes of errno; `Connected` and `ConnectFails` are the outcomes of an attempt in
`handleWrite` and `handleError`; `RetryTimer`, `RunStartInLoop`, `RunStopInLoop` and
`RunResetChannel` run what was scheduled; `RemoveConnection` and `Restart` are two steps,
since another thread may come between the test of `connect_` and `restart()`; `Destroy`
has the cases of the destructor. `retry()` keeps its delay abstract: a timer is due after
the iteration it was set in, in the order of ages. The TcpConnection is reduced to its life.

### AsyncLogging

`append`, `start`, `stop` and `threadFunc`. Buffers are sequences of lines or null, as
the code moves pointers. `AppendFits` and `AppendFull` are the two halves of `append`; the
back end locks, waits (with `if` and a timeout, so that it may go on with nothing to
write), swaps, drops a backlog, writes a buffer at a time (`wrote` of them so far), resizes
its vector, refills and flushes. `stop` sets `running_` without the mutex and notifies in a
step of its own.

### ThreadPool

`start` (a thread at a time), `stop` with its joins, `run` from clients and from tasks,
`take`, `runInThread`. A step is one critical section; a wait ends it, and the thread that
is woken, by notify or spuriously, competes for the mutex again.

### Buffer

The vector and its two indices, with `append`, `prepend`, `retrieve` (and
`retrieveAll`, `retrieveAsString`, which reduce to it), `unwrite`, `hasWritten`,
`ensureWritableBytes` with both branches of `makeSpace`, `shrink`, and `readFd` with its
second buffer. `ByteQueue` is what its user sees.

### Dict

`d` is `struct dict`: two tables of chains, their counts and exponents, `rehashidx` and
`pauserehash`. Add, find, delete, empty, random key, resize and `dictRehash` with its
limit on empty buckets are actions, each with the rehash step the code takes first. One
safe iterator and one `dictScan` run at the same time; the cursor is the reversed-bits
counter of the code, on `Bits` bits. `KeySet` is what callers see. The one assumption that
bounds anything is that there are fewer keys than hashes, finitely many of both
(`Cardinality(Keys) < 2 ^ Bits`): then `_dictNextExp` finds every size that is asked for,
as it does in the code, where hashes have 64 bits and memory runs out first.

### ClusterElection

The replicas of a failed master and the masters of the other shards. Each node has its
epochs and role in memory (`vol`) and in `nodes.conf` (`disk`). `Schedule`, `RequestAuth`,
`SendAuthIfNeeded`, `ReceiveAck`, `Win`, `Gossip` and `Claim` are the handlers; a message
may be lost, delayed and reordered; `Crash` restarts a node from its disk and closes its
links. Failure detection and delays are left open: anything may be suspected and any
timer may be over. Two constants name what the argument rests on and the code does not
enforce: `Timely`, a vote arrives before the election is tried again or never;
`Barrier`, no vote leaves before the configuration is saved.

## Runs

Passing runs:

| run | shows | distinct states |
|---|---|---|
| `eventloop` | no functor and no quit is behind a poll nobody will wake (`NoLostWakeup`, `NoLostQuit`); functors run once, in order (`ExactlyOnceInOrder`, refinement `ExecutorSpec`) and do run (`QueuedRuns`); `startLoop` returns; the destructor stops a running loop; no thread outlives the object | 104,157 |
| `timerqueue` | the sets agree, each Timer has one owner, the timerfd is armed, cancel holds, a one-shot timer runs once, a timer fires unless cancelled | 388,079 |
| `tcpconnection` | for every use: output is watched, FIN after output. For careful uses: no assertion fails, one up and one down, released clean; peer gone, or `forceClose`, leads to the release from server and poller | 406,691 |
| `tcpclient` | no assertion fails, the connector outlives what points to it, no descriptor is lost, a stopped client does not connect, one that is not stopped does | 3,637 |
| `asynclogging` | two buffers at hand, lines conserved in order but for a dropped backlog, no full buffer behind a wait, every line is written unless stopped or dropped, `stop` returns | 8,105 |
| `dict` | well-formed tables, a set of keys to callers (`KeySetSpec`), the safe iterator returns each key that stays once, the scan ends and misses none | 70,549 |
| `cluster` | one vote per epoch over crashes, votes counted are those of the present election, one winner per epoch, `currentEpoch` is the greatest | 353,846 |

Runs that TLC refutes, each against a sentence or an assertion of the repository:

| run | disagreement |
|---|---|
| `eventloopthread_dtor` | `quit()` before the thread is in `loop()` is reset by `EventLoop.cc:116`, the destructor's join never returns |
| `timerqueue_sequence` | `TimerQueue.cc:132` reads a Timer the loop may have deleted |
| `tcpconnection_server` | `~TcpServer` with a half-closed connection: `assert(isNoneEvent())` |
| `tcpconnection_stopped` | the close of a connection with reading stopped puts it back into epoll; a reset then closes it twice |
| `tcpconnection_forceclose` | `forceClose` in another thread races the close: `assert(n == 1)` |

Met while modelling, and kept as remarks:

- The comment at `EventLoop.cc:182` says that the loop thread wakes itself when it is *not*
  in `doPendingFunctors`. The condition of the code is the opposite, and right.
- A timer that another callback of its batch cancels still runs once
  (`TimerQueue.cc:165`), and a cancel in the loop thread that overtakes a queued
  `addTimerInLoop` finds nothing and is forgotten. `CancelHolds` says what `cancel` does
  promise.
- `startRead` after the close enables the channel again and leads to the assertion of
  `tcpconnection_server`. This is why `Careful` calls it while `connected()`.
- `TcpClient::stop()` in another thread, between the test in `removeConnection` and
  `restart()`, is undone: the client connects again. `MCTcpClient_stop.cfg` shows it
  (`Connector.h` says of `stop` that it can be called in any thread).
- `connect()` after `stop()`, while a retry timer is pending, trips the assertion at
  `Connector.cc:51` when the timer comes due; hence one `connect` per client. A client
  destroyed while a `resetChannel` is queued trips `Connector.cc:39` (`DestroyIdle`
  excludes it). `disconnect()` while the connection is being made has no effect.
- A late vote of an abandoned election is counted for the new one, against the comment at
  `redis/cluster.c:1326`; two replicas can then win an epoch. `MCClusterElection_late.cfg`
  shows it in about two minutes, with `Timely` false.
- The write barrier of a redis connection is per descriptor, so that a vote may leave on
  a link before the configuration is saved; `Barrier` excludes it, and `OneVotePerEpoch`
  fails without it.
- `dictEmpty` during an iteration resets `pauserehash`, and the release of the iterator
  then makes it -1. The model empties no dict that is being iterated.
- A ThreadPool whose workers all call `run()` on a full queue stops for good. This is what
  "Could block" in `ThreadPool.h` means; the theorems below say that nothing else blocks it.
  Tasks still queued at `stop()` are dropped.

### Bounds

- `eventloop`: the owner and one more thread, 2 channels, 3 functors, an eventfd that is
  full at 2 and an event array of 1. Two callers give every order around the loop,
  functors that queue functors need 3; three ready descriptors overflow the array twice.
- `timerqueue`: 2 addresses and 2 timers, so that an address is used again while another
  timer waits; one other thread, 2 queued functors; expirations 0 and 2, on both sides of
  the present, intervals 0 and 1, time up to 3, one setting of the wall clock. At
  `MaxTime` the wall clock stops and the timerfd goes on.
- `tcpconnection`: 2 or 3 calls according to the use, messages of 1 or 2 units, high-water
  mark 2, one unit of input. One call per role is needed for the races, two messages for
  the order of output and FIN.
- `tcpclient`: 3 calls and one `connect`: connect, disconnect or stop, and the destructor,
  with any number of failed attempts.
- `asynclogging`: 10 lines in buffers of 3, a backlog of 3: enough to fill both front
  buffers, allocate a third, and exceed the backlog (25 in the code) by one.
- `dict`: 3 keys that collide in part, tables of 1, 2 and 4 buckets (so that a rehash goes
  up and down, and a scan sees three sizes), 2 empty visits, forced resize at ratio 1.
- `cluster`: 2 replicas, 2 masters, 2 elections, 2 crashes, with symmetry. A majority of 2
  is both masters: the two replicas need overlapping votes. The proofs cover the rest.

Deadlock is not checked where the system may stop: the object may be destroyed or the
logger stopped, a failed assertion ends the program, and the bounds on elections and
crashes end the cluster's run.

### Fairness

`EventLoopThread`: the owner, the thread function, the loop and a caller between its push
and its write are scheduled (weak fairness); nobody has to destroy the object. The poll's
timeout is *not* fair: the properties hold without it. `TimerQueue`: time passes and the
loop goes round; nothing about callers. `TcpConnection`: both loops run, a delay timer
expires, a call that was begun ends. The peer does nothing by obligation: the socket may
never have room again, so no property claims that output is delivered. `TcpClient`: the
loop runs, a call ends, and, for `GetsConnected` alone, strong fairness of the retry timer
and of the network: of endlessly many attempts one is not refused. `AsyncLogging`: the back
end runs, its timed wait ends (it has a timeout), `stop` goes on; nobody has to append.
`Dict`: the caller of a scan calls again with the cursor it was given. All of this is what
a scheduler gives to runnable threads, and what `loop()` does.

## Proofs

The theorems hold for every value of the constants that meets the module's assumption.
`Buffer` and `ThreadPool` have theorems of the form `Constants => (Spec => ...)`, where
`Constants` says what is assumed. Two modules hold the proofs of two components each:
`MuduoNetProofs` extends `EventLoopThread` and has the buffer as `Buf`, `MuduoBaseProofs`
extends `AsyncLogging` and has the pool as `Pool`.

- **EventLoop**. `WakeupNotLost`, `QuitNotLost`: neither is inductive, since a functor in
  the queue while the loop is about to poll says nothing of how it came there.
  `WakeupInv` carries the promise of a wakeup back to the whole stretch from the swap of
  `doPendingFunctors` to the next poll, and `BatchInv` ties `callingPendingFunctors_` to
  the position of the loop thread, which is what makes the condition in `queueInLoop` the
  right one. `ImplementsExecutor` maps the abstract queue to `functors \o pendingFunctors`:
  a push submits, `RunFunctor` executes, the swap (which finds `functors` empty, by
  `BatchInv`) is invisible. `RunsExactlyOnceInOrder` follows the same steps.
- **EventLoopThread**. `ThreadImplementsLoop`: each step is a step of the loop or leaves it
  alone, so the loop's theorems carry over (`ThreadImplementsExecutor`).
  `NoThreadLeftBehind` needs `LifeInv`: a loop that was left has been quit, and a `loop_`
  that is null again under a running owner tells that somebody else did it.
- **TimerQueue**. `SetsAlwaysAgree`, `TimersOwnedOnce` from `TimersInv`: every live Timer
  is in the functor queue, in `timers_` or in the batch, in one of them only, under its
  present expiration, and a deleted one in none. `TimerfdAlwaysArmed` adds `ArmedInv`: the
  timerfd is due for every entry of `timers_`, or is looked at again at the end of the
  batch. What `ArmedInv` says during a batch is the one case that end does not look at: a
  Timer of expiration 0 is not `valid()`, so that `reset` would not arm for it, but
  `addTimerInLoop` has. `CancelAlwaysHolds` and `OneShotAlwaysRunsOnce` add `HistoryInv`: a
  sequence number names one Timer for ever, a one-shot Timer that has run is in the part of
  the batch that has been called, an erased one is nowhere.
- **TcpConnection**. `OutputIsWatched`, `FinFollowsOutput` for every use, any number of
  threads and any message lengths, from `OutputInv`. It needs `QueueInv`: nothing that
  touches the output is queued before `connectEstablished`. For the careful uses,
  `NoAssertionFails`, `UpOnceDownOnce` and `ReleasedWhenClean` from `LifeInv`: the
  connection is staying (in the map, registered once it is up) or leaving, and then it waits
  for the one `removeConnectionInLoop`, or for the one `connectDestroyed`, or is out of
  both; what else is queued leaves a connection that is down as it is.
- **TcpClient**. For a client that is told to connect once (`MaxConnects <= 1`),
  `ConnectorAssertions` and `NoSocketLost` from `AttemptInv`: of a queued start, a retry
  timer, an attempt and a connection there is one at a time. `TimerOutlivesFunctors`, with
  `DestroyIdle`, from `HackInv`: as the timer of `~TcpClient` ages, an iteration runs the
  queued `startInLoop` and `stopInLoop`, a second one the `resetChannel` these queued, and
  only then is the timer due.
  `StopEndsAttempts`, when `stop` is called in the loop's thread only, from `StopInv`. Each
  condition is one the remarks above give a counterexample for.
- **AsyncLogging**. `AlwaysBuffersAtHand`, `AlwaysFullBufferWakes` from `ExchangeInv`:
  `nextBuffer_` is null only behind a full buffer, so that an exchange that takes two
  buffers has two to give back. `NoLineLost` from `ConservedInv`: the lines written, held
  by the back end, in `buffers_` and in `currentBuffer_` are four sets, each below the
  next, that with the dropped ones make up all lines so far; each is in the order of its
  appends. The steps move a set, or its least part, from one place to the one before.
- **ClusterElection**. `EpochOnDiskIsMax` from `EpochInv`; `VotesOnce`, if `Barrier`, from
  `VoteInv` (a crash that takes `lastVoteEpoch` back takes the later votes with it);
  `CountsVotes` and `OneWinner`, if `Timely` and `Barrier`, from `ElectionInv`: the votes
  counted are votes cast and received, a winner has a majority, two majorities share a
  master, and a master votes once.
- **Dict**. `TablesStayWellFormed`, `DictIsASet`, `IteratorReturnsEachOnce` and
  `ScanMissesNothing`, for any keys and hashes and tables of any size; `DictLemmas` has what
  each operation does to the tables and the cursor, `DictProofs` the steps. The tables' half of the invariant is `DictInv`:
  every chain holds distinct keys of its bucket, the tables share no key, `ht_used` counts
  them, and while rehashing there is a first table whose buckets before `rehashidx` are
  empty. Moving a bucket (`PushAll`) is a recursive function; what it leaves is shown by an
  induction written with the set of the lengths for which it holds, whose least missing
  one is ruled out (`LeastNat`). That bucket is always found, since while `ht_used[0]` is
  not 0 some bucket from `rehashidx` on is not empty (`NextBucket`), which is the assertion
  in `dictRehash`. The abstract set is the union of the two tables, so that a rehash step
  is a stutter. The iterator's half is `WalkInv`: a key is `Ahead` of the iterator when it
  is in a later bucket, or in the chain from the saved `nextEntry` on; what it still has to
  return is ahead, what it has returned is in the dict and not ahead. An insertion puts a
  key at the head of its chain and a deletion takes one out, neither of which changes the
  order of the others (`PushKeeps`, `UnlinkKeeps`); no entry moves, since the iterator
  pauses rehashing. The scan's part is `ScanInv`: what it still has to emit has a reversed
  hash no lower than the reversed cursor. This does not mention a table, which is why a
  scan survives any change of their sizes between two calls. A call emits the keys whose
  reversed hash is from the cursor up to `Past`, the end of the block of words that the
  table of exponent `e`, the smaller one while rehashing, puts into the cursor's bucket:
  these blocks are intervals of reversed words (`SameBucket`, `UpToBlockEnd`), setting the
  bits above the mask and adding one to the reversal goes to the start of the next block,
  or to 0 after the last one (`NextBlock`), and the loop over the larger table visits the
  smaller blocks of that block up to its end (`ExpansionsAre`). The lemmas below these
  prove what `Rev` and the masks do to the bits of a number, from the bits' definition by
  division (`BitsDecide`, `HasReversal`).
- **Buffer**. `IndicesStayInOrder` and `ImplementsByteQueue`, for vectors and byte strings
  of any length. The inductive invariant is `IsBuffer`: a vector of bytes, indices in
  order, `kCheapPrepend <= size`, which the reset of the indices needs. Each member
  function has a lemma on the content it leaves.
- **ThreadPool**. `TasksTakenInOrder`, `NoWakeupLost`, `NeverBothAsleep` for any threads
  and any bound. `Covered` is the argument, once for each condition: while somebody
  sleeps, there are as many woken threads as things to take. A notify makes up for each
  new thing, and a thread that takes one may have been one of the woken.

Only model-checked: liveness (`QueuedRuns` and its like; TLAPS does not reach fairness).
Every safety property of the passing runs is a theorem. Only proved, and in no run:
`Buffer` and `ThreadPool`.

## Abstractions worth knowing

- The memory model is sequentially consistent. `quit_` and `running_` of AsyncLogging are
  atomic in the code; `state_` of a connection and `connect_` of a client are plain
  variables whose accesses are separate steps here.
- User code is any sequence of calls on the library wherever the library calls back.
- Lifetime of user pointers: users keep their `TcpConnectionPtr`. The server bound to a raw
  pointer in `closeCallback_` is listed as a hazard.
- A spurious wakeup of a condition variable is a re-evaluation of its loop; where the code
  has no loop (`AsyncLogging`), or counts on notifies (`ThreadPool`), it is an action.
- An iteration of a client's loop takes less than half of `kInitRetryDelayMs`.

## Not modelled

- `PollPoller`, `Acceptor`, `EventLoopThreadPool`, `TcpServer` with several connections,
  and several channels in one poller: next in line. The abstract poller (which channels
  are registered, for which events) would be refined by both pollers.
- `base/BlockingQueue`, `BoundedBlockingQueue`, `CountDownLatch`, `Thread`: the argument of
  `ThreadPool` covers the two queues nearly word for word.
- `http` and `protorpc`: a parser's states over split input, and outstanding calls; mostly
  data and little interleaving.
- `src/coroutine` and `src/libco`: single-threaded schedulers whose difficulty is the
  stacks and the context switch in assembly, below what TLA+ describes; the tables around
  them could be modelled.
- `LogFile`, `Logging`, `inspect`, codecs, sockets, addresses: wrappers of system calls and
  formatting, with no state of their own to check.
- `src/nginx`, the rest of `src/redis`, muduo's `examples` and `contrib`: whole servers of
  which the repository annotates places; `ngx_queue` and `ngx_rbtree` are candidates for
  operators against a reference definition.
