----------------------------- MODULE EventLoop -----------------------------
(***************************************************************************)
(* muduo::net::EventLoop: the reactor of one thread (the loop thread) and  *)
(* the calls other threads make on it.                                     *)
(*                                                                         *)
(* The loop thread repeats: poll, run the handlers of the active channels, *)
(* run the functors other threads and handlers have queued.  A thread that *)
(* queues a functor or asks the loop to quit writes to an eventfd, which   *)
(* is itself a channel, so that the poll returns.                          *)
(*                                                                         *)
(* A functor is its position in the order of the push_backs.  User code in *)
(* the loop thread (a handler, a functor, the code around loop()) may call *)
(* queueInLoop and quit any number of times.  runInLoop adds no action: in *)
(* the loop thread it is a plain call, elsewhere it is queueInLoop.        *)
(***************************************************************************)
EXTENDS Naturals, Sequences, FiniteSets

CONSTANTS
    Threads,            \* the threads other than the loop thread
    Channels,           \* registered channels other than the wakeup channel
    MaxPosts,           \* bound: number of calls of queueInLoop
    WakeupFdMax,        \* the eventfd counter saturates here (2^64 - 2)
    InitEventListSize   \* EPollPoller::kInitEventListSize (16)

\* The channel of wakeupFd_.
WakeupChannel == "wakeupChannel"

ASSUME EventLoopAssumption ==
    /\ MaxPosts \in Nat
    /\ WakeupFdMax \in Nat \ {0}
    /\ InitEventListSize \in Nat \ {0}
    /\ WakeupChannel \notin Channels
    /\ IsFiniteSet(Channels)

VARIABLES
    pc,                     \* where the loop thread is
    looping,                \* looping_
    quit,                   \* quit_
    callingPendingFunctors, \* callingPendingFunctors_
    pendingFunctors,        \* pendingFunctors_, guarded by mutex_
    functors,               \* what is left of the vector doPendingFunctors swapped out
    wakeupFd,               \* counter of the eventfd
    ready,                  \* channels whose descriptor has an event (kernel)
    activeChannels,         \* activeChannels_ not yet handled
    eventsSize,             \* events_.size() of the EPollPoller
    threadPc,               \* where each other thread is
    posted,                 \* history: number of functors queued
    executed,               \* history: the functor started last
    selfPosted              \* history: the loop thread queued outside loop(), no batch since

loopVars == <<pc, looping, callingPendingFunctors, functors, activeChannels, eventsSize>>
queueVars == <<pendingFunctors, posted, selfPosted>>
vars == <<loopVars, queueVars, quit, wakeupFd, ready, threadPc, executed>>

\* The loop thread runs user code: outside loop(), in a channel's callback or
\* in a functor.
InUserCode == pc \in {"outside", "callback", "functor"}

Init ==
    /\ pc = "outside"
    /\ looping = FALSE
    /\ quit = FALSE
    /\ callingPendingFunctors = FALSE
    /\ pendingFunctors = <<>>
    /\ functors = <<>>
    /\ wakeupFd = 0
    /\ ready = {}
    /\ activeChannels = {}
    /\ eventsSize = InitEventListSize
    /\ threadPc = [t \in Threads |-> "idle"]
    /\ posted = 0
    /\ executed = 0
    /\ selfPosted = FALSE

-----------------------------------------------------------------------------
(* Calls on the loop.                                                      *)

\* Mutant of Push: push_front.
PushAtFront ==
    /\ posted < MaxPosts
    /\ posted' = posted + 1
    /\ pendingFunctors' = <<posted'>> \o pendingFunctors

\* The push_back of queueInLoop, under mutex_.
Push ==
    /\ posted < MaxPosts
    /\ posted' = posted + 1
    /\ pendingFunctors' = Append(pendingFunctors, posted')

\* The counter after wakeup() has written 1 to it: a write that would overflow
\* fails (the descriptor is non-blocking) and is only logged.
Wakened == IF wakeupFd < WakeupFdMax THEN wakeupFd + 1 ELSE wakeupFd

\* queueInLoop in another thread, up to the release of the mutex.
QueueInLoop(t) ==
    /\ threadPc[t] = "idle"
    /\ Push
    /\ threadPc' = [threadPc EXCEPT ![t] = "wakeup"]
    /\ UNCHANGED <<loopVars, selfPosted, quit, wakeupFd, ready, executed>>

\* Mutant of Quit: only the flag is set.
QuitNoWakeup(t) ==
    /\ threadPc[t] = "idle"
    /\ quit' = TRUE
    /\ UNCHANGED <<loopVars, queueVars, wakeupFd, ready, threadPc, executed>>

\* quit in another thread, up to the call of wakeup().
Quit(t) ==
    /\ threadPc[t] = "idle"
    /\ quit' = TRUE
    /\ threadPc' = [threadPc EXCEPT ![t] = "wakeup"]
    /\ UNCHANGED <<loopVars, queueVars, wakeupFd, ready, executed>>

\* The wakeup() at the end of queueInLoop and quit.
Wakeup(t) ==
    /\ threadPc[t] = "wakeup"
    /\ wakeupFd' = Wakened
    /\ threadPc' = [threadPc EXCEPT ![t] = "idle"]
    /\ UNCHANGED <<loopVars, queueVars, quit, ready, executed>>

\* Mutant of QueueInLoopSelf: wakes only from other threads, "|| callingPendingFunctors_"
\* forgotten.
QueueInLoopSelfNoWakeup ==
    /\ InUserCode
    /\ Push
    /\ selfPosted' = (selfPosted \/ pc = "outside")
    /\ UNCHANGED <<loopVars, quit, wakeupFd, ready, threadPc, executed>>

\* queueInLoop in the loop thread.  Nobody else reads the queue or the eventfd,
\* so the push and the conditional wakeup are one step.
QueueInLoopSelf ==
    /\ InUserCode
    /\ Push
    /\ wakeupFd' = IF callingPendingFunctors THEN Wakened ELSE wakeupFd
    /\ selfPosted' = (selfPosted \/ pc = "outside")
    /\ UNCHANGED <<loopVars, quit, ready, threadPc, executed>>

\* quit in the loop thread.
QuitSelf ==
    /\ InUserCode
    /\ quit' = TRUE
    /\ UNCHANGED <<loopVars, queueVars, wakeupFd, ready, threadPc, executed>>

-----------------------------------------------------------------------------
(* loop() and the functions it calls.                                      *)

\* The prologue of loop().
Loop ==
    /\ pc = "outside"
    /\ looping' = TRUE
    /\ quit' = FALSE
    /\ pc' = "while"
    /\ UNCHANGED <<callingPendingFunctors, functors, activeChannels, eventsSize,
                   queueVars, wakeupFd, ready, threadPc, executed>>

\* while (!quit_), and the epilogue of loop().
While ==
    /\ pc = "while"
    /\ pc' = IF quit THEN "outside" ELSE "poll"
    /\ looping' = ~quit
    /\ UNCHANGED <<callingPendingFunctors, functors, activeChannels, eventsSize,
                   queueVars, quit, wakeupFd, ready, threadPc, executed>>

\* The channels epoll_wait can report (level-triggered).
ReadyChannels == ready \cup (IF wakeupFd > 0 THEN {WakeupChannel} ELSE {})

\* EPollPoller::poll when there are events: at most events_.size() of them, and
\* the array is doubled when it was filled.
Poll ==
    /\ pc = "poll"
    /\ \E active \in SUBSET ReadyChannels \ {{}} :
        /\ \/ active = ReadyChannels /\ Cardinality(active) <= eventsSize
           \/ active # ReadyChannels /\ Cardinality(active) = eventsSize
        /\ activeChannels' = active
        /\ eventsSize' = IF Cardinality(active) = eventsSize THEN 2 * eventsSize
                                                             ELSE eventsSize
    /\ pc' = "handle"
    /\ UNCHANGED <<looping, callingPendingFunctors, functors, queueVars, quit,
                   wakeupFd, ready, threadPc, executed>>

\* EPollPoller::poll when kPollTimeMs have passed, or on EINTR.
PollNothing ==
    /\ pc = "poll"
    /\ ReadyChannels = {}
    /\ pc' = "handle"
    /\ UNCHANGED <<looping, callingPendingFunctors, functors, activeChannels, eventsSize,
                   queueVars, quit, wakeupFd, ready, threadPc, executed>>

\* handleRead, the callback of the wakeup channel: the read resets the counter.
HandleRead ==
    /\ pc = "handle"
    /\ WakeupChannel \in activeChannels
    /\ activeChannels' = activeChannels \ {WakeupChannel}
    /\ wakeupFd' = 0
    /\ UNCHANGED <<pc, looping, callingPendingFunctors, functors, eventsSize,
                   queueVars, quit, ready, threadPc, executed>>

\* handleEvent of another channel: its callback may or may not use up what made
\* the descriptor ready.
HandleEvent(c) ==
    /\ pc = "handle"
    /\ c \in activeChannels
    /\ activeChannels' = activeChannels \ {c}
    /\ ready' \in {ready, ready \ {c}}
    /\ pc' = "callback"
    /\ UNCHANGED <<looping, callingPendingFunctors, functors, eventsSize,
                   queueVars, quit, wakeupFd, threadPc, executed>>

\* The callback of a channel, or a functor, returns.
Return ==
    /\ \/ pc = "callback" /\ pc' = "handle"
       \/ pc = "functor" /\ pc' = "run"
    /\ UNCHANGED <<looping, callingPendingFunctors, functors, activeChannels, eventsSize,
                   queueVars, quit, wakeupFd, ready, threadPc, executed>>

\* Mutant of SwapFunctors: the queue is copied, not swapped.
CopyFunctors ==
    /\ pc = "handle"
    /\ activeChannels = {}
    /\ callingPendingFunctors' = TRUE
    /\ functors' = pendingFunctors
    /\ selfPosted' = FALSE
    /\ pc' = "run"
    /\ UNCHANGED <<looping, activeChannels, eventsSize, pendingFunctors, posted, quit,
                   wakeupFd, ready, threadPc, executed>>

\* doPendingFunctors up to the swap, under mutex_.
SwapFunctors ==
    /\ pc = "handle"
    /\ activeChannels = {}
    /\ callingPendingFunctors' = TRUE
    /\ functors' = pendingFunctors
    /\ pendingFunctors' = <<>>
    /\ selfPosted' = FALSE
    /\ pc' = "run"
    /\ UNCHANGED <<looping, activeChannels, eventsSize, posted, quit, wakeupFd, ready,
                   threadPc, executed>>

\* The loop of doPendingFunctors calls the next functor.
RunFunctor ==
    /\ pc = "run"
    /\ functors # <<>>
    /\ executed' = Head(functors)
    /\ functors' = Tail(functors)
    /\ pc' = "functor"
    /\ UNCHANGED <<looping, callingPendingFunctors, activeChannels, eventsSize,
                   queueVars, quit, wakeupFd, ready, threadPc>>

\* The end of doPendingFunctors.
FunctorsDone ==
    /\ pc = "run"
    /\ functors = <<>>
    /\ callingPendingFunctors' = FALSE
    /\ pc' = "while"
    /\ UNCHANGED <<looping, functors, activeChannels, eventsSize, queueVars, quit,
                   wakeupFd, ready, threadPc, executed>>

\* The kernel reports an event on a channel.
ChannelReady(c) ==
    /\ c \notin ready
    /\ ready' = ready \cup {c}
    /\ UNCHANGED <<loopVars, queueVars, quit, wakeupFd, threadPc, executed>>

-----------------------------------------------------------------------------
\* The steps the loop thread takes by itself inside loop(), the expiry of the
\* poll timeout excepted.
LoopStep ==
    \/ While
    \/ Poll
    \/ HandleRead
    \/ \E c \in Channels : HandleEvent(c)
    \/ Return
    \/ SwapFunctors
    \/ RunFunctor
    \/ FunctorsDone

Next ==
    \/ \E t \in Threads : QueueInLoop(t) \/ Quit(t) \/ Wakeup(t)
    \/ QueueInLoopSelf
    \/ QuitSelf
    \/ Loop
    \/ LoopStep
    \/ PollNothing
    \/ \E c \in Channels : ChannelReady(c)

Spec == Init /\ [][Next]_vars

-----------------------------------------------------------------------------
(* Properties.                                                             *)

\* Every variable keeps its type.
TypeOK ==
    /\ pc \in {"outside", "while", "poll", "handle", "callback", "run", "functor"}
    /\ looping \in BOOLEAN
    /\ quit \in BOOLEAN
    /\ callingPendingFunctors \in BOOLEAN
    /\ pendingFunctors \in Seq(Nat)
    /\ functors \in Seq(Nat)
    /\ wakeupFd \in 0 .. WakeupFdMax
    /\ ready \subseteq Channels
    /\ activeChannels \subseteq Channels \cup {WakeupChannel}
    /\ eventsSize \in Nat \ {0}
    /\ threadPc \in [Threads -> {"idle", "wakeup"}]
    /\ posted \in 0 .. MaxPosts
    /\ executed \in Nat
    /\ selfPosted \in BOOLEAN

\* The poll that is under way, or about to begin, will not block: the eventfd is
\* readable, or a caller has yet to write to it.
WakeupComing == wakeupFd > 0 \/ \E t \in Threads : threadPc[t] = "wakeup"

\* No lost wakeup: while the loop is in poll, a functor that queueInLoop has
\* pushed, by whatever thread and at whatever moment of the iteration, has a
\* wakeup that ends the poll.  The one exception is a functor the loop thread
\* queued before it called loop(): queueInLoop wakes nobody then.
NoLostWakeup ==
    (pc = "poll" /\ pendingFunctors # <<>>) => (WakeupComing \/ selfPosted)

\* The same for quit: a poll that began before quit_ was set is always ended by
\* the eventfd, whether quit was called by another thread or by a callback.
NoLostQuit == (pc = "poll" /\ quit) => WakeupComing

\* The functors not yet started are exactly the pushed ones after the last one
\* started, in the order of the pushes: the swap of doPendingFunctors neither
\* loses, repeats nor reorders one, also when functors queue functors.
ExactlyOnceInOrder ==
    LET waiting == functors \o pendingFunctors
    IN  /\ Len(waiting) = posted - executed
        /\ \A i \in DOMAIN waiting : waiting[i] = executed + i

\* To its callers an EventLoop is a first-in first-out executor.
Executor == INSTANCE SerialExecutor WITH
    queue <- functors \o pendingFunctors, submitted <- posted, last <- executed

ExecutorSpec == Executor!Spec

\* Every functor queued while the loop runs is started, unless the loop is quit
\* first, and without any help from the poll timeout.
QueuedRuns ==
    \A f \in 1 .. MaxPosts :
        (posted >= f /\ looping) ~> (executed >= f \/ ~looping \/ selfPosted)
=============================================================================
