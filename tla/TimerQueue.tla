----------------------------- MODULE TimerQueue -----------------------------
(***************************************************************************)
(* muduo::net::TimerQueue: the timers of one EventLoop, kept in two sets   *)
(* of raw pointers and driven by one timerfd.                              *)
(*                                                                         *)
(* Other threads call addTimer and cancel, which queue a functor for the   *)
(* loop (a first-in first-out executor, see EventLoop); user code in the   *)
(* loop thread, timer callbacks included, calls them directly.             *)
(*                                                                         *)
(* A Timer* is an address of a heap whose free cells are used again.  One  *)
(* tick is the 100 microseconds of howMuchTimeFromNow.                     *)
(***************************************************************************)
EXTENDS Integers, Sequences, FiniteSets

CONSTANTS
    Threads,      \* the threads other than the loop thread
    NumAddrs,     \* size of the heap: the Timer* are 1 .. NumAddrs
    Whens,        \* expirations passed to addTimer
    Intervals,    \* intervals passed to addTimer, 0 for none
    MaxTimers,    \* bound: number of Timers created
    MaxFunctors,  \* bound: length of the functor queue
    MaxTime,      \* bound: the wall clock stops here
    MaxJumps      \* bound: number of times the wall clock is set

ASSUME TimerQueueAssumption ==
    /\ NumAddrs \in Nat /\ MaxTimers \in Nat /\ MaxFunctors \in Nat
    /\ MaxTime \in Nat /\ MaxJumps \in Nat
    /\ Whens \subseteq 0 .. MaxTime
    /\ Intervals \subseteq Nat

VARIABLES
    now,              \* Timestamp::now(), the wall clock
    jumps,            \* number of times the wall clock was set
    timerfd,          \* ticks until the timerfd is readable, or Disarmed
    heap,             \* the Timer objects
    numCreated,       \* Timer::s_numCreated_
    timers,           \* timers_: pairs <<expiration, Timer*>>
    activeTimers,     \* activeTimers_: pairs <<Timer*, sequence>>
    cancelingTimers,  \* cancelingTimers_
    pc,               \* loop thread: "idle", "active" (the poll reported the timerfd), "calling"
    expired,          \* local of handleRead: the expired entries
    toRun,            \* those whose callback has not been called
    batchNow,         \* local of handleRead: now
    functors,         \* the loop's functor queue
    adding,           \* per thread: the Timer* whose sequence addTimer has yet to read
    ids,              \* the TimerIds the user holds
    fired,            \* history: sequences of the timers that have run
    cancelled         \* history: what cancelInLoop found of each sequence

loopVars == <<pc, expired, toRun, batchNow>>
setVars == <<timers, activeTimers, cancelingTimers>>
vars == <<now, jumps, timerfd, heap, numCreated, setVars, loopVars, functors, adding, ids,
          fired, cancelled>>

Addrs == 1 .. NumAddrs
NoAddr == 0
Disarmed == -1

\* A heap cell that holds no Timer.
Free == [seq |-> 0, expiration |-> 0, interval |-> 0]

Least(S) == CHOOSE x \in S : \A y \in S : x <= y
Expirations(entries) == {e[1] : e \in entries}

Init ==
    /\ now = 1
    /\ jumps = 0
    /\ timerfd = Disarmed
    /\ heap = [a \in Addrs |-> Free]
    /\ numCreated = 0
    /\ timers = {} /\ activeTimers = {} /\ cancelingTimers = {}
    /\ pc = "idle" /\ expired = {} /\ toRun = {} /\ batchNow = 0
    /\ functors = <<>>
    /\ adding = [t \in Threads |-> NoAddr]
    /\ ids = {}
    /\ fired = {}
    /\ cancelled = [s \in 1 .. MaxTimers |-> "no"]

-----------------------------------------------------------------------------
(* The functions of the loop thread.                                       *)

\* howMuchTimeFromNow: what resetTimerfd sets the timerfd to, at least one tick.
HowMuchTimeFromNow(when) == IF when - now < 1 THEN 1 ELSE when - now

\* Mutant of AddTimerInLoop: insert forgets that the first timer is the earliest.
AddTimerInLoopNotFirst(a, timer) ==
    /\ timers' = timers \cup {<<timer.expiration, a>>}
    /\ activeTimers' = activeTimers \cup {<<a, timer.seq>>}
    /\ timerfd' = IF timers # {} /\ \A e \in timers : timer.expiration < e[1]
                  THEN HowMuchTimeFromNow(timer.expiration)
                  ELSE timerfd

\* addTimerInLoop and insert.
AddTimerInLoop(a, timer) ==
    /\ timers' = timers \cup {<<timer.expiration, a>>}
    /\ activeTimers' = activeTimers \cup {<<a, timer.seq>>}
    /\ timerfd' = IF \A e \in timers : timer.expiration < e[1]
                  THEN HowMuchTimeFromNow(timer.expiration)
                  ELSE timerfd

\* Mutant of CancelInLoop: a timer of the running batch is deleted at once.
CancelInLoopDeletes(id) ==
    /\ timers' = timers \ {<<heap[id[1]].expiration, id[1]>>}
    /\ activeTimers' = activeTimers \ {id}
    /\ heap' = [heap EXCEPT ![id[1]] = Free]
    /\ UNCHANGED <<cancelingTimers, cancelled>>

\* cancelInLoop.  The history records where it found the timer: in the sets or in
\* the batch being run.  It does not find one whose addTimerInLoop is still queued.
CancelInLoop(id) ==
    LET a == id[1]
        found == CASE id \in activeTimers -> "erased"
                   [] \E e \in expired : e[2] = a /\ heap[a].seq = id[2] -> "inBatch"
                   [] OTHER -> "gone"
    IN  /\ IF id \in activeTimers
           THEN /\ timers' = timers \ {<<heap[a].expiration, a>>}
                /\ activeTimers' = activeTimers \ {id}
                /\ heap' = [heap EXCEPT ![a] = Free]
                /\ UNCHANGED cancelingTimers
           ELSE /\ cancelingTimers' = IF pc = "calling" THEN cancelingTimers \cup {id}
                                                        ELSE cancelingTimers
                /\ UNCHANGED <<timers, activeTimers, heap>>
        /\ cancelled' = IF found = "gone" THEN cancelled
                                          ELSE [cancelled EXCEPT ![id[2]] = found]

\* new Timer at a free address.
NewTimer(a, timer) ==
    /\ numCreated < MaxTimers
    /\ numCreated' = numCreated + 1
    /\ heap[a] = Free
    /\ timer.seq = numCreated'
    /\ heap' = [heap EXCEPT ![a] = timer]

\* The arguments of addTimer, with the sequence the constructor takes.
NewTimers == [seq : {numCreated + 1}, expiration : Whens, interval : Intervals]

-----------------------------------------------------------------------------
(* Calls of other threads.                                                 *)

\* addTimer up to the release of the queue's mutex in runInLoop.
AddTimer(t) ==
    /\ adding[t] = NoAddr
    /\ Len(functors) < MaxFunctors
    /\ \E a \in Addrs, timer \in NewTimers :
        /\ NewTimer(a, timer)
        /\ functors' = Append(functors, [op |-> "add", timer |-> a])
        /\ adding' = [adding EXCEPT ![t] = a]
    /\ UNCHANGED <<now, jumps, timerfd, setVars, loopVars, ids, fired, cancelled>>

\* The end of addTimer: it reads timer->sequence(), whatever is there by now.
AddTimerReturn(t) ==
    /\ adding[t] # NoAddr
    /\ \E s \in 0 .. MaxTimers :
        /\ heap[adding[t]] # Free => s = heap[adding[t]].seq
        /\ ids' = ids \cup {<<adding[t], s>>}
    /\ adding' = [adding EXCEPT ![t] = NoAddr]
    /\ UNCHANGED <<now, jumps, timerfd, heap, numCreated, setVars, loopVars, functors,
                   fired, cancelled>>

\* cancel queues cancelInLoop.
Cancel(id) ==
    /\ Len(functors) < MaxFunctors
    /\ functors' = Append(functors, [op |-> "cancel", id |-> id])
    /\ UNCHANGED <<now, jumps, timerfd, heap, numCreated, setVars, loopVars, adding, ids,
                   fired, cancelled>>

-----------------------------------------------------------------------------
(* The loop thread.                                                        *)

\* The loop thread runs user code: handlers and functors, or a timer callback.
InUserCode == pc # "calling" \/ toRun # expired

AddTimerSelf ==
    /\ InUserCode
    /\ \E a \in Addrs, timer \in NewTimers :
        /\ NewTimer(a, timer)
        /\ AddTimerInLoop(a, timer)
        /\ ids' = ids \cup {<<a, timer.seq>>}
    /\ UNCHANGED <<now, jumps, cancelingTimers, loopVars, functors, adding, fired, cancelled>>

CancelSelf(id) ==
    /\ InUserCode
    /\ CancelInLoop(id)
    /\ UNCHANGED <<now, jumps, timerfd, numCreated, loopVars, functors, adding, ids, fired>>

\* doPendingFunctors runs what the other threads queued.
RunFunctor ==
    /\ pc = "idle"
    /\ functors # <<>>
    /\ functors' = Tail(functors)
    /\ LET f == Head(functors)
       IN  \/ /\ f.op = "add"
              /\ AddTimerInLoop(f.timer, heap[f.timer])
              /\ UNCHANGED <<heap, cancelingTimers, cancelled>>
           \/ /\ f.op = "cancel"
              /\ CancelInLoop(f.id)
              /\ UNCHANGED timerfd
    /\ UNCHANGED <<now, jumps, numCreated, loopVars, adding, ids, fired>>

\* The poll reports the timerfd; handlers of other channels may come before it.
TimerfdActive ==
    /\ pc = "idle"
    /\ timerfd = 0
    /\ pc' = "active"
    /\ UNCHANGED <<now, jumps, timerfd, heap, numCreated, setVars, expired, toRun, batchNow,
                   functors, adding, ids, fired, cancelled>>

\* Mutant of ActiveTimersOf: getExpired leaves activeTimers_ alone.
ActiveTimersOfNone(entries) == {}

\* The elements of activeTimers_ for some entries of timers_.
ActiveTimersOf(entries) == {<<e[2], heap[e[2]].seq>> : e \in entries}

\* handleRead up to the first callback, with readTimerfd (which fails, and is
\* only logged, when a handler has armed the timerfd anew) and getExpired.
HandleRead ==
    /\ pc = "active"
    /\ pc' = "calling"
    /\ batchNow' = now
    /\ timerfd' = IF timerfd = 0 THEN Disarmed ELSE timerfd
    /\ expired' = {e \in timers : e[1] <= now}
    /\ toRun' = expired'
    /\ timers' = timers \ expired'
    /\ activeTimers' = activeTimers \ ActiveTimersOf(expired')
    /\ cancelingTimers' = {}
    /\ UNCHANGED <<now, jumps, heap, numCreated, functors, adding, ids, fired, cancelled>>

\* The loop of handleRead calls the next callback, in the order of the entries.
RunTimer(e) ==
    /\ pc = "calling"
    /\ e \in toRun
    /\ \A d \in toRun : e[1] < d[1] \/ (e[1] = d[1] /\ e[2] <= d[2])
    /\ toRun' = toRun \ {e}
    /\ fired' = fired \cup {heap[e[2]].seq}
    /\ UNCHANGED <<now, jumps, timerfd, heap, numCreated, setVars, pc, expired, batchNow,
                   functors, adding, ids, cancelled>>

\* Mutants of Repeating: cancelingTimers_ is not consulted; repeat() is not.
RepeatingCancelled == {e \in expired : heap[e[2]].interval > 0}
RepeatingAll == {e \in expired : <<e[2], heap[e[2]].seq>> \notin cancelingTimers}

\* The expired entries that reset puts back.
Repeating ==
    {e \in expired : heap[e[2]].interval > 0 /\ <<e[2], heap[e[2]].seq>> \notin cancelingTimers}

\* Mutant of NextTimerfd: the timerfd is left as it is.
NextTimerfdLeft(entries) == timerfd

\* The timerfd after reset has put back the repeating timers.
NextTimerfd(entries) ==
    LET nextExpire == Least(Expirations(entries))
    IN  IF entries # {} /\ nextExpire > 0 THEN HowMuchTimeFromNow(nextExpire) ELSE timerfd

\* The end of handleRead: reset, with Timer::restart.
Reset ==
    LET again == {e[2] : e \in Repeating}
        done == {e[2] : e \in expired} \ again
    IN  /\ pc = "calling"
        /\ toRun = {}
        /\ heap' = [a \in Addrs |->
                      IF a \in again
                      THEN [heap[a] EXCEPT !.expiration = batchNow + heap[a].interval]
                      ELSE IF a \in done THEN Free ELSE heap[a]]
        /\ timers' = timers \cup {<<heap'[a].expiration, a>> : a \in again}
        /\ activeTimers' = activeTimers \cup ActiveTimersOf(Repeating)
        /\ timerfd' = NextTimerfd(timers')
        /\ pc' = "idle"
        /\ expired' = {}
        /\ UNCHANGED <<now, jumps, numCreated, cancelingTimers, toRun, batchNow, functors,
                       adding, ids, fired, cancelled>>

-----------------------------------------------------------------------------
(* Time.                                                                   *)

\* The timerfd runs on the monotonic clock.
Tick ==
    /\ now' = IF now < MaxTime THEN now + 1 ELSE now
    /\ timerfd' = IF timerfd > 0 THEN timerfd - 1 ELSE timerfd
    /\ UNCHANGED <<jumps, heap, numCreated, setVars, loopVars, functors, adding, ids, fired,
                   cancelled>>

\* The wall clock is set.
Jump ==
    /\ jumps < MaxJumps
    /\ jumps' = jumps + 1
    /\ now' \in 1 .. MaxTime
    /\ UNCHANGED <<timerfd, heap, numCreated, setVars, loopVars, functors, adding, ids, fired,
                   cancelled>>

-----------------------------------------------------------------------------
LoopStep ==
    \/ RunFunctor
    \/ TimerfdActive
    \/ HandleRead
    \/ \E e \in toRun : RunTimer(e)
    \/ Reset

Next ==
    \/ \E t \in Threads : AddTimer(t) \/ AddTimerReturn(t)
    \/ \E id \in ids : Cancel(id) \/ CancelSelf(id)
    \/ AddTimerSelf
    \/ LoopStep
    \/ Tick
    \/ Jump

Spec == Init /\ [][Next]_vars

\* The loop goes round and time passes.
FairSpec ==
    /\ Spec
    /\ WF_vars(Tick)
    /\ WF_vars(RunFunctor)
    /\ WF_vars(TimerfdActive)
    /\ WF_vars(HandleRead \/ Reset \/ \E e \in toRun : RunTimer(e))
-----------------------------------------------------------------------------
(* Properties.                                                             *)

\* Every variable keeps its type.
TypeOK ==
    /\ now \in 0 .. MaxTime /\ jumps \in 0 .. MaxJumps
    /\ timerfd \in Nat \cup {Disarmed}
    /\ heap \in [Addrs -> [seq : 0 .. MaxTimers, expiration : Nat, interval : Intervals \cup {0}]]
    /\ numCreated \in 0 .. MaxTimers
    /\ timers \subseteq Nat \X Addrs /\ expired \subseteq Nat \X Addrs /\ toRun \subseteq expired
    /\ activeTimers \subseteq Addrs \X Nat /\ cancelingTimers \subseteq Addrs \X Nat
    /\ pc \in {"idle", "active", "calling"}
    /\ batchNow \in 0 .. MaxTime
    /\ functors \in Seq([op : {"add"}, timer : Addrs] \cup [op : {"cancel"}, id : Addrs \X Nat])
    /\ adding \in [Threads -> Addrs \cup {NoAddr}]
    /\ ids \subseteq Addrs \X (0 .. MaxTimers)
    /\ fired \subseteq 1 .. MaxTimers
    /\ cancelled \in [1 .. MaxTimers -> {"no", "erased", "inBatch"}]

\* timers_ and activeTimers_ hold the same timers, under the expiration and the
\* sequence the Timer objects have: what the asserts of insert, getExpired and
\* cancelInLoop rely on, and what lets cancelInLoop find an entry by its key.
SetsAgree ==
    /\ activeTimers = {<<e[2], heap[e[2]].seq>> : e \in timers}
    /\ \A e \in timers \cup expired : heap[e[2]].expiration = e[1]

\* The references the queue has to the Timer at an address.
Owners(a) ==
    Cardinality({e \in timers : e[2] = a}) + Cardinality({e \in expired : e[2] = a})
    + Cardinality({i \in DOMAIN functors : functors[i] = [op |-> "add", timer |-> a]})

\* Every Timer is in exactly one place (a queued addTimerInLoop, timers_, or the
\* batch being run), and no freed address is: callbacks that add and cancel
\* timers lead to no leak, no double delete and no use of a deleted Timer.
OwnedOnce ==
    \A a \in Addrs : Owners(a) = IF heap[a] = Free THEN 0 ELSE 1

\* Whenever the loop may poll and there is a timer, the timerfd is armed, also
\* after the wall clock was set, and if it never was, no later than the earliest
\* timer wants.
TimerfdArmed ==
    (pc # "calling" /\ timers # {}) =>
        /\ timerfd # Disarmed
        /\ jumps = 0 => timerfd <= HowMuchTimeFromNow(Least(Expirations(timers)))

\* The sequence of the timer whose callback this step calls, if it calls one.
Calls(s) == \E e \in toRun \ toRun' : pc = "calling" /\ heap[e[2]].seq = s

\* Once cancelInLoop has erased a timer it never runs; one it found in the batch
\* being run does not run after that batch, even if it repeats.  (In that batch it
\* may still run, and so may one that cancelInLoop found nowhere because its
\* addTimerInLoop was still queued: the code does not promise more.)
CancelHolds ==
    [][\A s \in 1 .. MaxTimers : Calls(s) =>
          /\ cancelled[s] # "erased"
          /\ cancelled[s] = "inBatch" => \E id \in cancelingTimers : id[2] = s]_vars

\* A timer without interval runs at most once.
OneShotRunsOnce ==
    [][\A e \in toRun \ toRun' :
          heap[e[2]].interval = 0 => heap[e[2]].seq \notin fired]_vars

\* A timer in the queue runs, unless it is cancelled: whatever callbacks add and
\* cancel, and wherever the wall clock is set, the timerfd comes for it.
TimerFires ==
    \A s \in 1 .. MaxTimers :
        (\E e \in timers : heap[e[2]].seq = s) ~> (s \in fired \/ cancelled[s] = "erased")

\* What TimerQueue.h says of addTimer, that it is thread safe: the Timer whose
\* sequence it reads in another thread has not been deleted.
SequenceOfLiveTimer ==
    \A t \in Threads : adding[t] # NoAddr => heap[adding[t]] # Free
=============================================================================
