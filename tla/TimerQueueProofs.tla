-------------------------- MODULE TimerQueueProofs --------------------------
(***************************************************************************)
(* Proofs about TimerQueue, for every number of threads, addresses and     *)
(* timers: the two sets agree, and each Timer is in exactly one place, so  *)
(* that none leaks, is deleted twice or is used after its deletion.        *)
(* The timerfd is armed for them, and what has been cancelled or runs once *)
(* does not run again.                                                     *)
(***************************************************************************)
EXTENDS TimerQueue, SequenceTheorems, FiniteSetTheorems, TLAPS

Timer == [seq : Nat, expiration : Nat, interval : Nat]
Functors == [op : {"add"}, timer : Addrs] \cup [op : {"cancel"}, id : Addrs \X Nat]
AddOf(a) == [op |-> "add", timer |-> a]

\* An addTimerInLoop of the Timer at a is queued; no two are of the same Timer.
Queued(q, a) == \E i \in 1 .. Len(q) : q[i] = AddOf(a)
QueuedOnce(q) == \A a \in Addrs : \A i, j \in 1 .. Len(q) : q[i] = AddOf(a) /\ q[j] = AddOf(a) => i = j

Types ==
    /\ now \in Nat /\ batchNow \in Nat /\ numCreated \in Nat
    /\ heap \in [Addrs -> Timer]
    /\ timers \subseteq Nat \X Addrs /\ expired \subseteq Nat \X Addrs
    /\ ids \subseteq Addrs \X Nat
    /\ functors \in Seq(Functors)
    /\ adding \in [Threads -> Addrs \cup {NoAddr}]
    /\ pc # "calling" => expired = {}

\* Where the Timers are.  The second half of the first conjunct makes an address occur
\* once in timers_ and in the batch together with the fourth.
Places ==
    /\ \A e \in timers \cup expired :
          heap[e[2]] # Free /\ heap[e[2]].expiration = e[1] /\ ~Queued(functors, e[2])
    /\ \A a \in Addrs : Queued(functors, a) => heap[a] # Free
    /\ \A a \in Addrs : heap[a] # Free => Queued(functors, a) \/ \E e \in timers \cup expired : e[2] = a
    /\ timers \cap expired = {}
    /\ QueuedOnce(functors)

Actives == activeTimers = ActiveTimersOf(timers)

\* The inductive invariant.
TimersInv == Types /\ Places /\ Actives

-----------------------------------------------------------------------------
(* The functor queue.                                                      *)

\* What push_back of a functor does to the Timers that are queued.
LEMMA QueuedAppend ==
    ASSUME NEW q \in Seq(Functors), NEW f \in Functors, QueuedOnce(q),
           \A a \in Addrs : f = AddOf(a) => ~Queued(q, a)
    PROVE  /\ Append(q, f) \in Seq(Functors) /\ QueuedOnce(Append(q, f))
           /\ \A a \in Addrs : Queued(Append(q, f), a) <=> Queued(q, a) \/ f = AddOf(a)
<1> HIDE DEF Functors, AddOf, Addrs
<1>1. /\ Len(q) \in Nat /\ Append(q, f) \in Seq(Functors) /\ Len(Append(q, f)) = Len(q) + 1
      /\ \A i \in 1 .. Len(q) : Append(q, f)[i] = q[i]
      /\ Append(q, f)[Len(q) + 1] = f
  BY AppendProperties, LenProperties
<1>2. \A i \in 1 .. Len(q) + 1 : i \in 1 .. Len(q) \/ i = Len(q) + 1
  BY <1>1
<1>3. 1 .. Len(q) \subseteq 1 .. Len(q) + 1 /\ Len(q) + 1 \in 1 .. Len(q) + 1
  BY <1>1
<1>4. \A a \in Addrs : Queued(Append(q, f), a) <=> Queued(q, a) \/ f = AddOf(a)
  BY <1>1, <1>2, <1>3 DEF Queued
<1>5. QueuedOnce(Append(q, f))
  <2> SUFFICES ASSUME NEW a \in Addrs, NEW i \in 1 .. Len(q) + 1, NEW j \in 1 .. Len(q) + 1,
                      Append(q, f)[i] = AddOf(a), Append(q, f)[j] = AddOf(a)
               PROVE  i = j
    BY <1>1 DEF QueuedOnce
  <2>1. CASE i \in 1 .. Len(q) /\ j \in 1 .. Len(q)
    BY <1>1, <2>1 DEF QueuedOnce
  <2>2. CASE i = Len(q) + 1 \/ j = Len(q) + 1
    BY <1>1, <1>2, <2>2 DEF Queued
  <2> QED BY <1>2, <2>1, <2>2
<1> QED BY <1>1, <1>4, <1>5

\* What running the first functor does to them.
LEMMA QueuedTail ==
    ASSUME NEW q \in Seq(Functors), q # <<>>, QueuedOnce(q)
    PROVE  /\ Head(q) \in Functors /\ Tail(q) \in Seq(Functors) /\ QueuedOnce(Tail(q))
           /\ \A a \in Addrs : Queued(Tail(q), a) <=> Queued(q, a) /\ Head(q) # AddOf(a)
           /\ \A a \in Addrs : Head(q) = AddOf(a) => Queued(q, a)
<1> HIDE DEF Functors, AddOf, Addrs
<1>1. /\ Len(q) \in Nat \ {0} /\ Head(q) \in Functors /\ Tail(q) \in Seq(Functors)
      /\ Len(Tail(q)) = Len(q) - 1 /\ Head(q) = q[1]
      /\ \A i \in 1 .. Len(q) - 1 : Tail(q)[i] = q[i + 1]
  BY HeadTailProperties, EmptySeq
<1>2. QueuedOnce(Tail(q))
  BY <1>1 DEF QueuedOnce
<1>3. ASSUME NEW a \in Addrs
      PROVE  Queued(Tail(q), a) <=> Queued(q, a) /\ Head(q) # AddOf(a)
  <2>1. ASSUME Queued(Tail(q), a)
        PROVE  Queued(q, a) /\ Head(q) # AddOf(a)
    <3>1. PICK i \in 1 .. Len(q) - 1 : Tail(q)[i] = AddOf(a)
      BY <1>1, <2>1 DEF Queued
    <3>2. i + 1 \in 1 .. Len(q) /\ q[i + 1] = AddOf(a) /\ i + 1 # 1 /\ 1 \in 1 .. Len(q)
      BY <1>1, <3>1
    <3> QED BY <1>1, <3>2 DEF Queued, QueuedOnce
  <2>2. ASSUME Queued(q, a), Head(q) # AddOf(a)
        PROVE  Queued(Tail(q), a)
    <3>1. PICK i \in 1 .. Len(q) : q[i] = AddOf(a)
      BY <2>2 DEF Queued
    <3>2. i - 1 \in 1 .. Len(q) - 1 /\ Tail(q)[i - 1] = AddOf(a)
      BY <1>1, <2>2, <3>1
    <3> QED BY <1>1, <3>2 DEF Queued
  <2> QED BY <2>1, <2>2
<1>4. \A a \in Addrs : Head(q) = AddOf(a) => Queued(q, a)
  BY <1>1 DEF Queued
<1> QED BY <1>1, <1>2, <1>3, <1>4

-----------------------------------------------------------------------------
(* The steps.                                                              *)

\* A new Timer is no Free cell, and lies where there was one.
LEMMA NewTimerStep ==
    ASSUME TimersInv, NEW a \in Addrs, NEW timer \in NewTimers, NewTimer(a, timer)
    PROVE  /\ timer \in Timer /\ timer # Free /\ heap[a] = Free /\ numCreated' \in Nat
           /\ heap' \in [Addrs -> Timer] /\ heap'[a] = timer
           /\ \A b \in Addrs : b # a => heap'[b] = heap[b]
           /\ ~Queued(functors, a) /\ \A e \in timers \cup expired : e[2] # a
<1>1. timer \in Timer /\ timer.seq # 0 /\ numCreated' \in Nat
  <2>1. numCreated \in Nat
    BY DEF TimersInv, Types
  <2>2. Whens \subseteq Nat /\ Intervals \subseteq Nat
    BY TimerQueueAssumption
  <2>3. /\ timer = [seq |-> timer.seq, expiration |-> timer.expiration, interval |-> timer.interval]
        /\ timer.seq = numCreated + 1 /\ timer.expiration \in Whens /\ timer.interval \in Intervals
    BY DEF NewTimers
  <2>4. numCreated' = numCreated + 1
    BY DEF NewTimer
  <2>5. timer.seq \in Nat /\ timer.seq # 0 /\ timer.expiration \in Nat /\ timer.interval \in Nat
    BY <2>1, <2>2, <2>3
  <2> QED BY <2>1, <2>3, <2>4, <2>5 DEF Timer
<1>2. timer # Free
  BY <1>1 DEF Free
<1>3. heap[a] = Free /\ heap' = [heap EXCEPT ![a] = timer]
  BY DEF NewTimer
<1>4. heap' \in [Addrs -> Timer] /\ heap'[a] = timer /\ \A b \in Addrs : b # a => heap'[b] = heap[b]
  <2> HIDE DEF Timer, Addrs
  <2> QED BY <1>1, <1>3 DEF TimersInv, Types
<1>5. ~Queued(functors, a) /\ \A e \in timers \cup expired : e[2] # a
  <2> HIDE DEF Queued
  <2> QED BY <1>3 DEF TimersInv, Places
<1> QED BY <1>1, <1>2, <1>3, <1>4, <1>5

\* addTimer of another thread: the Timer is in the queue.
LEMMA AddTimerKeeps ==
    ASSUME TimersInv, NEW t \in Threads, AddTimer(t)
    PROVE  TimersInv'
<1>1. PICK a \in Addrs, timer \in NewTimers :
        /\ NewTimer(a, timer) /\ functors' = Append(functors, AddOf(a))
        /\ adding' = [adding EXCEPT ![t] = a]
  BY Zenon DEF AddTimer, AddOf
<1>2. UNCHANGED <<now, timers, activeTimers, pc, expired, batchNow, ids>>
  BY DEF AddTimer, setVars, loopVars
<1>3. /\ timer # Free /\ heap' \in [Addrs -> Timer] /\ heap'[a] = timer /\ numCreated' \in Nat
      /\ \A b \in Addrs : b # a => heap'[b] = heap[b]
      /\ ~Queued(functors, a) /\ \A e \in timers \cup expired : e[2] # a
  <2> HIDE DEF TimersInv, NewTimers, NewTimer, Timer, Addrs
  <2> QED BY <1>1, NewTimerStep
<1>4. AddOf(a) \in Functors /\ \A b \in Addrs : AddOf(a) = AddOf(b) <=> a = b
  BY DEF AddOf, Functors
<1>5. /\ functors' \in Seq(Functors) /\ QueuedOnce(functors')
      /\ \A b \in Addrs : Queued(functors', b) <=> Queued(functors, b) \/ b = a
  <2> HIDE DEF Functors, AddOf, Queued, QueuedOnce, Addrs
  <2>1. functors \in Seq(Functors) /\ QueuedOnce(functors)
    BY DEF TimersInv, Types, Places
  <2>2. \A b \in Addrs : AddOf(a) = AddOf(b) => ~Queued(functors, b)
    BY <1>3, <1>4
  <2> QED BY <1>1, <1>4, <2>1, <2>2, QueuedAppend
<1>6. Types'
  <2> HIDE DEF Timer, Functors, Addrs
  <2> QED BY <1>1, <1>2, <1>3, <1>5 DEF TimersInv, Types
<1>7. Places'
  <2> HIDE DEF Queued, QueuedOnce, Addrs, Free
  <2>1. \A e \in timers \cup expired : e[2] \in Addrs
    BY DEF TimersInv, Types
  <2> QED BY <1>2, <1>3, <1>5, <2>1 DEF TimersInv, Places
<1>8. Actives'
  <2>1. \A e \in timers : e[2] \in Addrs /\ heap'[e[2]] = heap[e[2]]
    BY <1>3 DEF TimersInv, Types
  <2> QED BY <1>2, <2>1 DEF TimersInv, Actives, ActiveTimersOf
<1> QED BY <1>6, <1>7, <1>8 DEF TimersInv

\* insert: the Timer is in both sets.
LEMMA InsertKeeps ==
    ASSUME Types', NEW a \in Addrs, NEW timer, AddTimerInLoop(a, timer),
           Actives, heap'[a] = timer, timer # Free,
           \A e \in timers \cup expired : e[2] \in Addrs /\ e[2] # a /\ heap'[e[2]] = heap[e[2]],
           \A e \in timers \cup expired :
              heap[e[2]] # Free /\ heap[e[2]].expiration = e[1] /\ ~Queued(functors', e[2]),
           ~Queued(functors', a), QueuedOnce(functors'), expired' = expired, timers \cap expired = {},
           \A b \in Addrs : Queued(functors', b) => heap'[b] # Free,
           \A b \in Addrs : heap'[b] # Free =>
              b = a \/ Queued(functors', b) \/ \E e \in timers \cup expired : e[2] = b
    PROVE  TimersInv'
<1>1. timers' = timers \cup {<<timer.expiration, a>>} /\ activeTimers' = activeTimers \cup {<<a, timer.seq>>}
  BY DEF AddTimerInLoop
<1>2. Places'
  <2> HIDE DEF Queued, QueuedOnce, Addrs, Free
  <2> DEFINE new == <<timer.expiration, a>>
  <2>1. new[2] = a /\ new[1] = timer.expiration /\ timers' = timers \cup {new}
    BY <1>1
  <2> HIDE DEF new
  <2>2. \A e \in timers' \cup expired' :
          heap'[e[2]] # Free /\ heap'[e[2]].expiration = e[1] /\ ~Queued(functors', e[2])
    BY <2>1
  <2>3. timers' \cap expired' = {}
    BY <2>1
  <2>4. \A b \in Addrs : heap'[b] # Free =>
             Queued(functors', b) \/ \E e \in timers' \cup expired' : e[2] = b
    BY <2>1
  <2> QED BY <2>2, <2>3, <2>4 DEF Places
<1>3. Actives'
  <2>1. activeTimers = {<<e[2], heap'[e[2]].seq>> : e \in timers}
    BY DEF Actives, ActiveTimersOf
  <2> DEFINE new == <<timer.expiration, a>>
  <2>2. timers' = timers \cup {new} /\ <<new[2], heap'[new[2]].seq>> = <<a, timer.seq>>
    BY <1>1
  <2> HIDE DEF new
  <2>3. {<<e[2], heap'[e[2]].seq>> : e \in timers'} =
          {<<e[2], heap'[e[2]].seq>> : e \in timers} \cup {<<new[2], heap'[new[2]].seq>>}
    BY <2>2
  <2> QED BY <1>1, <2>1, <2>2, <2>3 DEF Actives, ActiveTimersOf
<1> QED BY <1>2, <1>3 DEF TimersInv

\* addTimer in the loop thread.
LEMMA AddTimerSelfKeeps ==
    ASSUME TimersInv, AddTimerSelf
    PROVE  TimersInv'
<1>1. PICK a \in Addrs, timer \in NewTimers :
        NewTimer(a, timer) /\ AddTimerInLoop(a, timer) /\ ids' = ids \cup {<<a, timer.seq>>}
  BY DEF AddTimerSelf
<1>2. UNCHANGED <<now, pc, expired, batchNow, functors, adding>>
  BY DEF AddTimerSelf, loopVars
<1>3. /\ timer \in Timer /\ timer # Free /\ heap' \in [Addrs -> Timer] /\ heap'[a] = timer
      /\ numCreated' \in Nat
      /\ \A b \in Addrs : b # a => heap'[b] = heap[b]
      /\ ~Queued(functors, a) /\ \A e \in timers \cup expired : e[2] # a
  <2> HIDE DEF TimersInv, NewTimers, NewTimer, Timer, Addrs
  <2> QED BY <1>1, NewTimerStep
<1>4. timer.seq \in Nat /\ timer.expiration \in Nat
  BY <1>3 DEF Timer
<1>5. Types'
  <2>1. timers' = timers \cup {<<timer.expiration, a>>}
    BY <1>1 DEF AddTimerInLoop
  <2> HIDE DEF Timer, Functors, Addrs
  <2> QED BY <1>1, <1>2, <1>3, <1>4, <2>1 DEF TimersInv, Types
<1>6. \A e \in timers \cup expired : e[2] \in Addrs
  BY DEF TimersInv, Types
<1>7. /\ \A e \in timers \cup expired :
            heap[e[2]] # Free /\ heap[e[2]].expiration = e[1] /\ ~Queued(functors, e[2])
      /\ QueuedOnce(functors) /\ timers \cap expired = {} /\ Actives
      /\ \A b \in Addrs : Queued(functors, b) => heap[b] # Free
      /\ \A b \in Addrs : heap[b] # Free => Queued(functors, b) \/ \E e \in timers \cup expired : e[2] = b
  BY DEF TimersInv, Places
<1> HIDE DEF Queued, QueuedOnce, Addrs, Free, Types, TimersInv, Actives, AddTimerInLoop, Timer
<1> QED BY <1>1, <1>2, <1>3, <1>5, <1>6, <1>7, InsertKeeps

\* cancelInLoop: a Timer that is in the sets is deleted and leaves both of them.
LEMMA CancelKeeps ==
    ASSUME TimersInv, NEW id \in Addrs \X Nat, CancelInLoop(id), Types',
           UNCHANGED expired, QueuedOnce(functors'),
           \A b \in Addrs : Queued(functors', b) <=> Queued(functors, b)
    PROVE  TimersInv'
<1> DEFINE a == id[1]
<1>0. a \in Addrs /\ id = <<a, id[2]>>
  OBVIOUS
<1>1. CASE id \notin activeTimers
  <2>1. UNCHANGED <<timers, activeTimers, heap>>
    BY <1>1 DEF CancelInLoop
  <2>2. \A e \in timers \cup expired : e[2] \in Addrs
    BY DEF TimersInv, Types
  <2>3. Places'
    <3> HIDE DEF Queued, QueuedOnce, Addrs, Free
    <3> QED BY <2>1, <2>2 DEF TimersInv, Places
  <2>4. Actives'
    BY <2>1 DEF TimersInv, Actives, ActiveTimersOf
  <2> QED BY <2>3, <2>4 DEF TimersInv
<1>2. CASE id \in activeTimers
  <2>1. /\ timers' = timers \ {<<heap[a].expiration, a>>} /\ activeTimers' = activeTimers \ {id}
        /\ heap' = [heap EXCEPT ![a] = Free]
    BY <1>2 DEF CancelInLoop
  <2>2. PICK d \in timers : id = <<d[2], heap[d[2]].seq>>
    BY <1>2 DEF TimersInv, Actives, ActiveTimersOf
  <2>3. /\ d[2] = a /\ heap[a] # Free /\ heap[a].expiration = d[1] /\ ~Queued(functors, a)
        /\ d = <<d[1], d[2]>>
    BY <2>2 DEF TimersInv, Places, Types
  <2>4. timers' = timers \ {d}
    BY <2>1, <2>3
  <2>5. \A e \in timers \cup expired : e[2] \in Addrs /\ e = <<e[1], e[2]>>
    BY DEF TimersInv, Types
  <2>6. \A e \in timers \cup expired : e[2] = a => e = d
    BY <2>2, <2>3, <2>5 DEF TimersInv, Places
  <2>7. d \notin expired
    BY <2>2 DEF TimersInv, Places
  <2>8. heap'[a] = Free /\ \A b \in Addrs : b # a => heap'[b] = heap[b]
    <3> HIDE DEF Timer, Free, Addrs
    <3> QED BY <1>0, <2>1 DEF TimersInv, Types
  <2> HIDE DEF a
  <2>9. Places'
    <3> HIDE DEF Queued, QueuedOnce, Addrs, Free
    <3>1. \A e \in timers' \cup expired' : e \in timers \cup expired /\ e[2] # a /\ e[2] \in Addrs
      BY <2>4, <2>5, <2>6, <2>7
    <3>2. \A e \in timers' \cup expired' :
             heap'[e[2]] # Free /\ heap'[e[2]].expiration = e[1] /\ ~Queued(functors', e[2])
      BY <2>8, <3>1 DEF TimersInv, Places
    <3>3. \A b \in Addrs : Queued(functors', b) => heap'[b] # Free
      BY <1>0, <2>3, <2>8 DEF TimersInv, Places
    <3>4. ASSUME NEW b \in Addrs, heap'[b] # Free, ~Queued(functors', b)
          PROVE  \E e \in timers' \cup expired' : e[2] = b
      <4>1. b # a /\ heap[b] # Free
        BY <2>8, <3>4
      <4>2. PICK e \in timers \cup expired : e[2] = b
        BY <3>4, <4>1 DEF TimersInv, Places
      <4> QED BY <2>3, <2>4, <4>1, <4>2
    <3>5. timers' \cap expired' = {}
      BY <2>4 DEF TimersInv, Places
    <3> QED BY <3>2, <3>3, <3>4, <3>5 DEF Places
  <2>10. Actives'
    <3>1. \A e \in timers \ {d} : <<e[2], heap'[e[2]].seq>> = <<e[2], heap[e[2]].seq>>
      BY <2>5, <2>6, <2>8
    <3>2. {<<e[2], heap'[e[2]].seq>> : e \in timers \ {d}} = {<<e[2], heap[e[2]].seq>> : e \in timers \ {d}}
      BY <3>1
    <3>3. \A e \in timers \ {d} : <<e[2], heap[e[2]].seq>> # id
      BY <2>2, <2>3, <2>6
    <3>4. {<<e[2], heap[e[2]].seq>> : e \in timers \ {d}} = {<<e[2], heap[e[2]].seq>> : e \in timers} \ {id}
      BY <2>2, <3>3
    <3> QED BY <2>1, <2>4, <3>2, <3>4 DEF TimersInv, Actives, ActiveTimersOf
  <2> QED BY <2>9, <2>10 DEF TimersInv
<1> QED BY <1>1, <1>2

\* What cancelInLoop leaves well typed.
LEMMA CancelTypes ==
    ASSUME Types, NEW id \in Addrs \X Nat, CancelInLoop(id)
    PROVE  heap' \in [Addrs -> Timer] /\ timers' \subseteq Nat \X Addrs
<1>1. Free \in Timer
  BY DEF Free, Timer
<1>2. id[1] \in Addrs
  OBVIOUS
<1> HIDE DEF Timer, Free, Addrs
<1>3. CASE id \in activeTimers
  BY <1>1, <1>2, <1>3 DEF CancelInLoop, Types
<1>4. CASE id \notin activeTimers
  BY <1>4 DEF CancelInLoop, Types
<1> QED BY <1>3, <1>4

\* cancel in the loop thread.
LEMMA CancelSelfKeeps ==
    ASSUME TimersInv, NEW id \in ids, CancelSelf(id)
    PROVE  TimersInv'
<1>1. id \in Addrs \X Nat /\ CancelInLoop(id)
  BY DEF CancelSelf, TimersInv, Types
<1>2. UNCHANGED <<now, numCreated, pc, expired, batchNow, functors, adding, ids>>
  BY DEF CancelSelf, loopVars
<1>3. heap' \in [Addrs -> Timer] /\ timers' \subseteq Nat \X Addrs
  <2> HIDE DEF CancelInLoop, Timer, Addrs
  <2> QED BY <1>1, CancelTypes DEF TimersInv
<1>4. Types'
  <2> HIDE DEF Timer, Functors, Addrs
  <2> QED BY <1>2, <1>3 DEF TimersInv, Types
<1>5. QueuedOnce(functors') /\ \A b \in Addrs : Queued(functors', b) <=> Queued(functors, b)
  <2> HIDE DEF QueuedOnce, Queued
  <2> QED BY <1>2 DEF TimersInv, Places
<1> HIDE DEF TimersInv, CancelInLoop, Types, QueuedOnce, Queued, Addrs
<1> QED BY <1>1, <1>2, <1>4, <1>5, CancelKeeps

\* doPendingFunctors: what addTimer and cancel queued.
LEMMA RunFunctorKeeps ==
    ASSUME TimersInv, RunFunctor
    PROVE  TimersInv'
<1> DEFINE f == Head(functors)
<1>1. UNCHANGED <<now, numCreated, pc, expired, batchNow, adding, ids>> /\ functors' = Tail(functors)
  BY DEF RunFunctor, loopVars
<1>2. /\ f \in Functors /\ functors' \in Seq(Functors) /\ QueuedOnce(functors')
      /\ \A a \in Addrs : Queued(functors', a) <=> Queued(functors, a) /\ f # AddOf(a)
      /\ \A a \in Addrs : f = AddOf(a) => Queued(functors, a)
  <2>1. functors \in Seq(Functors) /\ functors # <<>> /\ QueuedOnce(functors)
    BY DEF RunFunctor, TimersInv, Types, Places
  <2> HIDE DEF Functors, AddOf, Queued, QueuedOnce, Addrs
  <2> QED BY <1>1, <2>1, QueuedTail
<1>3. CASE f.op = "add" /\ AddTimerInLoop(f.timer, heap[f.timer]) /\ UNCHANGED heap
  <2> DEFINE a == f.timer
  <2>1. a \in Addrs /\ f = AddOf(a) /\ \A b \in Addrs : f = AddOf(b) <=> a = b
    BY <1>2, <1>3 DEF Functors, AddOf
  <2> HIDE DEF a, f, AddOf
  <2>2. AddTimerInLoop(a, heap[a]) /\ UNCHANGED heap
    BY <1>3 DEF a
  <2> HIDE DEF Queued, QueuedOnce, Addrs, Free, Timer, Functors
  <2>3. Queued(functors, a) /\ ~Queued(functors', a) /\ heap[a] # Free
    BY <1>2, <2>1 DEF TimersInv, Places
  <2>4. Types'
    <3>1. timers' = timers \cup {<<heap[a].expiration, a>>}
      BY <2>2 DEF AddTimerInLoop
    <3>2. heap[a].expiration \in Nat
      BY <2>1 DEF TimersInv, Types, Timer
    <3> QED BY <1>1, <1>2, <2>1, <2>2, <3>1, <3>2 DEF TimersInv, Types
  <2>5. /\ \A e \in timers \cup expired : e[2] \in Addrs /\ e[2] # a /\ heap'[e[2]] = heap[e[2]]
        /\ \A e \in timers \cup expired :
              heap[e[2]] # Free /\ heap[e[2]].expiration = e[1] /\ ~Queued(functors', e[2])
    BY <1>2, <2>2, <2>3 DEF TimersInv, Places, Types
  <2>6. /\ \A b \in Addrs : Queued(functors', b) => heap'[b] # Free
        /\ \A b \in Addrs : heap'[b] # Free =>
              b = a \/ Queued(functors', b) \/ \E e \in timers \cup expired : e[2] = b
        /\ timers \cap expired = {} /\ Actives
    BY <1>2, <2>1, <2>2 DEF TimersInv, Places
  <2>7. heap'[a] = heap[a] /\ expired' = expired
    BY <1>1, <2>2
  <2> HIDE DEF Types, TimersInv, Actives, AddTimerInLoop
  <2> QED BY <1>2, <2>1, <2>2, <2>3, <2>4, <2>5, <2>6, <2>7, InsertKeeps
<1>4. CASE f.op = "cancel" /\ CancelInLoop(f.id)
  <2>1. f.id \in Addrs \X Nat /\ \A b \in Addrs : f # AddOf(b)
    BY <1>2, <1>4 DEF Functors, AddOf
  <2> DEFINE id == f.id
  <2>2. id \in Addrs \X Nat /\ CancelInLoop(id)
    BY <1>4, <2>1
  <2> HIDE DEF id, f
  <2>3. heap' \in [Addrs -> Timer] /\ timers' \subseteq Nat \X Addrs
    <3> HIDE DEF CancelInLoop, Timer, Addrs
    <3> QED BY <2>2, CancelTypes DEF TimersInv
  <2>4. Types'
    <3> HIDE DEF Timer, Functors, Addrs
    <3> QED BY <1>1, <1>2, <2>3 DEF TimersInv, Types
  <2> HIDE DEF TimersInv, CancelInLoop, Types, QueuedOnce, Queued, Addrs, AddOf
  <2> QED BY <1>1, <1>2, <2>1, <2>2, <2>4, CancelKeeps
<1> QED BY <1>3, <1>4 DEF RunFunctor

\* cancel of another thread.
LEMMA CancelCallKeeps ==
    ASSUME TimersInv, NEW id \in ids, Cancel(id)
    PROVE  TimersInv'
<1> DEFINE f == [op |-> "cancel", id |-> id]
<1>1. functors' = Append(functors, f)
      /\ UNCHANGED <<now, heap, numCreated, timers, activeTimers, pc, expired, batchNow, adding, ids>>
  BY DEF Cancel, setVars, loopVars
<1>2. f \in Functors /\ \A a \in Addrs : f # AddOf(a)
  BY DEF TimersInv, Types, Functors, AddOf
<1> HIDE DEF f, Functors, AddOf, Addrs
<1>3. /\ functors' \in Seq(Functors) /\ QueuedOnce(functors')
      /\ \A a \in Addrs : Queued(functors', a) <=> Queued(functors, a)
  <2>1. functors \in Seq(Functors) /\ QueuedOnce(functors)
    BY DEF TimersInv, Types, Places
  <2> HIDE DEF Queued, QueuedOnce
  <2> QED BY <1>1, <1>2, <2>1, QueuedAppend
<1>4. Types'
  <2> HIDE DEF Timer
  <2> QED BY <1>1, <1>3 DEF TimersInv, Types
<1>5. Places'
  <2>1. \A e \in timers \cup expired : e[2] \in Addrs
    BY DEF TimersInv, Types
  <2> HIDE DEF Queued, QueuedOnce, Free
  <2> QED BY <1>1, <1>3, <2>1 DEF TimersInv, Places
<1>6. Actives'
  BY <1>1 DEF TimersInv, Actives, ActiveTimersOf
<1> QED BY <1>4, <1>5, <1>6 DEF TimersInv

\* handleRead: getExpired moves entries from both sets to the batch.
LEMMA HandleReadKeeps ==
    ASSUME TimersInv, HandleRead
    PROVE  TimersInv'
<1>1. /\ UNCHANGED <<now, heap, numCreated, functors, adding, ids>> /\ batchNow' = now
      /\ expired' \subseteq timers /\ timers' = timers \ expired' /\ pc' = "calling"
      /\ activeTimers' = activeTimers \ ActiveTimersOf(expired')
  BY DEF HandleRead
<1>2. expired = {}
  BY DEF HandleRead, TimersInv, Types
<1>3. \A e \in timers : e[2] \in Addrs /\ e = <<e[1], e[2]>> /\ heap[e[2]].expiration = e[1]
  BY DEF TimersInv, Types, Places
<1>4. Types'
  <2> HIDE DEF Timer, Functors, Addrs
  <2> QED BY <1>1 DEF TimersInv, Types
<1>5. Places'
  <2>1. timers' \cup expired' = timers /\ timers' \cap expired' = {}
    BY <1>1
  <2> HIDE DEF Queued, QueuedOnce, Free, Addrs
  <2> QED BY <1>1, <1>2, <2>1 DEF TimersInv, Places
<1>6. Actives'
  <2>1. \A d, e \in timers : <<d[2], heap[d[2]].seq>> = <<e[2], heap[e[2]].seq>> => d = e
    BY <1>3
  <2>2. {<<e[2], heap[e[2]].seq>> : e \in timers \ expired'} =
          {<<e[2], heap[e[2]].seq>> : e \in timers} \ {<<e[2], heap[e[2]].seq>> : e \in expired'}
    BY <1>1, <2>1
  <2> QED BY <1>1, <2>2 DEF TimersInv, Actives, ActiveTimersOf
<1> QED BY <1>4, <1>5, <1>6 DEF TimersInv

\* reset: the repeating Timers go back to the sets, the others are deleted.
LEMMA ResetKeeps ==
    ASSUME TimersInv, Reset
    PROVE  TimersInv'
<1> DEFINE again == {e[2] : e \in Repeating}
           done == {e[2] : e \in expired} \ again
           entry(a) == <<heap'[a].expiration, a>>
<1>1. /\ heap' = [a \in Addrs |-> IF a \in again
                                 THEN [heap[a] EXCEPT !.expiration = batchNow + heap[a].interval]
                                 ELSE IF a \in done THEN Free ELSE heap[a]]
      /\ timers' = timers \cup {entry(a) : a \in again}
      /\ activeTimers' = activeTimers \cup ActiveTimersOf(Repeating)
      /\ expired' = {} /\ pc' = "idle"
      /\ UNCHANGED <<now, numCreated, batchNow, functors, adding, ids>>
  BY DEF Reset
<1>2. \A e \in timers \cup expired : e[2] \in Addrs /\ e = <<e[1], e[2]>> /\ heap[e[2]].expiration = e[1]
  BY DEF TimersInv, Types, Places
<1>3. Repeating \subseteq expired /\ \A e \in Repeating : heap[e[2]].interval > 0
  BY DEF Repeating
<1>4. \A e \in timers : e[2] \notin again /\ e[2] \notin done
  <2>1. \A e \in timers, d \in expired : e[2] # d[2]
    BY <1>2 DEF TimersInv, Places
  <2> QED BY <1>3, <2>1
<1>5. again \subseteq Addrs
  BY <1>2, <1>3
<1>6. ASSUME NEW a \in again
      PROVE  /\ heap'[a] \in Timer /\ heap'[a] # Free /\ heap'[a].seq = heap[a].seq
             /\ ~Queued(functors, a)
  <2>1. a \in Addrs /\ heap'[a] = [heap[a] EXCEPT !.expiration = batchNow + heap[a].interval]
    BY <1>1, <1>5
  <2>2. heap[a] \in Timer /\ batchNow \in Nat
    BY <2>1 DEF TimersInv, Types
  <2>3. heap[a].interval > 0 /\ ~Queued(functors, a)
    <3> HIDE DEF Queued
    <3> QED BY <1>3 DEF TimersInv, Places
  <2>4. heap'[a] \in Timer /\ heap'[a].interval = heap[a].interval /\ heap'[a].seq = heap[a].seq
    BY <2>1, <2>2 DEF Timer
  <2>5. Free.interval = 0
    BY DEF Free
  <2>6. heap'[a] # Free
    BY <2>2, <2>3, <2>4, <2>5 DEF Timer
  <2> QED BY <2>3, <2>4, <2>6
<1>7. /\ \A a \in Addrs : a \in done => heap'[a] = Free
      /\ \A a \in Addrs : a \notin again /\ a \notin done => heap'[a] = heap[a]
  BY <1>1
<1>8. \A a \in Addrs : heap'[a] \in Timer
  <2>1. Free \in Timer /\ \A a \in Addrs : heap[a] \in Timer
    BY DEF TimersInv, Types, Free, Timer
  <2> HIDE DEF Timer, Addrs, Free, again, done
  <2> QED BY <1>6, <1>7, <2>1
<1>9. heap' \in [Addrs -> Timer]
  <2> HIDE DEF Timer, Addrs, Free, again, done
  <2> QED BY <1>1, <1>8
<1>10. /\ \A a \in again : entry(a)[2] = a /\ entry(a)[1] = heap'[a].expiration
       /\ \A a \in again : entry(a) \in Nat \X Addrs
  BY <1>5, <1>6 DEF Timer
<1>11. \A b \in Addrs : (\E e \in expired : e[2] = b) => b \in again \/ b \in done
  OBVIOUS
<1>12. \A b \in again \cup done : \E e \in expired : e[2] = b
  BY <1>3
<1> HIDE DEF again, done, entry
<1>13. Types'
  <2> HIDE DEF Timer, Functors, Addrs
  <2>1. timers' \subseteq Nat \X Addrs
    BY <1>1, <1>10 DEF TimersInv, Types
  <2> QED BY <1>1, <1>9, <2>1 DEF TimersInv, Types
<1>14. Places'
  <2> HIDE DEF Queued, QueuedOnce, Free, Addrs, Timer
  <2>1. ASSUME NEW e \in timers
        PROVE  heap'[e[2]] # Free /\ heap'[e[2]].expiration = e[1] /\ ~Queued(functors', e[2])
    <3>1. heap'[e[2]] = heap[e[2]]
      BY <1>2, <1>4, <1>7
    <3> QED BY <1>1, <3>1, Zenon DEF TimersInv, Places
  <2>2. ASSUME NEW a \in again
        PROVE  /\ heap'[entry(a)[2]] # Free /\ heap'[entry(a)[2]].expiration = entry(a)[1]
               /\ ~Queued(functors', entry(a)[2])
    BY <1>1, <1>6, <1>10
  <2>3. \A e \in timers' \cup expired' :
           heap'[e[2]] # Free /\ heap'[e[2]].expiration = e[1] /\ ~Queued(functors', e[2])
    BY <1>1, <2>1, <2>2
  <2>4. ASSUME NEW b \in Addrs, Queued(functors', b)
        PROVE  heap'[b] # Free
    <3>1. b \notin again /\ b \notin done
      BY <1>1, <1>12, <2>4 DEF TimersInv, Places
    <3> QED BY <1>1, <1>7, <2>4, <3>1 DEF TimersInv, Places
  <2>5. ASSUME NEW b \in Addrs, heap'[b] # Free, ~Queued(functors', b)
        PROVE  \E e \in timers' \cup expired' : e[2] = b
    <3>1. CASE b \in again
      BY <1>1, <1>10, <3>1
    <3>2. CASE b \notin again
      <4>1. b \notin done /\ heap[b] # Free /\ ~Queued(functors, b)
        BY <1>1, <1>7, <2>5, <3>2
      <4>2. PICK e \in timers \cup expired : e[2] = b
        BY <4>1 DEF TimersInv, Places
      <4>3. e \in timers
        BY <1>11, <3>2, <4>1, <4>2
      <4> QED BY <1>1, <4>2, <4>3
    <3> QED BY <3>1, <3>2
  <2>6. timers' \cap expired' = {} /\ QueuedOnce(functors')
    BY <1>1 DEF TimersInv, Places
  <2> QED BY <2>3, <2>4, <2>5, <2>6 DEF Places
<1>15. Actives'
  <2> DEFINE act(e) == <<e[2], heap[e[2]].seq>>
             act1(e) == <<e[2], heap'[e[2]].seq>>
  <2>1. \A e \in timers : act1(e) = act(e)
    BY <1>2, <1>4, <1>7
  <2>2. \A a \in again : act1(entry(a)) = <<a, heap[a].seq>>
    BY <1>6, <1>10
  <2>3. \A x : x \in ActiveTimersOf(Repeating) <=> \E a \in again : x = <<a, heap[a].seq>>
    BY DEF again, ActiveTimersOf
  <2>4. activeTimers = {act(e) : e \in timers}
    BY DEF TimersInv, Actives, ActiveTimersOf
  <2> HIDE DEF act, act1
  <2>5. \A x : x \in {act1(e) : e \in timers'} <=>
               x \in {act(e) : e \in timers} \/ \E a \in again : x = <<a, heap[a].seq>>
    BY <1>1, <2>1, <2>2
  <2>6. activeTimers' = {act1(e) : e \in timers'}
    BY <1>1, <2>3, <2>4, <2>5
  <2> QED BY <2>6 DEF Actives, ActiveTimersOf, act1
<1> QED BY <1>13, <1>14, <1>15 DEF TimersInv

\* The steps that leave the Timers where they are: the end of addTimer, a callback,
\* the poll and the clocks.
LEMMA OthersKeep ==
    ASSUME TimersInv,
           \/ \E t \in Threads : AddTimerReturn(t)
           \/ TimerfdActive
           \/ \E e \in toRun : RunTimer(e)
           \/ Tick
           \/ Jump
           \/ UNCHANGED vars
    PROVE  TimersInv'
<1>1. UNCHANGED <<heap, numCreated, timers, activeTimers, expired, batchNow, functors>>
  BY DEF AddTimerReturn, TimerfdActive, RunTimer, Tick, Jump, vars, setVars, loopVars
<1>2. now' \in Nat
  <2>1. now \in Nat /\ MaxTime \in Nat
    BY TimerQueueAssumption DEF TimersInv, Types
  <2>2. CASE Tick
    BY <2>1, <2>2 DEF Tick
  <2>3. CASE Jump
    BY <2>1, <2>3 DEF Jump
  <2>4. CASE UNCHANGED now
    BY <2>1, <2>4
  <2> QED BY <2>2, <2>3, <2>4 DEF AddTimerReturn, TimerfdActive, RunTimer, vars
<1>3. ids' \subseteq Addrs \X Nat /\ adding' \in [Threads -> Addrs \cup {NoAddr}]
  <2>1. ASSUME NEW t \in Threads, AddTimerReturn(t)
        PROVE  ids' \subseteq Addrs \X Nat /\ adding' \in [Threads -> Addrs \cup {NoAddr}]
    <3>1. PICK n \in 0 .. MaxTimers : ids' = ids \cup {<<adding[t], n>>}
      BY <2>1 DEF AddTimerReturn
    <3>2. adding[t] \in Addrs /\ n \in Nat
      BY <2>1, <3>1, TimerQueueAssumption DEF AddTimerReturn, TimersInv, Types
    <3>3. adding' = [adding EXCEPT ![t] = NoAddr]
      BY <2>1 DEF AddTimerReturn
    <3> HIDE DEF Addrs, NoAddr
    <3> QED BY <3>1, <3>2, <3>3 DEF TimersInv, Types
  <2>2. CASE UNCHANGED <<ids, adding>>
    BY <2>2 DEF TimersInv, Types
  <2> QED BY <2>1, <2>2 DEF TimerfdActive, RunTimer, Tick, Jump, vars
<1>4. Types'
  <2> HIDE DEF Timer, Functors, Addrs
  <2>1. pc' # "calling" => expired' = {}
    <3>1. UNCHANGED pc \/ pc = "idle"
      BY Zenon DEF AddTimerReturn, TimerfdActive, RunTimer, Tick, Jump, vars, loopVars
    <3> QED BY <1>1, <3>1 DEF TimersInv, Types
  <2> QED BY <1>1, <1>2, <1>3, <2>1 DEF TimersInv, Types
<1>5. Places'
  <2> HIDE DEF Free, Addrs, AddOf
  <2> QED BY <1>1, Zenon DEF TimersInv, Places, Queued, QueuedOnce
<1>6. Actives'
  BY <1>1 DEF TimersInv, Actives, ActiveTimersOf
<1> QED BY <1>4, <1>5, <1>6 DEF TimersInv

-----------------------------------------------------------------------------
(* The theorems.                                                           *)

\* TimersInv is an invariant.
LEMMA TimersInductive == Spec => []TimersInv
<1>1. Init => TimersInv
  <2> SUFFICES ASSUME Init PROVE TimersInv
    OBVIOUS
  <2>1. functors = <<>> /\ Len(functors) = 0
    BY DEF Init
  <2>2. QueuedOnce(functors) /\ \A a \in Addrs : ~Queued(functors, a)
    BY <2>1 DEF Queued, QueuedOnce
  <2>3. Free \in Timer
    BY DEF Free, Timer
  <2>4. Types
    BY <2>1, <2>3 DEF Init, Types
  <2>5. Places
    <3> HIDE DEF Queued, QueuedOnce, Free
    <3> QED BY <2>2 DEF Init, Places
  <2>6. Actives
    BY DEF Init, Actives, ActiveTimersOf
  <2> QED BY <2>4, <2>5, <2>6 DEF TimersInv
<1>2. TimersInv /\ [Next]_vars => TimersInv'
  <2> SUFFICES ASSUME TimersInv, [Next]_vars PROVE TimersInv'
    OBVIOUS
  <2> HIDE DEF TimersInv
  <2>1. CASE \E t \in Threads : AddTimer(t)
    BY <2>1, AddTimerKeeps
  <2>2. CASE \E id \in ids : Cancel(id)
    BY <2>2, CancelCallKeeps
  <2>3. CASE \E id \in ids : CancelSelf(id)
    BY <2>3, CancelSelfKeeps
  <2>4. CASE AddTimerSelf
    BY <2>4, AddTimerSelfKeeps
  <2>5. CASE RunFunctor
    BY <2>5, RunFunctorKeeps
  <2>6. CASE HandleRead
    BY <2>6, HandleReadKeeps
  <2>7. CASE Reset
    BY <2>7, ResetKeeps
  <2>8. CASE \/ \E t \in Threads : AddTimerReturn(t)
             \/ TimerfdActive
             \/ \E e \in toRun : RunTimer(e)
             \/ Tick
             \/ Jump
             \/ UNCHANGED vars
    BY <2>8, OthersKeep
  <2> QED BY <2>1, <2>2, <2>3, <2>4, <2>5, <2>6, <2>7, <2>8 DEF Next, LoopStep
<1> QED BY <1>1, <1>2, PTL DEF Spec

\* timers_ and activeTimers_ hold the same Timers under the keys the Timers have,
\* whatever addTimer, cancel, the callbacks and reset do, in any order.
THEOREM SetsAlwaysAgree == Spec => []SetsAgree
<1>1. TimersInv => SetsAgree
  BY DEF TimersInv, Places, Actives, ActiveTimersOf, SetsAgree
<1> QED BY <1>1, TimersInductive, PTL

\* Every Timer is in exactly one place and no deleted one is in any: TimerQueue
\* leaks none, deletes none twice and uses none it has deleted.
THEOREM TimersOwnedOnce == Spec => []OwnedOnce
<1>1. ASSUME TimersInv, NEW a \in Addrs
      PROVE  Owners(a) = IF heap[a] = Free THEN 0 ELSE 1
  <2> DEFINE T == {e \in timers : e[2] = a}
             X == {e \in expired : e[2] = a}
             Q == {i \in DOMAIN functors : functors[i] = AddOf(a)}
  <2>1. Owners(a) = Cardinality(T) + Cardinality(X) + Cardinality(Q)
    BY DEF Owners, AddOf
  <2>2. functors \in Seq(Functors) /\ DOMAIN functors = 1 .. Len(functors)
    BY <1>1, LenProperties DEF TimersInv, Types
  <2>3. \A d, e \in T \cup X : d = e
    BY <1>1, SMTT(60) DEF TimersInv, Types, Places
  <2>4. T \cap X = {}
    BY <1>1 DEF TimersInv, Places
  <2>5. \A i, j \in Q : i = j
    BY <1>1, <2>2 DEF TimersInv, Places, QueuedOnce
  <2>6. Q # {} <=> Queued(functors, a)
    BY <2>2 DEF Queued
  <2>7. Q # {} => T \cup X = {}
    <3> HIDE DEF Q, Queued
    <3> QED BY <1>1, <2>6 DEF TimersInv, Places
  <2>8. heap[a] # Free <=> T \cup X \cup Q # {}
    <3>1. heap[a] # Free => Q # {} \/ T \cup X # {}
      <4> HIDE DEF Q, Queued, Free
      <4> QED BY <1>1, <2>6 DEF TimersInv, Places
    <3>2. Q # {} \/ T \cup X # {} => heap[a] # Free
      <4> HIDE DEF Q, Queued, Free
      <4> QED BY <1>1, <2>6 DEF TimersInv, Places
    <3> QED BY <3>1, <3>2
  <2>9. Cardinality({}) = 0 /\ \A x : Cardinality({x}) = 1
    BY FS_EmptySet, FS_Singleton, Zenon
  <2> HIDE DEF T, X, Q
  <2>10. CASE heap[a] = Free
    <3>1. T = {} /\ X = {} /\ Q = {}
      BY <2>8, <2>10
    <3>2. Owners(a) = 0 + 0 + 0
      BY <2>1, <2>9, <3>1
    <3> HIDE DEF Owners
    <3> QED BY <2>10, <3>2
  <2>11. CASE heap[a] # Free
    <3>1. PICK x : x \in T \cup X \cup Q
      BY <2>8, <2>11
    <3>2. \/ T = {x} /\ X = {} /\ Q = {}
          \/ T = {} /\ X = {x} /\ Q = {}
          \/ T = {} /\ X = {} /\ Q = {x}
      BY <2>3, <2>4, <2>5, <2>7, <3>1
    <3>3. Owners(a) = 1 + 0 + 0 \/ Owners(a) = 0 + 1 + 0 \/ Owners(a) = 0 + 0 + 1
      BY <2>1, <2>9, <3>2, Zenon
    <3> HIDE DEF Owners
    <3> QED BY <2>11, <3>3
  <2> QED BY <2>10, <2>11
<1>2. TimersInv => OwnedOnce
  BY <1>1 DEF OwnedOnce
<1> QED BY <1>2, TimersInductive, PTL

-----------------------------------------------------------------------------
(* The timerfd.                                                            *)

\* The timerfd is armed for the timer of expiration x.
ArmedFor(x) == timerfd # Disarmed /\ (jumps = 0 => timerfd <= HowMuchTimeFromNow(x))

\* While callbacks run, the timerfd need not be armed: reset arms it for the
\* earliest timer, unless that expires at 0, which is no valid() time; then
\* addTimerInLoop has armed it.
ArmedInv ==
    /\ now >= 1 /\ jumps \in Nat /\ timerfd \in Nat \cup {Disarmed}
    /\ pc = "calling" => batchNow >= 1
    /\ pc # "calling" => \A e \in timers : ArmedFor(e[1])
    /\ pc = "calling" => \A e \in timers : e[1] = 0 => timerfd \in {0, 1}

\* A set of expirations has an earliest.
LEMMA LeastNat ==
    ASSUME NEW S \in SUBSET Nat, S # {}
    PROVE  Least(S) \in S /\ \A y \in S : Least(S) <= y
<1>1. PICK x \in S : \A y \in S : ~(<<y, x>> \in OpToRel(<, Nat))
  BY NatLessThanWellFounded, WFMin, Zenon
<1>2. \A y \in S : ~(y < x)
  BY <1>1, Zenon DEF OpToRel
<1>3. \A y \in S : x <= y
  BY <1>2
<1> QED BY <1>3, Zenon DEF Least

\* howMuchTimeFromNow is at least the minimal delay, and grows with the expiration.
LEMMA TimeFromNow ==
    ASSUME now \in Nat, NEW x \in Nat, NEW y \in Nat, x <= y
    PROVE  HowMuchTimeFromNow(x) \in Nat /\ 1 <= HowMuchTimeFromNow(x) /\ HowMuchTimeFromNow(x) <= HowMuchTimeFromNow(y)
BY DEF HowMuchTimeFromNow

\* addTimerInLoop arms the timerfd when the timer is the earliest.
LEMMA InsertArms ==
    ASSUME Types, ArmedInv, NEW a, NEW timer, timer.expiration \in Nat, AddTimerInLoop(a, timer),
           UNCHANGED <<now, jumps, pc, batchNow>>
    PROVE  ArmedInv'
<1> DEFINE x == timer.expiration
<1>1. /\ timers' = timers \cup {<<x, a>>}
      /\ timerfd' = IF \A e \in timers : x < e[1] THEN HowMuchTimeFromNow(x) ELSE timerfd
  BY DEF AddTimerInLoop
<1>2. x \in Nat /\ now \in Nat /\ now >= 1 /\ \A e \in timers : e[1] \in Nat
  BY DEF Types, ArmedInv
<1> HIDE DEF x
<1>3. \A e \in timers' : e[1] = x \/ e \in timers
  BY <1>1
<1>4. CASE \A e \in timers : x < e[1]
  <2>1. \A e \in timers' : e[1] \in Nat /\ x <= e[1]
    BY <1>2, <1>3, <1>4
  <2>2. timerfd' = HowMuchTimeFromNow(x) /\ timerfd' \in Nat /\ timerfd' # Disarmed
    BY <1>1, <1>2, <1>4, TimeFromNow DEF Disarmed
  <2>3. \A e \in timers' : timerfd' <= HowMuchTimeFromNow(e[1])
    BY <1>2, <2>1, <2>2, TimeFromNow
  <2>4. ASSUME NEW e \in timers', e[1] = 0 PROVE timerfd' = 1
    BY <1>2, <2>1, <2>2, <2>4 DEF HowMuchTimeFromNow
  <2> QED BY <2>2, <2>3, <2>4 DEF ArmedInv, ArmedFor, HowMuchTimeFromNow
<1>5. CASE ~(\A e \in timers : x < e[1])
  <2>1. PICK d \in timers : d[1] <= x /\ d[1] \in Nat
    BY <1>2, <1>5
  <2>2. timerfd' = timerfd
    BY <1>1, <1>5
  <2>3. HowMuchTimeFromNow(d[1]) <= HowMuchTimeFromNow(x) /\ HowMuchTimeFromNow(d[1]) \in Nat /\ HowMuchTimeFromNow(x) \in Nat
    BY <1>2, <2>1, TimeFromNow
  <2>4. pc # "calling" => ArmedFor(d[1])
    BY DEF ArmedInv
  <2>5. pc # "calling" => ArmedFor(x)
    <3>1. ASSUME ArmedFor(d[1]) PROVE ArmedFor(x)
      <4>1. timerfd \in Nat
        BY <3>1 DEF ArmedFor, ArmedInv
      <4> HIDE DEF HowMuchTimeFromNow, Disarmed
      <4> QED BY <2>3, <3>1, <4>1 DEF ArmedFor
    <3> QED BY <2>4, <3>1
  <2>6. pc = "calling" /\ x = 0 => timerfd \in {0, 1}
    BY <2>1 DEF ArmedInv
  <2>7. \A y : ArmedFor(y)' <=> ArmedFor(y)
    BY <2>2 DEF ArmedFor, HowMuchTimeFromNow
  <2>8. pc' # "calling" => \A e \in timers' : ArmedFor(e[1])'
    <3> HIDE DEF ArmedFor
    <3> QED BY <1>3, <2>5, <2>7 DEF ArmedInv
  <2>9. pc' = "calling" => \A e \in timers' : e[1] = 0 => timerfd' \in {0, 1}
    BY <1>3, <2>2, <2>6 DEF ArmedInv
  <2> QED BY <2>2, <2>8, <2>9 DEF ArmedInv
<1> QED BY <1>4, <1>5

\* A cancelled timer leaves the timerfd as it is.
LEMMA FewerArmed ==
    ASSUME ArmedInv, timers' \subseteq timers, UNCHANGED <<now, jumps, timerfd, batchNow>>,
           pc' = pc \/ (pc = "idle" /\ pc' = "active")
    PROVE  ArmedInv'
<1>1. \A y : ArmedFor(y)' <=> ArmedFor(y)
  BY DEF ArmedFor, HowMuchTimeFromNow
<1> HIDE DEF ArmedFor
<1> QED BY <1>1 DEF ArmedInv

\* cancelInLoop adds no entry to timers_.
LEMMA CancelFewer == ASSUME NEW id, CancelInLoop(id) PROVE timers' \subseteq timers
BY DEF CancelInLoop

\* reset arms it for the earliest timer.
LEMMA ResetArms ==
    ASSUME TimersInv, TimersInv', ArmedInv, Reset
    PROVE  ArmedInv'
<1>1. /\ pc = "calling" /\ pc' = "idle" /\ timerfd' = NextTimerfd(timers')
      /\ UNCHANGED <<now, jumps, batchNow>>
  BY DEF Reset
<1>2. \A e \in timers' : e \in timers \/ e[1] >= 1
  <2> DEFINE again == {e[2] : e \in Repeating}
  <2>1. /\ timers' = timers \cup {<<heap'[a].expiration, a>> : a \in again}
        /\ \A a \in Addrs : a \in again => heap'[a] = [heap[a] EXCEPT !.expiration = batchNow + heap[a].interval]
    BY DEF Reset
  <2>2. \A a \in again : a \in Addrs /\ heap[a] \in Timer
    <3>1. Repeating \subseteq expired
      BY DEF Repeating
    <3> QED BY <3>1 DEF TimersInv, Types
  <2> HIDE DEF again
  <2>3. batchNow \in Nat /\ batchNow >= 1
    BY <1>1 DEF TimersInv, Types, ArmedInv
  <2>4. ASSUME NEW a \in again PROVE heap'[a].expiration >= 1
    <3>1. heap[a] \in Timer /\ heap'[a] = [heap[a] EXCEPT !.expiration = batchNow + heap[a].interval]
      BY <2>1, <2>2
    <3>2. heap[a].interval \in Nat /\ heap'[a].expiration = batchNow + heap[a].interval
      BY <3>1 DEF Timer
    <3> QED BY <2>3, <3>2
  <2> QED BY <2>1, <2>4
<1>3. timers' \subseteq Nat \X Addrs /\ now \in Nat /\ now >= 1
  BY DEF TimersInv, Types, ArmedInv
<1>4. CASE timers' = {}
  <2>1. timerfd' = timerfd
    BY <1>1, <1>4 DEF NextTimerfd
  <2> QED BY <1>1, <1>4, <2>1 DEF ArmedInv
<1>5. CASE timers' # {}
  <2> DEFINE E == Expirations(timers')
             x == Least(E)
  <2>1. E \in SUBSET Nat /\ E # {} /\ \A e \in timers' : e[1] \in E
    BY <1>3, <1>5 DEF Expirations
  <2>2. x \in E /\ x \in Nat /\ \A y \in E : x <= y
    <3> HIDE DEF E
    <3> QED BY <2>1, LeastNat, Zenon
  <2>3. timerfd' = IF x > 0 THEN HowMuchTimeFromNow(x) ELSE timerfd
    BY <1>1, <1>5 DEF NextTimerfd
  <2>4. \E d \in timers' : d[1] = x
    BY <2>2, Zenon DEF Expirations
  <2> HIDE DEF E, x
  <2>5. timerfd' \in Nat /\ timerfd' # Disarmed /\ timerfd' <= HowMuchTimeFromNow(x)
    <3>1. HowMuchTimeFromNow(x) \in Nat /\ 1 <= HowMuchTimeFromNow(x)
      BY <1>3, <2>2, TimeFromNow
    <3>2. CASE x > 0
      BY <2>3, <3>1, <3>2 DEF Disarmed
    <3>3. CASE ~(x > 0)
      <4>1. x = 0
        BY <2>2, <3>3
      <4>2. timerfd \in {0, 1}
        BY <1>1, <1>2, <2>4, <4>1 DEF ArmedInv
      <4> QED BY <2>3, <3>1, <3>3, <4>2 DEF Disarmed
    <3> QED BY <3>2, <3>3
  <2>6. ASSUME NEW e \in timers' PROVE timerfd' <= HowMuchTimeFromNow(e[1])
    <3>1. e[1] \in Nat /\ x <= e[1]
      BY <2>1, <2>2, Zenon
    <3>2. HowMuchTimeFromNow(x) <= HowMuchTimeFromNow(e[1]) /\ HowMuchTimeFromNow(x) \in Nat /\ HowMuchTimeFromNow(e[1]) \in Nat
      BY <1>3, <2>2, <3>1, TimeFromNow
    <3> HIDE DEF HowMuchTimeFromNow
    <3> QED BY <2>5, <3>2
  <2> QED BY <1>1, <2>5, <2>6 DEF ArmedInv, ArmedFor, HowMuchTimeFromNow
<1> QED BY <1>4, <1>5

\* The clocks.
LEMMA TickArmed ==
    ASSUME TimersInv, ArmedInv, Tick
    PROVE  ArmedInv'
<1>1. /\ now' \in {now, now + 1} /\ timerfd' = (IF timerfd > 0 THEN timerfd - 1 ELSE timerfd)
      /\ UNCHANGED <<jumps, timers, pc, batchNow>>
  BY DEF Tick, setVars, loopVars
<1>2. now \in Nat /\ now >= 1 /\ timerfd \in Nat \cup {-1} /\ \A e \in timers : e[1] \in Nat
  BY DEF TimersInv, Types, ArmedInv, Disarmed
<1>3. timerfd' \in Nat \cup {-1} /\ (timerfd # -1 => timerfd' # -1) /\ (timerfd \in {0, 1} => timerfd' \in {0, 1})
  BY <1>1, <1>2
<1>4. ASSUME NEW x \in Nat, ArmedFor(x) PROVE ArmedFor(x)'
  <2>1. HowMuchTimeFromNow(x)' \in Nat /\ HowMuchTimeFromNow(x)' >= 1 /\ HowMuchTimeFromNow(x)' >= HowMuchTimeFromNow(x) - 1
    <3> DEFINE n == now'
    <3>1. n \in Nat /\ (n = now \/ n = now + 1)
      BY <1>1, <1>2
    <3>2. HowMuchTimeFromNow(x)' = IF x - n < 1 THEN 1 ELSE x - n
      BY DEF HowMuchTimeFromNow
    <3> HIDE DEF n
    <3> QED BY <1>2, <3>1, <3>2 DEF HowMuchTimeFromNow
  <2>2. HowMuchTimeFromNow(x) \in Nat
    BY <1>2, TimeFromNow
  <2> DEFINE h == HowMuchTimeFromNow(x)
             g == HowMuchTimeFromNow(x)'
  <2>3. /\ g \in Nat /\ g >= 1 /\ g >= h - 1 /\ h \in Nat
        /\ timerfd # -1 /\ (jumps = 0 => timerfd <= h)
    BY <1>4, <2>1, <2>2 DEF ArmedFor, Disarmed
  <2> HIDE DEF h, g
  <2>4. timerfd' # -1 /\ (jumps = 0 => timerfd' <= g)
    BY <1>1, <1>2, <1>3, <2>3
  <2> QED BY <1>1, <2>4 DEF ArmedFor, Disarmed, g
<1> HIDE DEF ArmedFor
<1> QED BY <1>1, <1>2, <1>3, <1>4 DEF ArmedInv, Disarmed

\* A jump of the wall clock leaves the timerfd, which counts down by itself.
LEMMA JumpArmed ==
    ASSUME TimersInv, ArmedInv, Jump
    PROVE  ArmedInv'
<1>1. now' >= 1 /\ jumps' = jumps + 1 /\ UNCHANGED <<timerfd, timers, pc, batchNow>> /\ jumps \in Nat
  BY DEF Jump, setVars, loopVars, ArmedInv
<1>2. jumps' \in Nat /\ jumps' # 0
  BY <1>1
<1> QED BY <1>1, <1>2 DEF ArmedInv, ArmedFor

\* Every step preserves ArmedInv.
LEMMA ArmedStep ==
    ASSUME TimersInv, TimersInv', ArmedInv, [Next]_vars
    PROVE  ArmedInv'
<1>1. CASE \E t \in Threads : AddTimer(t) \/ AddTimerReturn(t)
  <2>1. UNCHANGED <<now, jumps, timerfd, batchNow, timers, pc>>
    BY <1>1 DEF AddTimer, AddTimerReturn, setVars, loopVars
  <2> QED BY <2>1, FewerArmed
<1>2. CASE \E id \in ids : Cancel(id)
  <2>1. UNCHANGED <<now, jumps, timerfd, batchNow, timers, pc>>
    BY <1>2 DEF Cancel, setVars, loopVars
  <2> QED BY <2>1, FewerArmed
<1>3. CASE \E id \in ids : CancelSelf(id)
  <2>1. UNCHANGED <<now, jumps, timerfd, batchNow, pc>> /\ \E id \in ids : CancelInLoop(id)
    BY <1>3 DEF CancelSelf, loopVars
  <2> QED BY <2>1, CancelFewer, FewerArmed
<1>4. CASE AddTimerSelf
  <2>1. PICK a \in Addrs, timer \in NewTimers : AddTimerInLoop(a, timer)
    BY <1>4 DEF AddTimerSelf
  <2>2. UNCHANGED <<now, jumps, pc, batchNow>>
    BY <1>4 DEF AddTimerSelf, loopVars
  <2>3. timer.expiration \in Nat
    <3>1. timer.expiration \in Whens
      BY DEF NewTimers
    <3>2. Whens \subseteq Nat
      BY TimerQueueAssumption
    <3> QED BY <3>1, <3>2, Zenon
  <2> QED BY <2>1, <2>2, <2>3, InsertArms DEF TimersInv
<1>5. CASE RunFunctor
  <2> DEFINE f == Head(functors)
  <2>1. UNCHANGED <<now, jumps, pc, batchNow>>
    BY <1>5 DEF RunFunctor, loopVars
  <2>2. CASE f.op = "cancel" /\ CancelInLoop(f.id) /\ UNCHANGED timerfd
    BY <2>1, <2>2, CancelFewer, FewerArmed
  <2>3. CASE f.op = "add" /\ AddTimerInLoop(f.timer, heap[f.timer])
    <3>1. functors \in Seq(Functors) /\ functors # <<>>
      BY <1>5 DEF RunFunctor, TimersInv, Types
    <3>2. f \in Functors
      <4> HIDE DEF Functors
      <4> QED BY <3>1, HeadTailProperties
    <3>3. f.timer \in Addrs
      BY <2>3, <3>2 DEF Functors
    <3>4. heap[f.timer].expiration \in Nat
      BY <3>3 DEF TimersInv, Types, Timer
    <3> QED BY <2>1, <2>3, <3>4, InsertArms DEF TimersInv
  <2> QED BY <1>5, <2>2, <2>3 DEF RunFunctor
<1>6. CASE TimerfdActive
  <2>1. UNCHANGED <<now, jumps, timerfd, batchNow, timers>> /\ pc = "idle" /\ pc' = "active"
    BY <1>6 DEF TimerfdActive, setVars
  <2> QED BY <2>1, FewerArmed
<1>7. CASE HandleRead
  <2>1. /\ pc' = "calling" /\ batchNow' = now /\ timerfd' = (IF timerfd = 0 THEN Disarmed ELSE timerfd)
        /\ timers' = timers \ {e \in timers : e[1] <= now} /\ UNCHANGED <<now, jumps>>
    BY <1>7 DEF HandleRead
  <2>2. now >= 1 /\ now \in Nat
    BY DEF ArmedInv, TimersInv, Types
  <2>3. \A e \in timers' : e[1] # 0
    BY <2>1, <2>2
  <2> QED BY <2>1, <2>2, <2>3 DEF ArmedInv
<1>8. CASE \E e \in toRun : RunTimer(e)
  <2>1. UNCHANGED <<now, jumps, timerfd, batchNow, timers, pc>>
    BY <1>8 DEF RunTimer, setVars
  <2> QED BY <2>1, FewerArmed
<1>9. CASE UNCHANGED vars
  <2>1. UNCHANGED <<now, jumps, timerfd, batchNow, timers, pc>>
    BY <1>9 DEF vars, setVars, loopVars
  <2> QED BY <2>1, FewerArmed
<1> QED BY <1>1, <1>2, <1>3, <1>4, <1>5, <1>6, <1>7, <1>8, <1>9, ResetArms, TickArmed, JumpArmed DEF Next, LoopStep

\* The timerfd is armed whenever the loop may poll and there is a timer; while the
\* wall clock runs steadily, it comes no later than the earliest timer wants.
THEOREM TimerfdAlwaysArmed == Spec => []TimerfdArmed
<1>1. Init => ArmedInv
  BY DEF Init, ArmedInv, Disarmed
<1>2. TimersInv /\ TimersInv' /\ ArmedInv /\ [Next]_vars => ArmedInv'
  BY ArmedStep
<1>3. TimersInv /\ ArmedInv => TimerfdArmed
  <2> SUFFICES ASSUME TimersInv, ArmedInv, pc # "calling", timers # {}
               PROVE  ArmedFor(Least(Expirations(timers)))
    BY DEF TimerfdArmed, ArmedFor
  <2> DEFINE E == Expirations(timers)
  <2>1. E \in SUBSET Nat /\ E # {}
    BY DEF Expirations, TimersInv, Types
  <2>2. Least(E) \in E
    <3> HIDE DEF E
    <3> QED BY <2>1, LeastNat
  <2>3. \E e \in timers : e[1] = Least(E)
    BY <2>2, Zenon DEF Expirations
  <2> QED BY <2>3 DEF ArmedInv
<1> QED BY <1>1, <1>2, <1>3, TimersInductive, PTL DEF Spec

-----------------------------------------------------------------------------
(* What has run and what has been cancelled.                               *)

\* The Timer at a, if there is one, has a sequence that no other has.  If it does
\* not repeat and has run, it is in the batch; if it has been cancelled, it is in
\* the batch and in cancelingTimers_.
Fate(a) ==
    heap[a] # Free =>
        /\ heap[a].seq \in 1 .. numCreated
        /\ \A b \in Addrs : heap[b].seq = heap[a].seq => b = a
        /\ heap[a].interval = 0 /\ heap[a].seq \in fired => \E e \in expired \ toRun : e[2] = a
        /\ cancelled[heap[a].seq] # "erased"
        /\ cancelled[heap[a].seq] = "inBatch" =>
              <<a, heap[a].seq>> \in cancelingTimers /\ \E e \in expired : e[2] = a

HistoryInv ==
    /\ numCreated \in 0 .. MaxTimers /\ fired \subseteq 1 .. numCreated
    /\ cancelled \in [1 .. MaxTimers -> {"no", "erased", "inBatch"}]
    /\ \A s \in 1 .. MaxTimers : s > numCreated => cancelled[s] = "no"
    /\ toRun \subseteq expired
    /\ \A a \in Addrs : Fate(a)

\* Two entries of the sets for the same Timer are one.
LEMMA SameTimer ==
    ASSUME TimersInv, NEW d \in timers \cup expired, NEW e \in timers \cup expired, d[2] = e[2]
    PROVE  d = e
<1>1. d = <<d[1], d[2]>> /\ e = <<e[1], e[2]>>
  BY DEF TimersInv, Types
<1>2. d[1] = e[1]
  BY DEF TimersInv, Places
<1> QED BY <1>1, <1>2

\* Steps that create and delete no Timer, run none and cancel none.
LEMMA SameHistory ==
    ASSUME HistoryInv, UNCHANGED <<heap, numCreated, fired, cancelled, expired, toRun, cancelingTimers>>
    PROVE  HistoryInv'
BY DEF HistoryInv, Fate

\* A new Timer has a sequence of its own, that has neither run nor been cancelled.
LEMMA NewTimerHistory ==
    ASSUME TimersInv, HistoryInv, NEW a \in Addrs, NEW timer \in NewTimers, NewTimer(a, timer),
           UNCHANGED <<fired, cancelled, expired, toRun, cancelingTimers>>
    PROVE  HistoryInv'
<1> DEFINE n == numCreated + 1
<1>1. /\ timer # Free /\ heap'[a] = timer /\ \A b \in Addrs : b # a => heap'[b] = heap[b]
  <2> HIDE DEF TimersInv, NewTimers, NewTimer, Timer, Addrs
  <2> QED BY NewTimerStep
<1>2. numCreated' = n /\ timer.seq = n /\ n \in 1 .. MaxTimers /\ numCreated \in Nat
  BY TimerQueueAssumption DEF NewTimer, HistoryInv
<1>3. n \notin fired /\ cancelled[n] = "no" /\ 1 .. numCreated \subseteq 1 .. n /\ n \notin 1 .. numCreated /\ n # 0
  BY <1>2 DEF HistoryInv
<1>4. \A b \in Addrs : heap[b].seq # n
  <2>1. ASSUME NEW b \in Addrs, heap[b] = Free PROVE heap[b].seq # n
    BY <1>3, <2>1 DEF Free
  <2>2. ASSUME NEW b \in Addrs, heap[b] # Free PROVE heap[b].seq # n
    BY <1>3, <2>2, Zenon DEF HistoryInv, Fate
  <2> QED BY <2>1, <2>2
<1>5. Free.seq # n
  BY <1>3 DEF Free
<1> HIDE DEF n, Free, Addrs
<1>6. Fate(a)'
  BY <1>1, <1>2, <1>3, <1>4 DEF Fate
<1>7. ASSUME NEW b \in Addrs, b # a PROVE Fate(b)'
  <2>1. heap'[b] = heap[b] /\ Fate(b)
    BY <1>1, <1>7 DEF HistoryInv
  <2> SUFFICES ASSUME heap[b] # Free PROVE Fate(b)'
    BY <2>1 DEF Fate
  <2>2. \A c \in Addrs : heap'[c].seq = heap[b].seq => c = b
    BY <1>1, <1>2, <1>4, <2>1, Zenon DEF Fate
  <2>3. heap[b].seq \in 1 .. n
    BY <1>3, <2>1 DEF Fate
  <2> QED BY <1>2, <2>1, <2>2, <2>3 DEF Fate
<1>8. /\ numCreated' \in 0 .. MaxTimers /\ fired' \subseteq 1 .. numCreated'
      /\ \A s \in 1 .. MaxTimers : s > numCreated' => cancelled'[s] = "no"
  <2>1. n \in 0 .. MaxTimers /\ fired \subseteq 1 .. n
    BY <1>2, <1>3 DEF HistoryInv
  <2>2. \A s \in 1 .. MaxTimers : s > n => s > numCreated
    BY <1>2 DEF n
  <2> QED BY <1>2, <2>1, <2>2 DEF HistoryInv
<1> QED BY <1>6, <1>7, <1>8 DEF HistoryInv

\* cancelInLoop deletes the Timer, or leaves it to reset when it is in the batch.
LEMMA CancelHistory ==
    ASSUME TimersInv, HistoryInv, NEW id \in Addrs \X Nat, CancelInLoop(id),
           UNCHANGED <<numCreated, fired, expired, toRun>>
    PROVE  HistoryInv'
<1> DEFINE a == id[1]
           n == id[2]
<1>0. a \in Addrs /\ n \in Nat /\ id = <<a, n>>
  OBVIOUS
<1>1. CASE id \in activeTimers
  <2>1. /\ heap' = [heap EXCEPT ![a] = Free] /\ cancelled' = [cancelled EXCEPT ![n] = "erased"]
        /\ UNCHANGED cancelingTimers
    <3>1. PICK d \in timers : id = <<d[2], heap[d[2]].seq>>
      BY <1>1 DEF TimersInv, Actives, ActiveTimersOf
    <3>2. ~(\E e \in expired : e[2] = a /\ heap[a].seq = n)
      BY <3>1, SameTimer DEF TimersInv, Places
    <3> QED BY <1>1, <3>2 DEF CancelInLoop
  <2>2. heap[a].seq = n /\ heap[a] # Free
    <3>1. PICK d \in timers : id = <<d[2], heap[d[2]].seq>>
      BY <1>1 DEF TimersInv, Actives, ActiveTimersOf
    <3>2. heap[d[2]] # Free
      BY DEF TimersInv, Places
    <3> QED BY <3>1, <3>2
  <2> HIDE DEF a, n
  <2>3. heap'[a] = Free /\ \A b \in Addrs : b # a => heap'[b] = heap[b]
    <3> HIDE DEF Timer, Free, Addrs
    <3> QED BY <1>0, <2>1 DEF TimersInv, Types
  <2>4. Fate(a) /\ n \in 1 .. numCreated /\ n \in 1 .. MaxTimers /\ n # 0
    <3>1. n \in 1 .. numCreated /\ Fate(a)
      BY <1>0, <2>2 DEF HistoryInv, Fate
    <3> QED BY <3>1, TimerQueueAssumption DEF HistoryInv
  <2>5. /\ cancelled' \in [1 .. MaxTimers -> {"no", "erased", "inBatch"}]
        /\ \A s \in 1 .. MaxTimers : s # n => cancelled'[s] = cancelled[s]
    BY <2>1, <2>4 DEF HistoryInv
  <2>6. ASSUME NEW b \in Addrs PROVE Fate(b)'
    <3> HIDE DEF Addrs, Free
    <3> SUFFICES ASSUME heap'[b] # Free PROVE Fate(b)'
      BY DEF Fate
    <3>1. b # a /\ heap'[b] = heap[b] /\ heap[b] # Free /\ Fate(b)
      BY <2>3 DEF HistoryInv
    <3>2. heap[b].seq # n /\ heap[b].seq \in 1 .. numCreated
      BY <1>0, <2>2, <3>1 DEF Fate
    <3>3. heap[b].seq \in 1 .. MaxTimers
      BY <3>2, TimerQueueAssumption DEF HistoryInv
    <3>4. cancelled'[heap[b].seq] = cancelled[heap[b].seq]
      BY <2>5, <3>2, <3>3
    <3>5. \A c \in Addrs : heap'[c].seq = heap[b].seq => c = b
      <4>1. Free.seq = 0 /\ heap[b].seq # 0
        BY <3>2 DEF Free
      <4>2. \A c \in Addrs : heap[c].seq = heap[b].seq => c = b
        BY <3>1 DEF Fate
      <4> QED BY <2>3, <4>1, <4>2
    <3> QED BY <2>1, <3>1, <3>4, <3>5 DEF Fate
  <2>7. \A s \in 1 .. MaxTimers : s > numCreated => cancelled'[s] = "no"
    <3>1. ~(n > numCreated)
      BY <2>4 DEF HistoryInv
    <3> QED BY <2>5, <3>1 DEF HistoryInv
  <2> QED BY <2>5, <2>6, <2>7 DEF HistoryInv
<1>2. CASE id \notin activeTimers /\ \E e \in expired : e[2] = a /\ heap[a].seq = n
  <2>1. /\ UNCHANGED heap /\ cancelled' = [cancelled EXCEPT ![n] = "inBatch"]
        /\ cancelingTimers' = IF pc = "calling" THEN cancelingTimers \cup {id} ELSE cancelingTimers
    BY <1>2, Zenon DEF CancelInLoop
  <2>2. heap[a].seq = n /\ heap[a] # Free /\ pc = "calling" /\ \E e \in expired : e[2] = a
    <3>1. PICK e \in expired : e[2] = a /\ heap[a].seq = n
      BY <1>2
    <3>2. heap[a] # Free
      BY <3>1 DEF TimersInv, Places
    <3>3. pc = "calling"
      BY <3>1 DEF TimersInv, Types
    <3> QED BY <3>1, <3>2, <3>3
  <2> HIDE DEF a, n
  <2>3. cancelingTimers' = cancelingTimers \cup {<<a, n>>}
    BY <1>0, <2>1, <2>2
  <2>4. Fate(a) /\ n \in 1 .. numCreated /\ n \in 1 .. MaxTimers
    <3>1. n \in 1 .. numCreated /\ Fate(a)
      BY <1>0, <2>2 DEF HistoryInv, Fate
    <3> QED BY <3>1, TimerQueueAssumption DEF HistoryInv
  <2>5. /\ cancelled' \in [1 .. MaxTimers -> {"no", "erased", "inBatch"}] /\ cancelled'[n] = "inBatch"
        /\ \A s \in 1 .. MaxTimers : s # n => cancelled'[s] = cancelled[s]
    BY <2>1, <2>4 DEF HistoryInv
  <2>6. Fate(a)'
    BY <2>1, <2>2, <2>3, <2>4, <2>5 DEF Fate
  <2>7. ASSUME NEW b \in Addrs, b # a PROVE Fate(b)'
    <3> HIDE DEF Addrs, Free
    <3> SUFFICES ASSUME heap[b] # Free PROVE Fate(b)'
      BY <2>1 DEF Fate
    <3>1. Fate(b)
      BY DEF HistoryInv
    <3>2. heap[b].seq # n /\ heap[b].seq \in 1 .. numCreated
      BY <1>0, <2>2, <2>7, <3>1 DEF Fate
    <3>3. heap[b].seq \in 1 .. MaxTimers
      BY <3>2, TimerQueueAssumption DEF HistoryInv
    <3>4. cancelled'[heap[b].seq] = cancelled[heap[b].seq]
      BY <2>5, <3>2, <3>3
    <3> QED BY <2>1, <2>3, <3>1, <3>4 DEF Fate
  <2>8. \A s \in 1 .. MaxTimers : s > numCreated => cancelled'[s] = "no"
    <3>1. ~(n > numCreated)
      BY <2>4 DEF HistoryInv
    <3> QED BY <2>5, <3>1 DEF HistoryInv
  <2> QED BY <2>5, <2>6, <2>7, <2>8 DEF HistoryInv
<1>3. CASE id \notin activeTimers /\ ~(\E e \in expired : e[2] = a /\ heap[a].seq = n)
  <2>1. UNCHANGED <<heap, cancelled>> /\ cancelingTimers \subseteq cancelingTimers'
    BY <1>3 DEF CancelInLoop
  <2> QED BY <2>1 DEF HistoryInv, Fate
<1> QED BY <1>1, <1>2, <1>3

\* getExpired begins a batch in which nothing has run or been cancelled.
LEMMA HandleReadHistory ==
    ASSUME TimersInv, HistoryInv, HandleRead
    PROVE  HistoryInv'
<1>1. expired = {} /\ toRun' = expired' /\ UNCHANGED <<heap, numCreated, fired, cancelled>>
  BY DEF HandleRead, TimersInv, Types
<1>2. ASSUME NEW a \in Addrs PROVE Fate(a)'
  <2>1. Fate(a)
    BY DEF HistoryInv
  <2> HIDE DEF Addrs, Free
  <2> QED BY <1>1, <2>1 DEF Fate
<1> QED BY <1>1, <1>2 DEF HistoryInv

\* A callback.
LEMMA RunTimerHistory ==
    ASSUME TimersInv, HistoryInv, NEW e \in toRun, RunTimer(e)
    PROVE  HistoryInv'
<1>1. /\ toRun' = toRun \ {e} /\ fired' = fired \cup {heap[e[2]].seq}
      /\ UNCHANGED <<heap, numCreated, cancelled, expired, cancelingTimers>>
  BY DEF RunTimer, setVars
<1>2. e \in expired /\ e[2] \in Addrs /\ heap[e[2]] # Free
  BY DEF HistoryInv, TimersInv, Types, Places
<1>3. heap[e[2]].seq \in 1 .. numCreated /\ \A b \in Addrs : heap[b].seq = heap[e[2]].seq => b = e[2]
  BY <1>2, Zenon DEF HistoryInv, Fate
<1>4. ASSUME NEW a \in Addrs PROVE Fate(a)'
  <2>1. Fate(a)
    BY DEF HistoryInv
  <2> HIDE DEF Addrs, Free
  <2>2. e \in expired' \ toRun'
    BY <1>1, <1>2
  <2>3. CASE a = e[2]
    BY <1>1, <2>1, <2>2, <2>3 DEF Fate
  <2>4. CASE a # e[2]
    <3>1. heap[a].seq # heap[e[2]].seq
      BY <1>3, <2>4
    <3>2. heap[a].seq \in fired' => heap[a].seq \in fired
      BY <1>1, <3>1
    <3>3. \A d \in expired \ toRun : d \in expired' \ toRun'
      BY <1>1
    <3> QED BY <1>1, <2>1, <3>2, <3>3 DEF Fate
  <2> QED BY <2>3, <2>4
<1>5. toRun' \subseteq expired' /\ fired' \subseteq 1 .. numCreated'
  BY <1>1, <1>3, Zenon DEF HistoryInv
<1> QED BY <1>1, <1>4, <1>5, Zenon DEF HistoryInv

\* reset deletes the Timers of the batch that do not repeat or were cancelled.
LEMMA ResetHistory ==
    ASSUME TimersInv, HistoryInv, Reset
    PROVE  HistoryInv'
<1> DEFINE again == {e[2] : e \in Repeating}
           done == {e[2] : e \in expired} \ again
<1>1. /\ heap' = [a \in Addrs |-> IF a \in again
                                 THEN [heap[a] EXCEPT !.expiration = batchNow + heap[a].interval]
                                 ELSE IF a \in done THEN Free ELSE heap[a]]
      /\ toRun = {} /\ expired' = {} /\ UNCHANGED <<numCreated, toRun, cancelingTimers, fired, cancelled>>
  BY DEF Reset
<1>2. ASSUME NEW a \in Addrs, heap'[a] # Free
      PROVE  /\ heap[a] # Free /\ heap'[a].seq = heap[a].seq /\ heap'[a].interval = heap[a].interval
             /\ \A e \in expired : e[2] = a => heap[a].interval > 0 /\ <<a, heap[a].seq>> \notin cancelingTimers
  <2>0. heap[a] \in Timer
    BY DEF TimersInv, Types
  <2>1. CASE a \in again
    <3>1. PICK d \in expired : /\ d[2] = a /\ heap[a].interval > 0 /\ <<a, heap[a].seq>> \notin cancelingTimers
      BY <2>1, Zenon DEF Repeating
    <3>2. heap[a] # Free
      BY <3>1, Zenon DEF TimersInv, Places
    <3>3. heap'[a] = [heap[a] EXCEPT !.expiration = batchNow + heap[a].interval]
      BY <1>1, <2>1
    <3>4. heap'[a].seq = heap[a].seq /\ heap'[a].interval = heap[a].interval
      BY <2>0, <3>3 DEF Timer
    <3> QED BY <3>1, <3>2, <3>4
  <2>2. CASE a \notin again
    <3>1. a \notin done
      BY <1>1, <1>2, <2>2
    <3>2. heap'[a] = heap[a]
      BY <1>1, <2>2, <3>1
    <3>3. \A e \in expired : e[2] # a
      BY <2>2, <3>1
    <3> QED BY <1>2, <3>2, <3>3
  <2> QED BY <2>1, <2>2
<1> HIDE DEF again, done
<1>3. \A c \in Addrs : heap'[c].seq \in {0, heap[c].seq}
  <2>1. Free.seq = 0
    BY DEF Free
  <2> HIDE DEF Free, Addrs
  <2> QED BY <1>2, <2>1, Zenon
<1>4. ASSUME NEW a \in Addrs PROVE Fate(a)'
  <2> HIDE DEF Addrs, Free
  <2> SUFFICES ASSUME heap'[a] # Free PROVE Fate(a)'
    BY DEF Fate
  <2>1. /\ heap[a] # Free /\ heap'[a].seq = heap[a].seq /\ heap'[a].interval = heap[a].interval
        /\ \A e \in expired : e[2] = a => heap[a].interval > 0 /\ <<a, heap[a].seq>> \notin cancelingTimers
        /\ Fate(a)
    BY <1>2 DEF HistoryInv
  <2>2. heap[a].seq \in 1 .. numCreated /\ heap[a].seq # 0
    BY <2>1 DEF Fate
  <2>3. \A c \in Addrs : heap'[c].seq = heap[a].seq => c = a
    BY <1>3, <2>1, <2>2 DEF Fate
  <2>4. ~(heap[a].interval = 0 /\ heap[a].seq \in fired)
    BY <2>1 DEF Fate
  <2>5. cancelled[heap[a].seq] # "inBatch" /\ cancelled[heap[a].seq] # "erased"
    BY <2>1 DEF Fate
  <2> QED BY <1>1, <2>1, <2>2, <2>3, <2>4, <2>5 DEF Fate
<1> QED BY <1>1, <1>4 DEF HistoryInv

\* Every step preserves HistoryInv.
LEMMA HistoryStep ==
    ASSUME TimersInv, HistoryInv, [Next]_vars
    PROVE  HistoryInv'
<1>1. CASE \E t \in Threads : AddTimer(t)
  <2>1. PICK a \in Addrs, timer \in NewTimers : NewTimer(a, timer)
    BY <1>1 DEF AddTimer
  <2>2. UNCHANGED <<fired, cancelled, expired, toRun, cancelingTimers>>
    BY <1>1 DEF AddTimer, setVars, loopVars
  <2> HIDE DEF TimersInv, HistoryInv, NewTimers, NewTimer, Addrs
  <2> QED BY <2>1, <2>2, NewTimerHistory
<1>2. CASE AddTimerSelf
  <2>1. PICK a \in Addrs, timer \in NewTimers : NewTimer(a, timer)
    BY <1>2 DEF AddTimerSelf
  <2>2. UNCHANGED <<fired, cancelled, expired, toRun, cancelingTimers>>
    BY <1>2 DEF AddTimerSelf, loopVars
  <2> HIDE DEF TimersInv, HistoryInv, NewTimers, NewTimer, Addrs
  <2> QED BY <2>1, <2>2, NewTimerHistory
<1>3. CASE \E id \in ids : CancelSelf(id)
  <2>1. PICK id \in ids : CancelInLoop(id)
    BY <1>3 DEF CancelSelf
  <2>2. id \in Addrs \X Nat /\ UNCHANGED <<numCreated, fired, expired, toRun>>
    BY <1>3 DEF CancelSelf, loopVars, TimersInv, Types
  <2> HIDE DEF TimersInv, HistoryInv, CancelInLoop, Addrs
  <2> QED BY <2>1, <2>2, CancelHistory
<1>4. CASE RunFunctor
  <2> DEFINE f == Head(functors)
  <2>1. UNCHANGED <<numCreated, fired, expired, toRun>>
    BY <1>4 DEF RunFunctor, loopVars
  <2>2. CASE f.op = "add" /\ UNCHANGED <<heap, cancelingTimers, cancelled>>
    BY <2>1, <2>2, SameHistory
  <2>3. CASE f.op = "cancel" /\ CancelInLoop(f.id)
    <3>1. functors \in Seq(Functors) /\ functors # <<>>
      BY <1>4 DEF RunFunctor, TimersInv, Types
    <3>2. f \in Functors
      <4> HIDE DEF Functors
      <4> QED BY <3>1, HeadTailProperties
    <3>3. f.id \in Addrs \X Nat
      BY <2>3, <3>2 DEF Functors
    <3> HIDE DEF TimersInv, HistoryInv, CancelInLoop, Addrs
    <3> QED BY <2>1, <2>3, <3>3, CancelHistory
  <2> QED BY <1>4, <2>2, <2>3 DEF RunFunctor
<1>5. CASE \/ \E t \in Threads : AddTimerReturn(t)
           \/ \E id \in ids : Cancel(id)
           \/ TimerfdActive \/ Tick \/ Jump \/ UNCHANGED vars
  <2>1. UNCHANGED <<heap, numCreated, fired, cancelled, expired, toRun, cancelingTimers>>
    BY <1>5, Zenon DEF AddTimerReturn, Cancel, TimerfdActive, Tick, Jump, vars, setVars, loopVars
  <2> QED BY <2>1, SameHistory
<1> QED BY <1>1, <1>2, <1>3, <1>4, <1>5, HandleReadHistory, RunTimerHistory, ResetHistory DEF Next, LoopStep

\* HistoryInv is an invariant, together with TimersInv.
LEMMA HistoryInductive == Spec => [](TimersInv /\ HistoryInv)
<1>1. Init => HistoryInv
  <2> SUFFICES ASSUME Init PROVE HistoryInv
    OBVIOUS
  <2>1. \A a \in Addrs : Fate(a)
    BY DEF Init, Fate
  <2> QED BY <2>1, TimerQueueAssumption DEF Init, HistoryInv
<1>2. TimersInv /\ HistoryInv /\ [Next]_vars => HistoryInv'
  BY HistoryStep
<1> QED BY <1>1, <1>2, TimersInductive, PTL DEF Spec

\* Once cancelInLoop has erased a timer its callback is never called again, and a
\* timer it found in the running batch is not called after that batch.
THEOREM CancelAlwaysHolds == Spec => CancelHolds
<1> DEFINE A == \A s \in 1 .. MaxTimers : Calls(s) =>
                  /\ cancelled[s] # "erased"
                  /\ cancelled[s] = "inBatch" => \E id \in cancelingTimers : id[2] = s
<1>1. TimersInv /\ HistoryInv => A
  <2> SUFFICES ASSUME TimersInv, HistoryInv, NEW s \in 1 .. MaxTimers, Calls(s)
               PROVE  /\ cancelled[s] # "erased"
                      /\ cancelled[s] = "inBatch" => \E id \in cancelingTimers : id[2] = s
    OBVIOUS
  <2>1. PICK e \in toRun : heap[e[2]].seq = s
    BY DEF Calls
  <2>2. e[2] \in Addrs /\ heap[e[2]] # Free
    BY DEF HistoryInv, TimersInv, Types, Places
  <2>3. Fate(e[2])
    BY <2>2 DEF HistoryInv
  <2>4. cancelled[s] # "erased" /\ (cancelled[s] = "inBatch" => <<e[2], s>> \in cancelingTimers)
    BY <2>1, <2>2, <2>3 DEF Fate
  <2> QED BY <2>4
<1>2. TimersInv /\ HistoryInv => [A]_vars
  BY <1>1
<1>3. CancelHolds <=> [][A]_vars
  BY PTL DEF CancelHolds
<1> QED BY <1>2, <1>3, HistoryInductive, PTL

\* The callback of a timer without interval is called at most once.
THEOREM OneShotAlwaysRunsOnce == Spec => OneShotRunsOnce
<1> DEFINE A == \A e \in toRun \ toRun' : heap[e[2]].interval = 0 => heap[e[2]].seq \notin fired
<1>1. TimersInv /\ HistoryInv => A
  <2> SUFFICES ASSUME TimersInv, HistoryInv, NEW e \in toRun, heap[e[2]].interval = 0, heap[e[2]].seq \in fired
               PROVE  FALSE
    OBVIOUS
  <2>1. e \in expired /\ e[2] \in Addrs /\ heap[e[2]] # Free
    BY DEF HistoryInv, TimersInv, Types, Places
  <2>2. PICK d \in expired \ toRun : d[2] = e[2]
    BY <2>1, Zenon DEF HistoryInv, Fate
  <2>3. d = e
    BY <2>1, <2>2, SameTimer
  <2> QED BY <2>2, <2>3
<1>2. TimersInv /\ HistoryInv => [A]_vars
  BY <1>1
<1>3. OneShotRunsOnce <=> [][A]_vars
  BY PTL DEF OneShotRunsOnce
<1> QED BY <1>2, <1>3, HistoryInductive, PTL
=============================================================================
