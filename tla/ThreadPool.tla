----------------------------- MODULE ThreadPool -----------------------------
(***************************************************************************)
(* muduo::ThreadPool (base/ThreadPool.cc): a bounded queue of tasks under  *)
(* one mutex with two conditions, notEmpty_ and notFull_, the workers that *)
(* take from it, and the threads that put into it with run(): clients, and *)
(* the workers themselves when a task calls run().  One client, the owner, *)
(* starts and stops the pool.                                              *)
(*                                                                         *)
(* A step is one critical section.  A wait ends the section; a thread that *)
(* was notified, or woke spuriously, takes the mutex again in a section of *)
(* its own, and any other thread may have come first.  Tasks are numbered  *)
(* in the order in which run() queued them.                                *)
(***************************************************************************)
EXTENDS Integers, Sequences, FiniteSets

CONSTANTS Workers,        \* the threads start() creates
          Clients,        \* the other threads that call run()
          owner,          \* the client that calls start() and stop()
          maxQueueSize    \* maxQueueSize_; 0 is unbounded

\* What the theorems assume of the constants.
Constants ==
    /\ IsFiniteSet(Workers) /\ IsFiniteSet(Clients) /\ Workers \cap Clients = {}
    /\ owner \in Clients
    /\ maxQueueSize \in Nat

VARIABLES running,    \* running_
          queue,      \* queue_
          threads,    \* threads_
          pc,         \* where each thread is
          pushed,     \* how many tasks were queued
          taken       \* the tasks that were taken, in order

vars == <<running, queue, threads, pc, pushed, taken>>

Threads == Workers \cup Clients

States ==
    {"none", "loop", "take", "waitEmpty", "wokenEmpty", "task", "exited",
     "idle", "start", "join", "joined", "run", "waitFull", "wokenFull"}

At(f, state) == {t \in Threads : f[t] = state}

WaitEmpty == At(pc, "waitEmpty")
WokenEmpty == At(pc, "wokenEmpty")
WaitFull == At(pc, "waitFull")
WokenFull == At(pc, "wokenFull")

\* Condition::notify wakes one of the threads in the wait, if there is one.
Notified(f, wait, woken) ==
    IF At(f, wait) = {} THEN {f} ELSE {[f EXCEPT ![t] = woken] : t \in At(f, wait)}

\* Condition::notifyAll on both conditions.
AllNotified(f) ==
    [t \in Threads |-> IF f[t] = "waitEmpty" THEN "wokenEmpty"
                       ELSE IF f[t] = "waitFull" THEN "wokenFull" ELSE f[t]]

\* Where run() returns to: the task of a worker, or the client.
Caller(t) == IF t \in Workers THEN "task" ELSE "idle"

isFull == maxQueueSize > 0 /\ Len(queue) >= maxQueueSize

Init ==
    /\ running = FALSE
    /\ queue = <<>> /\ taken = <<>> /\ pushed = 0
    /\ threads = {}
    /\ pc = [t \in Threads |-> IF t \in Workers THEN "none" ELSE "idle"]
-----------------------------------------------------------------------------
(* start(), one thread at a time, and stop().                              *)

Start ==
    /\ pc[owner] = "idle" /\ threads = {}
    /\ running' = TRUE
    /\ pc' = [pc EXCEPT ![owner] = "start"]
    /\ UNCHANGED <<queue, threads, pushed, taken>>

StartThread(w) ==
    /\ pc[owner] = "start" /\ w \notin threads
    /\ threads' = threads \cup {w}
    /\ pc' = [pc EXCEPT ![w] = "loop"]
    /\ UNCHANGED <<running, queue, pushed, taken>>

StartReturns ==
    /\ pc[owner] = "start" /\ threads = Workers
    /\ pc' = [pc EXCEPT ![owner] = "idle"]
    /\ UNCHANGED <<running, queue, threads, pushed, taken>>

Stop ==
    /\ pc[owner] = "idle" /\ running
    /\ running' = FALSE
    /\ pc' = AllNotified([pc EXCEPT ![owner] = "join"])
    /\ UNCHANGED <<queue, threads, pushed, taken>>

Joined ==
    /\ pc[owner] = "join" /\ \A w \in threads : pc[w] = "exited"
    /\ pc' = [pc EXCEPT ![owner] = "joined"]
    /\ UNCHANGED <<running, queue, threads, pushed, taken>>
-----------------------------------------------------------------------------
(* run(), in a client or in a task.  Before start() it calls the task.     *)

CallRun(t) ==
    /\ pc[t] = Caller(t) /\ threads # {}
    /\ pc' = [pc EXCEPT ![t] = "run"]
    /\ UNCHANGED <<running, queue, threads, pushed, taken>>

Run(t) ==
    /\ pc[t] \in {"run", "wokenFull"}
    /\ UNCHANGED <<running, threads, taken>>
    /\ \/ /\ isFull /\ running
          /\ pc' = [pc EXCEPT ![t] = "waitFull"]
          /\ UNCHANGED <<queue, pushed>>
       \/ /\ ~running
          /\ pc' = [pc EXCEPT ![t] = Caller(t)]
          /\ UNCHANGED <<queue, pushed>>
       \/ /\ ~isFull /\ running
          /\ pushed' = pushed + 1
          /\ queue' = Append(queue, pushed + 1)
          /\ pc' \in Notified([pc EXCEPT ![t] = Caller(t)], "waitEmpty", "wokenEmpty")
-----------------------------------------------------------------------------
(* runInThread() and take().                                               *)

\* running_ is read without the mutex.
RunInThread(w) ==
    /\ pc[w] = "loop"
    /\ pc' = [pc EXCEPT ![w] = IF running THEN "take" ELSE "exited"]
    /\ UNCHANGED <<running, queue, threads, pushed, taken>>

Take(w) ==
    /\ pc[w] \in {"take", "wokenEmpty"}
    /\ UNCHANGED <<running, threads, pushed>>
    /\ \/ /\ queue = <<>>
          /\ pc' = [pc EXCEPT ![w] = IF running THEN "waitEmpty" ELSE "loop"]
          /\ UNCHANGED <<queue, taken>>
       \/ /\ queue # <<>>
          /\ taken' = Append(taken, Head(queue))
          /\ queue' = Tail(queue)
          /\ LET f == [pc EXCEPT ![w] = "task"]
             IN  pc' \in IF maxQueueSize > 0 THEN Notified(f, "waitFull", "wokenFull") ELSE {f}

TaskReturns(w) ==
    /\ pc[w] = "task"
    /\ pc' = [pc EXCEPT ![w] = "loop"]
    /\ UNCHANGED <<running, queue, threads, pushed, taken>>

\* A wait may return with no notify.
SpuriousWakeup(t) ==
    /\ pc[t] \in {"waitEmpty", "waitFull"}
    /\ pc' = [pc EXCEPT ![t] = IF pc[t] = "waitEmpty" THEN "wokenEmpty" ELSE "wokenFull"]
    /\ UNCHANGED <<running, queue, threads, pushed, taken>>

Next ==
    \/ Start \/ StartReturns \/ Stop \/ Joined
    \/ \E w \in Workers : StartThread(w) \/ RunInThread(w) \/ Take(w) \/ TaskReturns(w)
    \/ \E t \in Threads : CallRun(t) \/ Run(t) \/ SpuriousWakeup(t)

Spec == Init /\ [][Next]_vars
-----------------------------------------------------------------------------
(* Properties.                                                             *)

\* Every queued task is taken once and in the order of the calls of run() that
\* queued it, or is still in the queue, which keeps to its bound.
InOrder ==
    /\ Len(taken) + Len(queue) = pushed
    /\ \A i \in 1 .. Len(taken) : taken[i] = i
    /\ \A i \in 1 .. Len(queue) : queue[i] = Len(taken) + i
    /\ maxQueueSize > 0 => Len(queue) <= maxQueueSize

\* One notify for each task and each free place is enough: while a worker sleeps in
\* take(), every queued task has a worker of its own on its way, and while a thread
\* sleeps in run(), every free place has one.  Nobody sleeps in a stopped pool.
WakeupsSuffice ==
    /\ WaitEmpty # {} => running /\ Len(queue) <= Cardinality(WokenEmpty)
    /\ WaitFull # {} => running /\ maxQueueSize - Len(queue) <= Cardinality(WokenFull)

\* Workers and callers of run() never sleep on each other, with nobody on the way to
\* the mutex who would wake them.
NoMutualSleep == ~ (WaitEmpty # {} /\ WaitFull # {} /\ WokenEmpty = {} /\ WokenFull = {})
=============================================================================
