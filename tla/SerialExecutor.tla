--------------------------- MODULE SerialExecutor ---------------------------
(***************************************************************************)
(* What EventLoop promises to the threads that hand it work: a first-in    *)
(* first-out executor.  Tasks are numbered in the order in which they are  *)
(* submitted; a task is executed once, by one thread, after every task     *)
(* submitted before it.                                                    *)
(***************************************************************************)
EXTENDS Naturals, Sequences

VARIABLES
    queue,      \* the submitted tasks that have not been started
    submitted,  \* number of tasks submitted so far
    last        \* the task started last, 0 before the first one

executorVars == <<queue, submitted, last>>

Init ==
    /\ queue = <<>>
    /\ submitted = 0
    /\ last = 0

Submit ==
    /\ submitted' = submitted + 1
    /\ queue' = Append(queue, submitted')
    /\ UNCHANGED last

Execute ==
    /\ queue # <<>>
    /\ last' = Head(queue)
    /\ queue' = Tail(queue)
    /\ UNCHANGED submitted

Next == Submit \/ Execute

Spec == Init /\ [][Next]_executorVars
=============================================================================
