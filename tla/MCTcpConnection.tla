-------------------------- MODULE MCTcpConnection --------------------------
(* Instances of TcpConnection for TLC. *)
EXTENDS TcpConnection

Loops(threadOps, loopOps, n) ==
    [threadOps |-> threadOps, loopOps |-> loopOps, calls |-> n,
     single |-> FALSE, destroy |-> FALSE, checked |-> TRUE]

One(threadOps, loopOps, n) == [Loops(threadOps, loopOps, n) EXCEPT !.single = TRUE]

Destroyed(u) == [u EXCEPT !.destroy = TRUE]

Closers == {"shutdown", "forceClose", "forceCloseWithDelay"}
Reads == {"startRead", "stopRead"}

\* The careful programs; two sends and a shutdown from two threads; and every function
\* from every thread.
AnyUse ==
    {Loops({"send"}, {"send"} \cup Closers, 3), Destroyed(One({"send"}, {"send"} \cup Reads, 3)),
     Loops({"send", "shutdown"}, {"send", "shutdown"}, 3),
     [Destroyed(Loops(Ops, Ops, 2)) EXCEPT !.checked = FALSE]}

\* forceClose from another thread.
ThreadCloses == {Loops({"forceClose"}, {}, 3)}

\* A server that is destroyed while a connection is closing.
ServerGoes == {Destroyed(One({}, {"shutdown"}, 2))}

\* A connection that is closed while reading is stopped.
ReadingStops == {Loops({}, {"stopRead", "forceClose"}, 2)}
=============================================================================
