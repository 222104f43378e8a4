---------------------------- MODULE AsyncLogging ----------------------------
(***************************************************************************)
(* muduo/base/AsyncLogging.cc: threads append log lines to buffers in      *)
(* memory, and a thread of its own takes the buffers and writes them out.  *)
(* The two sides exchange empty buffers for full ones.                     *)
(*                                                                         *)
(* Lines are numbered in the order of their append(), which runs under     *)
(* mutex_: the number of threads that append makes no difference.  A       *)
(* buffer is the sequence of its lines, or Null where the pointer is null. *)
(***************************************************************************)
EXTENDS Naturals, Sequences, Functions

CONSTANTS
    MaxLines,       \* bound: lines appended
    BufferSize,     \* kLargeBuffer, in lines
    MaxBacklog      \* 25: more buffers than this are dropped

ASSUME AsyncAssumption == MaxLines \in Nat /\ BufferSize \in Nat \ {0, 1} /\ MaxBacklog \in Nat \ {0, 1}

VARIABLES
    running,        \* running_
    owner,          \* where the owner of the object is, in start and stop
    current,        \* currentBuffer_
    next,           \* nextBuffer_
    buffers,        \* buffers_
    pc,             \* where threadFunc is
    signalled,      \* the back end waits on cond_ and has been notified
    new1,           \* newBuffer1
    new2,           \* newBuffer2
    toWrite,        \* buffersToWrite
    wrote,          \* number of them that have been written
    lines,          \* number of lines appended
    written,        \* the lines written to output
    dropped         \* history: the lines dropped

front == <<current, next, buffers, lines>>
back == <<new1, new2, toWrite, wrote, written, dropped>>
vars == <<running, owner, front, pc, signalled, back>>

Null == <<0>>

Init ==
    /\ running = FALSE /\ owner = "created"
    /\ current = <<>> /\ next = <<>> /\ buffers = <<>>
    /\ pc = "none" /\ signalled = FALSE
    /\ new1 = Null /\ new2 = Null /\ toWrite = <<>> /\ wrote = 0
    /\ lines = 0 /\ written = <<>> /\ dropped = {}

\* cond_.notify(): one that comes before the wait is lost.
Notified == signalled' = (signalled \/ pc = "wait")

\* The lines in a sequence of buffers.
LinesOf(q) == UNION {Range(q[i]) : i \in 1 .. Len(q)}
-----------------------------------------------------------------------------
(* The front end.                                                          *)

\* The line fits into the buffer (avail() > len).
Fits(b) == BufferSize - Len(b) > 1

AppendFits ==
    /\ owner # "stopped" /\ lines < MaxLines
    /\ Fits(current)
    /\ lines' = lines + 1
    /\ current' = Append(current, lines')
    /\ UNCHANGED <<running, owner, next, buffers, pc, signalled, back>>

\* Mutant of AppendFull: the back end is not notified.
AppendFullSilent ==
    /\ owner # "stopped" /\ lines < MaxLines
    /\ ~Fits(current)
    /\ lines' = lines + 1
    /\ buffers' = Append(buffers, current)
    /\ current' = Append(IF next # Null THEN next ELSE <<>>, lines')
    /\ next' = Null
    /\ UNCHANGED <<running, owner, pc, signalled, back>>

\* append when the current buffer is full.
AppendFull ==
    /\ owner # "stopped" /\ lines < MaxLines
    /\ ~Fits(current)
    /\ lines' = lines + 1
    /\ buffers' = Append(buffers, current)
    /\ current' = Append(IF next # Null THEN next ELSE <<>>, lines')
    /\ next' = Null
    /\ Notified
    /\ UNCHANGED <<running, owner, pc, back>>
-----------------------------------------------------------------------------
(* The owner.                                                              *)

\* start(): the thread is created ...
Start ==
    /\ owner = "created"
    /\ running' = TRUE /\ owner' = "starting" /\ pc' = "start"
    /\ UNCHANGED <<front, signalled, back>>

\* ... and latch_ waits for it.
Started ==
    /\ owner = "starting" /\ pc # "start"
    /\ owner' = "started"
    /\ UNCHANGED <<running, front, pc, signalled, back>>

\* stop(), or the destructor: running_ is reset and cond_ notified, both without
\* mutex_ ...
StopRunning ==
    /\ owner = "started"
    /\ running' = FALSE /\ owner' = "notify"
    /\ UNCHANGED <<front, pc, signalled, back>>

StopNotify ==
    /\ owner = "notify"
    /\ owner' = "join" /\ Notified
    /\ UNCHANGED <<running, front, pc, back>>

\* ... and the thread is joined.
Join ==
    /\ owner = "join" /\ pc = "ended"
    /\ owner' = "stopped"
    /\ UNCHANGED <<running, front, pc, signalled, back>>
-----------------------------------------------------------------------------
(* The back end: threadFunc.                                               *)

ThreadStart ==
    /\ pc = "start"
    /\ pc' = "while" /\ new1' = <<>> /\ new2' = <<>>
    /\ UNCHANGED <<running, owner, front, signalled, toWrite, wrote, written, dropped>>

While ==
    /\ pc = "while"
    /\ pc' = IF running THEN "lock" ELSE "ended"
    /\ UNCHANGED <<running, owner, front, signalled, back>>

\* waitForSeconds: mutex_ is released.
Wait ==
    /\ pc = "lock" /\ buffers = <<>>
    /\ pc' = "wait" /\ signalled' = FALSE
    /\ UNCHANGED <<running, owner, front, back>>

\* The wait ends by a notification ...
Wake ==
    /\ pc = "wait" /\ signalled
    /\ pc' = "swap" /\ signalled' = FALSE
    /\ UNCHANGED <<running, owner, front, back>>

\* Mutant of Timeout: cond_.wait().
TimeoutNever == FALSE /\ UNCHANGED vars

\* ... or after flushInterval_, or for no reason.
Timeout ==
    /\ pc = "wait"
    /\ pc' = "swap" /\ signalled' = FALSE
    /\ UNCHANGED <<running, owner, front, back>>

\* Mutant of Swap: nextBuffer_ is always replaced.
SwapAlways ==
    /\ pc = "swap" \/ (pc = "lock" /\ buffers # <<>>)
    /\ pc' = "drop"
    /\ toWrite' = Append(buffers, current)
    /\ buffers' = <<>>
    /\ current' = new1 /\ new1' = Null
    /\ next' = new2 /\ new2' = Null
    /\ UNCHANGED <<running, owner, signalled, lines, wrote, written, dropped>>

\* The rest of the critical section.
Swap ==
    /\ pc = "swap" \/ (pc = "lock" /\ buffers # <<>>)
    /\ pc' = "drop"
    /\ toWrite' = Append(buffers, current)
    /\ buffers' = <<>>
    /\ current' = new1 /\ new1' = Null
    /\ next' = IF next = Null THEN new2 ELSE next
    /\ new2' = IF next = Null THEN Null ELSE new2
    /\ UNCHANGED <<running, owner, signalled, lines, wrote, written, dropped>>

\* A long backlog is cut down to its first two buffers.
Kept == IF Len(toWrite) > MaxBacklog THEN 2 ELSE Len(toWrite)

DropBacklog ==
    /\ pc = "drop"
    /\ pc' = "write"
    /\ toWrite' = SubSeq(toWrite, 1, Kept)
    /\ dropped' = dropped \union LinesOf(SubSeq(toWrite, Kept + 1, Len(toWrite)))
    /\ UNCHANGED <<running, owner, front, signalled, new1, new2, wrote, written>>

\* The buffers are written, one after the other ...
Write ==
    /\ pc = "write" /\ wrote < Len(toWrite)
    /\ written' = written \o toWrite[wrote + 1]
    /\ wrote' = wrote + 1
    /\ UNCHANGED <<running, owner, front, pc, signalled, new1, new2, toWrite, dropped>>

\* ... and all but two of them freed.
Resize ==
    /\ pc = "write" /\ wrote = Len(toWrite)
    /\ pc' = "refill" /\ wrote' = 0
    /\ toWrite' = SubSeq(toWrite, 1, IF Len(toWrite) > 2 THEN 2 ELSE Len(toWrite))
    /\ UNCHANGED <<running, owner, front, signalled, new1, new2, written, dropped>>

\* Mutant of Recycled: the buffer is not reset().
RecycledUnreset(b) == b

\* reset()
Recycled(b) == <<>>

\* Buffers that have been written replace those given to the front end, taken
\* from the back of buffersToWrite.
Refill ==
    LET n == Len(toWrite)
        m == IF new1 = Null THEN n - 1 ELSE n
    IN  /\ pc = "refill"
        /\ pc' = "while"
        /\ new1' = IF new1 = Null THEN Recycled(toWrite[n]) ELSE new1
        /\ new2' = IF new2 = Null THEN Recycled(toWrite[m]) ELSE new2
        /\ toWrite' = <<>>
        /\ UNCHANGED <<running, owner, front, signalled, wrote, written, dropped>>

Next ==
    \/ AppendFits \/ AppendFull
    \/ Start \/ Started \/ StopRunning \/ StopNotify \/ Join
    \/ ThreadStart \/ While \/ Wait \/ Wake \/ Timeout \/ Swap
    \/ DropBacklog \/ Write \/ Resize \/ Refill

Spec == Init /\ [][Next]_vars

BackEnd ==
    \/ ThreadStart \/ While \/ Wait \/ Wake \/ Timeout \/ Swap
    \/ DropBacklog \/ Write \/ Resize \/ Refill

\* The threads that run are scheduled, and a timed wait ends.  Nobody has to
\* append or to stop.
FairSpec == Spec /\ WF_vars(BackEnd) /\ WF_vars(StopNotify \/ Join)
-----------------------------------------------------------------------------
(* Properties.                                                             *)

\* The assertions of threadFunc: at the top of the loop it holds two empty
\* buffers and nothing to write, and when it refills them, buffersToWrite has a
\* buffer for each that is missing: nextBuffer_ is only taken when a full buffer
\* is pushed.
BuffersAtHand ==
    /\ pc \in {"while", "lock", "wait", "swap"} => new1 = <<>> /\ new2 = <<>> /\ toWrite = <<>>
    /\ pc = "refill" => Len(toWrite) >= (IF new1 = Null THEN 1 ELSE 0) + (IF new2 = Null THEN 1 ELSE 0)

\* Each line of a sequence of buffers comes after those appended before it.
InOrder(q) ==
    \A i, j \in 1 .. Len(q) : \A k \in 1 .. Len(q[i]), l \in 1 .. Len(q[j]) :
        i < j \/ (i = j /\ k < l) => q[i][k] < q[j][l]

\* The buffers that the back end has still to write.
Held == IF pc \in {"drop", "write"} THEN SubSeq(toWrite, wrote + 1, Len(toWrite)) ELSE <<>>

\* What has been written, what the back end holds and what the front end holds are
\* together the lines appended, each once and in order, but for those dropped; so
\* that what stop() leaves unwritten is the last lines appended.
LinesConserved ==
    LET all == <<written>> \o Held \o Append(buffers, current)
    IN  LinesOf(all) = (1 .. lines) \ dropped /\ InOrder(all)

\* A full buffer does not wait for the flush interval: the back end is not left
\* waiting behind it.
FullBufferWakes == pc = "wait" /\ buffers # <<>> => signalled

\* While the logger runs, every line is written, or dropped with a backlog.
LineWritten ==
    \A i \in 1 .. MaxLines :
        lines >= i ~> i \in Range(written) \union dropped \/ owner \notin {"starting", "started"}

\* stop() returns, although its notification may come before the wait and be lost.
StopReturns == owner = "notify" ~> owner = "stopped"
=============================================================================
